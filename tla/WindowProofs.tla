--------------------------- MODULE WindowProofs ----------------------------
(***************************************************************************)
(* Proofs about what the desktop window shows: Configuration, for any      *)
(* texts and any number of hashes, and in the second half LogPanel, for    *)
(* any threads, events and size of the log.                                *)
(***************************************************************************)
EXTENDS Configuration, LogPanel, FiniteSetTheorems, SequenceTheorems, TLAPS

-----------------------------------------------------------------------------
(* The entries the form shows *)

LEMMA LeastNat ==
    ASSUME NEW S, S \subseteq Nat, S # {}
    PROVE  \E m \in S : \A n \in S : m <= n
<1> DEFINE R == OpToRel(<, Nat)
<1>1. IsWellFoundedOn(R, Nat)
  BY NatLessThanWellFounded
<1>2. \A x, y \in Nat : x < y => <<x, y>> \in R
  BY DEF OpToRel
<1> HIDE DEF R
<1>3. PICK m \in S : \A n \in S : ~ (<<n, m>> \in R)
  BY <1>1, WFMin
<1>4. \A n \in S : ~ (n < m)
  BY <1>2, <1>3
<1> QED BY <1>4, <1>3

LEMMA KeptRounds ==
    ASSUME NEW version, Len(version) \in Nat
    PROVE  \E kept :
              /\ NotAutomatic(version) = kept[Len(version)]
              /\ kept[0] = <<>>
              /\ \A k \in 1..Len(version) : kept[k] = Keep(kept[k - 1], version[k])
<1> DEFINE IsRun(f, n) ==
              f = [k \in 0..n |-> IF k = 0 THEN <<>> ELSE Keep(f[k - 1], version[k])]
           Bad == {n \in Nat : ~ \E f : IsRun(f, n)}
<1>1. Bad = {}
  <2> SUFFICES ASSUME Bad # {} PROVE FALSE
    OBVIOUS
  <2>1. PICK n \in Bad : \A m \in Bad : n <= m
    <3>1. Bad \subseteq Nat
      OBVIOUS
    <3> HIDE DEF Bad
    <3> QED BY <3>1, LeastNat
  <2>2. n \in Nat /\ ~ \E f : IsRun(f, n)
    OBVIOUS
  <2>3. CASE n = 0
    <3>1. IsRun([k \in 0..0 |-> <<>>], 0)
      OBVIOUS
    <3> QED BY <2>2, <2>3, <3>1
  <2>4. CASE n # 0
    <3>1. n - 1 \in Nat /\ n - 1 \notin Bad
      <4>1. n - 1 \in Nat /\ ~ n <= n - 1
        BY <2>2, <2>4
      <4> HIDE DEF Bad
      <4> QED BY <2>1, <4>1
    <3>2. PICK f : IsRun(f, n - 1)
      BY <3>1
    <3> DEFINE g == [k \in 0..n |-> IF k = n THEN Keep(f[n - 1], version[n]) ELSE f[k]]
    <3>3. \A k \in 0..n - 1 : f[k] = IF k = 0 THEN <<>> ELSE Keep(f[k - 1], version[k])
      BY <3>2
    <3>4. \A k \in 0..n : g[k] = IF k = 0 THEN <<>> ELSE Keep(g[k - 1], version[k])
      <4> SUFFICES ASSUME NEW k \in 0..n PROVE g[k] = IF k = 0 THEN <<>> ELSE Keep(g[k - 1], version[k])
        OBVIOUS
      <4>1. CASE k = n
        <5>1. g[k] = Keep(f[n - 1], version[n]) /\ g[n - 1] = f[n - 1]
          BY <4>1, <2>2, <2>4
        <5> QED BY <5>1, <4>1, <2>4
      <4>2. CASE k # n
        <5>1. k \in 0..n - 1 /\ g[k] = f[k] /\ (k # 0 => g[k - 1] = f[k - 1])
          BY <4>2, <2>2
        <5> QED BY <5>1, <3>3
      <4> QED BY <4>1, <4>2
    <3>5. IsRun(g, n)
      BY <3>4
    <3> QED BY <3>5, <2>2
  <2> QED BY <2>3, <2>4
<1> DEFINE kept == CHOOSE f : IsRun(f, Len(version))
<1>2. IsRun(kept, Len(version))
  BY <1>1
<1>3. NotAutomatic(version) = kept[Len(version)]
  BY DEF NotAutomatic
<1> HIDE DEF kept
<1>4. kept[0] = <<>> /\ \A k \in 1..Len(version) : kept[k] = Keep(kept[k - 1], version[k])
  BY <1>2
<1> QED BY <1>3, <1>4

LEMMA KeptType ==
    ASSUME NEW version \in Seq(Hash)
    PROVE  NotAutomatic(version) \in Seq(Hash)
<1>1. PICK kept :
        /\ NotAutomatic(version) = kept[Len(version)]
        /\ kept[0] = <<>>
        /\ \A k \in 1..Len(version) : kept[k] = Keep(kept[k - 1], version[k])
  BY KeptRounds
<1> DEFINE Bad == {n \in 0..Len(version) : kept[n] \notin Seq(Hash)}
<1>2. Bad = {}
  <2> SUFFICES ASSUME Bad # {} PROVE FALSE
    OBVIOUS
  <2>1. PICK n \in Bad : \A m \in Bad : n <= m
    <3>1. Bad \subseteq Nat
      OBVIOUS
    <3> HIDE DEF Bad
    <3> QED BY <3>1, LeastNat
  <2>2. n # 0
    BY <1>1, EmptySeq
  <2>3. n - 1 \in 0..Len(version) /\ n - 1 \notin Bad /\ n \in 1..Len(version)
    BY <2>1, <2>2
  <2>4. kept[n - 1] \in Seq(Hash) /\ version[n] \in Hash
    BY <2>3
  <2>5. kept[n] = Keep(kept[n - 1], version[n])
    BY <1>1, <2>3
  <2>6. Keep(kept[n - 1], version[n]) \in Seq(Hash)
    <3>1. \A old \in Seq(Hash), hash \in Hash : Keep(old, hash) \in Seq(Hash)
      BY DEF Keep
    <3> QED BY <2>4, <3>1
  <2> QED BY <2>5, <2>6
<1> QED BY <1>1, <1>2

\* Of a list that ends with the only automatic entry the others are shown.
LEMMA KeptOthers ==
    ASSUME NEW list \in Seq(Hash), \A i \in 1..Len(list) : list[i] # "dTag"
    PROVE  NotAutomatic(Append(list, "dTag")) = list
<1> DEFINE version == Append(list, "dTag")
<1>1. /\ Len(version) = Len(list) + 1 /\ Len(list) \in Nat
      /\ \A i \in 1..Len(list) : version[i] = list[i]
      /\ version[Len(list) + 1] = "dTag"
  OBVIOUS
<1> HIDE DEF version
<1>2. PICK kept :
        /\ NotAutomatic(version) = kept[Len(version)]
        /\ kept[0] = <<>>
        /\ \A k \in 1..Len(version) : kept[k] = Keep(kept[k - 1], version[k])
  BY <1>1, KeptRounds
<1> DEFINE Good(n) == kept[n] = SubSeq(list, 1, n)
           Bad == {n \in 0..Len(list) : ~ Good(n)}
<1>3. Bad = {}
  <2> SUFFICES ASSUME Bad # {} PROVE FALSE
    OBVIOUS
  <2>1. PICK n \in Bad : \A m \in Bad : n <= m
    <3>1. Bad \subseteq Nat
      BY <1>1
    <3> HIDE DEF Bad
    <3> QED BY <3>1, LeastNat
  <2>2. n # 0
    <3>1. SubSeq(list, 1, 0) = <<>>
      OBVIOUS
    <3> QED BY <1>2, <3>1
  <2>3. n - 1 \in 0..Len(list) /\ n - 1 \notin Bad /\ n \in 1..Len(list)
    BY <2>1, <2>2, <1>1
  <2>4. kept[n] = Append(SubSeq(list, 1, n - 1), list[n])
    <3>1. kept[n] = Keep(kept[n - 1], version[n])
      BY <1>1, <1>2, <2>3
    <3>2. kept[n - 1] = SubSeq(list, 1, n - 1) /\ version[n] # "dTag" /\ version[n] = list[n]
      BY <1>1, <2>3
    <3> QED BY <3>1, <3>2 DEF Keep
  <2>5. SubSeq(list, 1, n) = Append(SubSeq(list, 1, n - 1), list[n])
    BY <1>1, <2>3
  <2> QED BY <2>4, <2>5
<1>4. kept[Len(list)] = list
  <2>1. kept[Len(list)] = SubSeq(list, 1, Len(list))
    BY <1>1, <1>3
  <2> QED BY <2>1
<1>5. kept[Len(list) + 1] = kept[Len(list)]
  BY <1>1, <1>2 DEF Keep
<1> QED BY <1>1, <1>2, <1>4, <1>5 DEF version

-----------------------------------------------------------------------------
(* What the file and the form hold *)

\* A configuration the form wrote, with whatever hashes.
FromForm(config) == \E f \in Form : Collectable(f) /\ config = Collect(f)

LEMMA SmallLists ==
    ASSUME NEW S
    PROVE  /\ <<>> \in [1..0 -> S]
           /\ \A e \in S : <<e>> \in [1..1 -> S]
           /\ \A e, f \in S : <<e, f>> \in [1..2 -> S]
OBVIOUS

\* A list of n hashes and the automatic entry.
LEMMA AutomaticLast ==
    ASSUME NEW n \in Nat, NEW list \in [1..n -> Hash]
    PROVE  Append(list, "dTag") \in [1..n + 1 -> Hash]
<1>1. list \in Seq(Hash) /\ Len(list) = n
  OBVIOUS
<1>2. "dTag" \in Hash
  BY DEF Hash
<1>3. Append(list, "dTag") \in Seq(Hash) /\ Len(Append(list, "dTag")) = n + 1
  BY <1>1, <1>2
<1> QED BY <1>3, LenProperties

LEMMA AnyConfig ==
    ASSUME NEW settings \in Text, NEW n \in NVersions-1..NVersions+2, NEW version \in [1..n -> Hash],
           NEW m \in 0..2, NEW servers \in [1..m -> Servers]
    PROVE  File(settings, version, servers) \in Config
BY DEF File, Config

LEMMA CollectType ==
    ASSUME NEW f \in Form
    PROVE  /\ Collect(f) \in Config
           /\ Collect(f).settings = f.settings
           /\ Collect(f).version = Append(f.version, "dTag")
           /\ Collect(f).servers = <<[entry |-> f.server, automatic |-> TRUE]>>
<1> DEFINE version == Append(f.version, "dTag")
           servers == <<[entry |-> f.server, automatic |-> TRUE]>>
<1>1. f.settings \in Text /\ f.version \in [1..NVersions -> Hash] /\ f.server \in Text
  BY DEF Form
<1>2. version \in [1..NVersions + 1 -> Hash]
  BY <1>1, VersionAssumption, AutomaticLast
<1>3. servers \in [1..1 -> Servers]
  <2>1. [entry |-> f.server, automatic |-> TRUE] \in Servers
    BY <1>1 DEF Servers
  <2> QED BY <2>1, SmallLists
<1>4. NVersions + 1 \in NVersions-1..NVersions+2
  BY VersionAssumption
<1> HIDE DEF version, servers
<1>5. File(f.settings, version, servers) \in Config
  BY <1>1, <1>2, <1>3, <1>4, AnyConfig
<1> QED BY <1>5 DEF Collect, File, version, servers

LEMMA DefaultType == DefaultConfig \in Config
<1> DEFINE version == Append(Hashes(NVersions), "dTag")
           servers == <<[entry |-> Default, automatic |-> TRUE]>>
<1>1. version \in [1..NVersions + 1 -> Hash]
  BY VersionAssumption, AutomaticLast DEF Hashes, Hash
<1>2. servers \in [1..1 -> Servers] /\ Default \in Text
  <2>1. Default \in Text /\ [entry |-> Default, automatic |-> TRUE] \in Servers
    BY DefaultAssumption DEF Servers, Text
  <2> QED BY <2>1, SmallLists
<1>3. NVersions + 1 \in NVersions-1..NVersions+2
  BY VersionAssumption
<1> HIDE DEF version, servers
<1>4. File(Default, version, servers) \in Config
  BY <1>1, <1>2, <1>3, AnyConfig
<1> QED BY <1>4 DEF DefaultConfig, version, servers

LEMMA ForeignType == Foreign \subseteq Config
<1> SUFFICES ASSUME NEW config \in Foreign PROVE config \in Config
  OBVIOUS
<1> DEFINE V == {Append(Hashes(n), "dTag") : n \in NVersions-1..NVersions+1} \cup {Hashes(NVersions)}
           D == {<<>>, <<[entry |-> Default, automatic |-> FALSE]>>,
                 <<[entry |-> Default, automatic |-> TRUE], [entry |-> Default, automatic |-> FALSE]>>}
<1>1. \A v \in V : \E n \in NVersions-1..NVersions+2 : v \in [1..n -> Hash]
  <2>1. \A n \in NVersions-1..NVersions+1 :
           /\ Hashes(n) \in [1..n -> Hash]
           /\ Append(Hashes(n), "dTag") \in [1..n+1 -> Hash]
           /\ n \in NVersions-1..NVersions+2 /\ n + 1 \in NVersions-1..NVersions+2
    <3> SUFFICES ASSUME NEW n \in NVersions-1..NVersions+1
                 PROVE  /\ Hashes(n) \in [1..n -> Hash]
                        /\ Append(Hashes(n), "dTag") \in [1..n+1 -> Hash]
                        /\ n \in NVersions-1..NVersions+2 /\ n + 1 \in NVersions-1..NVersions+2
      OBVIOUS
    <3>1. n \in Nat /\ n \in NVersions-1..NVersions+2 /\ n + 1 \in NVersions-1..NVersions+2
      BY VersionAssumption
    <3>2. Hashes(n) \in [1..n -> Hash]
      BY DEF Hashes, Hash
    <3> QED BY <3>1, <3>2, AutomaticLast
  <2>2. NVersions \in NVersions-1..NVersions+1
    BY VersionAssumption
  <2> SUFFICES ASSUME NEW v \in V
               PROVE  \E n \in NVersions-1..NVersions+2 : v \in [1..n -> Hash]
    OBVIOUS
  <2>3. CASE v = Hashes(NVersions)
    BY <2>1, <2>2, <2>3
  <2>4. CASE v # Hashes(NVersions)
    <3>1. PICK n \in NVersions-1..NVersions+1 : v = Append(Hashes(n), "dTag")
      BY <2>4
    <3>2. n + 1 \in NVersions-1..NVersions+2 /\ v \in [1..n + 1 -> Hash]
      BY <2>1, <3>1
    <3> QED BY <3>2
  <2> QED BY <2>3, <2>4
<1>2. \A d \in D : \E m \in 0..2 : d \in [1..m -> Servers]
  <2> DEFINE known == [entry |-> Default, automatic |-> TRUE]
             other == [entry |-> Default, automatic |-> FALSE]
  <2>1. known \in Servers /\ other \in Servers
    BY DefaultAssumption DEF Servers, Text
  <2>2. D = {<<>>, <<other>>, <<known, other>>}
    OBVIOUS
  <2> HIDE DEF D, known, other
  <2>3. <<>> \in [1..0 -> Servers] /\ <<other>> \in [1..1 -> Servers]
        /\ <<known, other>> \in [1..2 -> Servers]
    BY <2>1, SmallLists
  <2>4. 0 \in 0..2 /\ 1 \in 0..2 /\ 2 \in 0..2
    OBVIOUS
  <2>5. \A d \in D : d = <<>> \/ d = <<other>> \/ d = <<known, other>>
    BY <2>2
  <2> QED BY <2>3, <2>4, <2>5, Zenon
<1>3. Foreign = {File(s, v, d) : s \in Text, v \in V, d \in D}
  BY DEF Foreign
<1> HIDE DEF V, D
<1>4. PICK s \in Text, v \in V, d \in D : config = File(s, v, d)
  BY <1>3
<1> QED BY <1>1, <1>2, <1>4, AnyConfig

\* A form that shows a file has the type of a form.
LEMMA ShowType ==
    ASSUME NEW config \in Config, Showable(config)
    PROVE  Show(config) \in Form
<1>1. PICK n \in NVersions-1..NVersions+2, m \in 0..2 :
        config.version \in [1..n -> Hash] /\ config.servers \in [1..m -> Servers]
  BY DEF Config
<1>2. config.version \in Seq(Hash) /\ config.servers \in Seq(Servers)
  BY <1>1, VersionAssumption
<1>3. NotAutomatic(config.version) \in Seq(Hash) /\ Len(NotAutomatic(config.version)) = NVersions
  BY <1>2, KeptType DEF Showable
<1>4. NotAutomatic(config.version) \in [1..NVersions -> Hash]
  BY <1>3
<1>5. Head(config.servers) \in Servers
  BY <1>2 DEF Showable
<1>6. Head(config.servers).entry \in Text /\ config.settings \in Text
  BY <1>5 DEF Servers, Config
<1> QED BY <1>4, <1>6 DEF Show, Form

LEMMA BrokenType ==
    ASSUME TypeOK, NEW config \in Config
    PROVE  Broken(config) \subseteq Config \cup {None, Torn}
<1> DEFINE cut == [i \in DOMAIN config.servers |->
                      [config.servers[i] EXCEPT !.automatic = (i < Len(config.servers))]]
<1>1. PICK n \in NVersions-1..NVersions+2, m \in 0..2 :
        config.version \in [1..n -> Hash] /\ config.servers \in [1..m -> Servers]
  BY DEF Config
<1>2. cut \in [1..m -> Servers]
  <2>1. DOMAIN config.servers = 1..m /\ \A i \in 1..m : config.servers[i] \in Servers
    BY <1>1
  <2>2. \A s \in Servers, b \in BOOLEAN : [s EXCEPT !.automatic = b] \in Servers
    BY DEF Servers
  <2>3. \A i \in 1..m : (i < Len(config.servers)) \in BOOLEAN
    OBVIOUS
  <2> QED BY <2>1, <2>2, <2>3
<1>3. [config EXCEPT !.servers = cut] \in Config
  BY <1>2 DEF Config
<1> QED BY <1>3 DEF Broken, TypeOK

\* What was saved is what the form shows after it was read back.
LEMMA ShowCollect ==
    ASSUME NEW f \in Form, \A i \in 1..NVersions : f.version[i] = "hash"
    PROVE  Showable(Collect(f)) /\ Show(Collect(f)) = f
<1>1. f.version \in Seq(Hash) /\ Len(f.version) = NVersions
  BY VersionAssumption DEF Form
<1>2. NotAutomatic(Append(f.version, "dTag")) = f.version
  <2>1. \A i \in 1..Len(f.version) : f.version[i] # "dTag"
    BY <1>1
  <2> QED BY <1>1, <2>1, KeptOthers
<1>3. /\ Collect(f).settings = f.settings
      /\ Collect(f).version = Append(f.version, "dTag")
      /\ Collect(f).servers = <<[entry |-> f.server, automatic |-> TRUE]>>
  BY CollectType
<1>4. Collect(f).servers # <<>> /\ Head(Collect(f).servers).entry = f.server
  BY <1>3
<1>5. Showable(Collect(f))
  BY <1>1, <1>2, <1>3, <1>4 DEF Showable
<1>6. Show(Collect(f)) = [settings |-> f.settings, version |-> f.version, server |-> f.server]
  BY <1>2, <1>3, <1>4 DEF Show
<1> QED BY <1>5, <1>6 DEF Form

-----------------------------------------------------------------------------
(* The inductive invariant: what was saved is still in the file and came from *)
(* a form, and the window shows it, unless a hash looks like the automatic    *)
(* entry or the fields were edited.                                           *)

Remembered ==
    /\ saved # None => file = saved /\ FromForm(saved)
    /\ saved # None => process["window"] # "creating"
    /\ /\ saved # None /\ process["window"] = "open" /\ ~edited
       /\ \A i \in 1..NVersions : saved.version[i] = "hash"
       => Collectable(form) /\ Collect(form) = saved

FileInv == TypeOK /\ Remembered

LEMMA BlankType == BlankForm \in Form
BY DEF BlankForm, Form, Text, Hash

LEMMA InitFileInv == Init => FileInv
<1> SUFFICES ASSUME Init PROVE FileInv
  OBVIOUS
<1>1. TypeOK
  BY DefaultType, BlankType DEF Init, TypeOK
<1>2. Remembered
  BY DEF Init, Remembered
<1> QED BY <1>1, <1>2 DEF FileInv

\* Every variable has its type but for the file and the form.
LEMMA RunningType ==
    ASSUME TypeOK, NEW who, NEW content
    PROVE  RunningAfter(who, content) \in [Main -> Config \cup {None, Other}]
BY DEF TypeOK, RunningAfter

LEMMA ProcessType ==
    ASSUME TypeOK, NEW m \in Main, NEW p \in {"none", "creating", "open"}
    PROVE  [process EXCEPT ![m] = p] \in [Main -> {"none", "creating", "open"}]
BY DEF TypeOK

LEMMA OneRunning ==
    ASSUME NEW f \in [Main -> Config \cup {None, Other}], NEW m \in Main,
           NEW config \in Config \cup {None, Other}
    PROVE  [f EXCEPT ![m] = config] \in [Main -> Config \cup {None, Other}]
OBVIOUS

\* A write that is not the window's save keeps what is known of the file.
LEMMA OverwrittenKeeps ==
    ASSUME FileInv, NEW content \in Config \cup {None, Torn}, Overwritten(content)
    PROVE  /\ file' \in Config \cup {None, Torn} /\ saved' \in Config \cup {None}
           /\ saved' = None \/ (saved' = saved /\ file' = file)
BY DEF FileInv, TypeOK, Overwritten

LEMMA SavedKeeps == ASSUME FileInv, Saved PROVE
    /\ Collect(form) \in Config /\ Collectable(form) /\ form \in Form
    /\ file' = Collect(form) /\ saved' = Collect(form) /\ saved' # None
    /\ edited' = FALSE
<1>1. form \in Form
  BY DEF FileInv, TypeOK
<1>2. Collect(form) \in Config
  BY <1>1, CollectType
<1> QED BY <1>1, <1>2, NoFileAssumption DEF Saved, Saving

LEMMA LaunchFileInv == FileInv /\ Launch => FileInv'
<1> SUFFICES ASSUME FileInv, Launch PROVE FileInv'
  OBVIOUS
<1>1. /\ edited' = FALSE /\ UNCHANGED <<file, saved, shown, running>>
      /\ process' \in [Main -> {"none", "creating", "open"}]
  BY ProcessType DEF Launch, FileInv, Main
<1>2. TypeOK /\ Remembered
  BY DEF FileInv
<1>3. Show(DefaultConfig) \in Form
  <2> DEFINE f == [settings |-> Default, version |-> Hashes(NVersions), server |-> Default]
  <2>1. DefaultConfig = Collect(f)
    BY DEF DefaultConfig, Collect
  <2>2. f \in Form /\ \A i \in 1..NVersions : f.version[i] = "hash"
    BY DefaultAssumption DEF Form, Hashes, Hash, Text
  <2> HIDE DEF f
  <2> QED BY <2>1, <2>2, ShowCollect
<1>4. TypeOK'
  <2>1. form' \in Form
    <3>1. file \notin {None, Torn} /\ Showable(file) => Show(file) \in Form
      BY <1>2, ShowType DEF TypeOK
    <3> QED BY <1>3, <3>1, BlankType DEF Launch
  <2> QED BY <1>1, <1>2, <2>1 DEF TypeOK
<1>5. CASE saved = None
  BY <1>1, <1>4, <1>5 DEF FileInv, Remembered
<1>6. CASE saved # None
  <2>1. file = saved /\ saved \in Config /\ FromForm(saved)
    BY <1>2, <1>6 DEF Remembered, TypeOK
  <2>2. file \notin {None, Torn}
    BY <2>1, NoFileAssumption
  <2>3. form' = IF Showable(file) THEN Show(file) ELSE BlankForm
    BY <2>2 DEF Launch
  <2>4. PICK f \in Form : Collectable(f) /\ saved = Collect(f)
    BY <2>1 DEF FromForm
  <2>5. ASSUME \A i \in 1..NVersions : saved.version[i] = "hash"
        PROVE  form' = f
    <3>1. f.version \in Seq(Hash) /\ Len(f.version) = NVersions
      BY VersionAssumption DEF Form
    <3>2. saved.version = Append(f.version, "dTag")
      BY <2>4, CollectType
    <3>3. \A i \in 1..NVersions : f.version[i] = "hash"
      BY <2>5, <3>1, <3>2
    <3> QED BY <2>1, <2>3, <2>4, <3>3, ShowCollect
  <2>6. process'["window"] # "creating"
    BY <1>2, <2>2 DEF Launch, TypeOK, Main
  <2>7. saved' # None => file' = saved' /\ FromForm(saved')
    BY <1>1, <2>1
  <2>8. Remembered'
    BY <1>1, <2>4, <2>5, <2>6, <2>7 DEF Remembered, Collectable
  <2> QED BY <1>4, <2>8 DEF FileInv
<1> QED BY <1>5, <1>6

LEMMA CreateFileInv == FileInv /\ (Create \/ CliCreate) => FileInv'
<1> SUFFICES ASSUME FileInv, Create \/ CliCreate PROVE FileInv'
  OBVIOUS
<1>1. TypeOK /\ Remembered
  BY DEF FileInv
<1>2. PICK content \in Config \cup {None, Torn} : Overwritten(content)
  <2>1. DefaultConfig \in Config /\ Broken(DefaultConfig) \subseteq Config \cup {None, Torn}
    BY <1>1, DefaultType, BrokenType
  <2> QED BY <2>1 DEF Create, CliCreate, Changed
<1>3. running' \in [Main -> Config \cup {None, Other}]
  <2>1. "cli" \in Main
    BY DEF Main
  <2> QED BY <1>1, <2>1, RunningType, OneRunning, DefaultType DEF Create, CliCreate, Changed
<1>4. /\ process' \in [Main -> {"none", "creating", "open"}]
      /\ UNCHANGED <<form, shown, edited>>
  BY <1>1, ProcessType DEF Create, CliCreate, Main
<1>5. TypeOK'
  BY <1>1, <1>2, <1>3, <1>4, OverwrittenKeeps DEF TypeOK
<1>6. Remembered'
  <2>1. CASE saved' = None
    BY <2>1 DEF Remembered
  <2>2. CASE saved' # None
    <3>1. saved' = saved /\ file' = file
      BY <1>2, <2>2, OverwrittenKeeps
    <3>2. process'["window"] = process["window"]
      BY <1>1, <2>2, <3>1 DEF Remembered, Create, CliCreate, TypeOK, Main
    <3> QED BY <1>1, <1>4, <3>1, <3>2 DEF Remembered
  <2> QED BY <2>1, <2>2
<1> QED BY <1>5, <1>6 DEF FileInv

LEMMA FileInvStep == FileInv /\ [Next]_vars => FileInv'
<1> SUFFICES ASSUME FileInv, [Next]_vars PROVE FileInv'
  OBVIOUS
<1> USE DEF FileInv
<1>1. CASE Launch
  BY <1>1, LaunchFileInv
<1>2. CASE Edit
  <2>1. form' \in Form
    <3>1. /\ form.settings \in Text /\ form.server \in Text
          /\ form.version \in [1..NVersions -> Hash]
          /\ form = [settings |-> form.settings, version |-> form.version, server |-> form.server]
      BY DEF TypeOK, Form
    <3>2. \A i \in 1..NVersions, h \in Hash :
             [form.version EXCEPT ![i] = h] \in [1..NVersions -> Hash]
      BY <3>1
    <3>3. CASE \E t \in Text : form' = [form EXCEPT !.settings = t]
      BY <3>1, <3>3 DEF Form
    <3>4. CASE \E t \in Text : form' = [form EXCEPT !.server = t]
      BY <3>1, <3>4 DEF Form
    <3>5. ASSUME NEW i \in 1..NVersions, NEW h \in Hash, form' = [form EXCEPT !.version[i] = h]
          PROVE  form' \in Form
      <4> DEFINE version == [form.version EXCEPT ![i] = h]
      <4>1. form' = [settings |-> form.settings, version |-> version, server |-> form.server]
        BY <3>1, <3>5
      <4>2. version \in [1..NVersions -> Hash]
        BY <3>2
      <4> HIDE DEF version
      <4> QED BY <3>1, <4>1, <4>2 DEF Form
    <3> QED BY <1>2, <3>3, <3>4, <3>5 DEF Edit
  <2> QED BY <1>2, <2>1 DEF Edit, TypeOK, Remembered
<1>3. CASE Create \/ CliCreate
  BY <1>3, CreateFileInv
<1>4. CASE Save \/ Start
  <2>1. Saved /\ UNCHANGED <<process, form>>
    BY <1>4 DEF Save, Start
  <2>2. running' \in [Main -> Config \cup {None, Other}] /\ shown' \in BOOLEAN
    <3> DEFINE after == RunningAfter("window", Collect(form))
    <3>1. "window" \in Main /\ Collect(form) \in Config
      BY <2>1, SavedKeeps DEF Main
    <3>2. after \in [Main -> Config \cup {None, Other}]
      BY RunningType
    <3>3. [after EXCEPT !["window"] = Collect(form)] \in [Main -> Config \cup {None, Other}]
      BY <3>1, <3>2, OneRunning
    <3> QED BY <1>4, <3>2, <3>3 DEF Save, Start, TypeOK
  <2>3. TypeOK'
    BY <2>1, <2>2, SavedKeeps DEF TypeOK
  <2>4. Remembered'
    BY <2>1, SavedKeeps DEF Remembered, FromForm, Saved, Saving
  <2> QED BY <2>3, <2>4
<1>5. CASE SaveFails \/ EditFile
  <2>1. PICK content \in Config \cup {None, Torn} : \E who : Changed(who, content)
    <3>1. Broken(Collect(form)) \subseteq Config \cup {None, Torn}
      BY CollectType, BrokenType DEF TypeOK
    <3>2. Foreign \cup {None, Torn} \subseteq Config \cup {None, Torn}
      BY ForeignType
    <3>3. CASE SaveFails
      BY <3>1, <3>3 DEF SaveFails
    <3>4. CASE EditFile
      BY <3>2, <3>4 DEF EditFile
    <3> QED BY <1>5, <3>3, <3>4
  <2>2. UNCHANGED <<process, form, shown, edited>>
    BY <1>5 DEF SaveFails, EditFile
  <2>3. running' \in [Main -> Config \cup {None, Other}]
    BY <2>1, RunningType DEF Changed
  <2>4. TypeOK'
    BY <2>1, <2>2, <2>3, OverwrittenKeeps DEF Changed, TypeOK
  <2>5. Remembered'
    BY <2>1, <2>2, OverwrittenKeeps DEF Changed, Remembered
  <2> QED BY <2>4, <2>5
<1>6. ASSUME NEW m \in Main, ServerEnds(m) \/ Exit(m) PROVE FileInv'
  <2>1. /\ process' \in [Main -> {"none", "creating", "open"}]
        /\ \A n \in Main : process'[n] \in {process[n], "none"}
    BY <1>6 DEF ServerEnds, Exit, TypeOK
  <2>2. running' \in [Main -> Config \cup {None, Other}]
    BY <1>6, OneRunning DEF ServerEnds, Exit, TypeOK
  <2>3. /\ UNCHANGED <<file, saved, edited>> /\ shown' \in BOOLEAN /\ form' \in Form
        /\ form' = form \/ process'["window"] = "none"
    BY <1>6, BlankType DEF ServerEnds, Exit, TypeOK, Main
  <2>4. TypeOK'
    BY <2>1, <2>2, <2>3 DEF TypeOK
  <2>5. Remembered'
    BY <2>1, <2>3 DEF Remembered, Main
  <2> QED BY <2>4, <2>5
<1>7. CASE ShowStopped
  BY <1>7 DEF ShowStopped, TypeOK, Remembered
<1>8. CASE CliStart
  <2>1. running' \in [Main -> Config \cup {None, Other}]
    BY <1>8, OneRunning DEF CliStart, TypeOK, Main
  <2>2. process' \in [Main -> {"none", "creating", "open"}] /\ process'["window"] = process["window"]
    BY <1>8 DEF CliStart, TypeOK, Main
  <2>3. UNCHANGED <<file, form, shown, saved, edited>>
    BY <1>8 DEF CliStart
  <2> QED BY <2>1, <2>2, <2>3 DEF TypeOK, Remembered
<1>9. CASE UNCHANGED vars
  BY <1>9 DEF vars, TypeOK, Remembered
<1> QED
  BY <1>1, <1>2, <1>3, <1>4, <1>5, <1>6, <1>7, <1>8, <1>9 DEF Next

LEMMA FileInvariance == Spec => []FileInv
BY InitFileInv, FileInvStep, PTL DEF Spec

\* The type invariant of Configuration: what the form shows of any file, and
\* what any write leaves of one, has the shape of a form or a file.
THEOREM TypeCorrect == Spec => []TypeOK
<1>1. FileInv => TypeOK
  BY DEF FileInv
<1> QED BY <1>1, FileInvariance, PTL

\* The window shows what it saved, after any restarts and whatever writes broke
\* off in between, for any number of hashes.
THEOREM SavedComesBack == Spec => []SavedIsShown
<1>1. FileInv => SavedIsShown
  BY DEF FileInv, Remembered, SavedIsShown
<1> QED BY <1>1, FileInvariance, PTL

-----------------------------------------------------------------------------
(* The running server *)

\* No server runs without its process, and the window cannot write while its own
\* server runs, because it shows it.
Shown ==
    /\ \A m \in Main : running[m] # None => process[m] = "open"
    /\ running["window"] # None => shown

Inv == Shown /\ RunningIsSaved

LEMMA InitInv == Init => Inv
BY DEF Init, Inv, Shown, RunningIsSaved, Main

\* A change by somebody who runs no server, or starts one with what it wrote.
LEMMA ChangeKeeps ==
    ASSUME RunningIsSaved, NEW who, \A m \in Main : m = who => running[m] = None,
           \/ running' = RunningAfter(who, file')
           \/ running' = [RunningAfter(who, file') EXCEPT ![who] = file']
    PROVE  /\ RunningIsSaved'
           /\ \A m \in Main : m # who => (running'[m] # None => running[m] # None)
<1>1. ASSUME NEW m \in Main, m # who
      PROVE  /\ running'[m] = IF running[m] = None \/ file' = file THEN running[m] ELSE Other
  BY <1>1 DEF RunningAfter
<1>2. ASSUME NEW m \in Main, m = who
      PROVE  running'[m] \in {None, file'}
  BY <1>2 DEF RunningAfter
<1>3. RunningIsSaved'
  BY <1>1, <1>2 DEF RunningIsSaved
<1> QED BY <1>1, <1>3

LEMMA InvStep == Inv /\ TypeOK /\ [Next]_vars => Inv'
<1> SUFFICES ASSUME Inv, TypeOK, [Next]_vars PROVE Inv'
  OBVIOUS
<1> USE DEF Inv
<1>0. /\ Main = {"window", "cli"}
      /\ DOMAIN running = Main /\ DOMAIN process = Main
  BY DEF Main, TypeOK
<1>1. CASE Launch
  BY <1>0, <1>1 DEF Launch, Shown, RunningIsSaved
<1>2. CASE Edit
  BY <1>2 DEF Edit, Shown, RunningIsSaved
<1>3. CASE Create
  <2>1. running["window"] = None /\ UNCHANGED shown
        /\ process' = [process EXCEPT !["window"] = "open"]
    BY <1>0, <1>3 DEF Create, Shown
  <2>2. running' = RunningAfter("window", file')
    BY <1>3 DEF Create, Changed, Overwritten
  <2>3. running'["window"] = None
    BY <1>0, <2>1, <2>2 DEF RunningAfter
  <2> QED BY <1>0, <2>1, <2>2, <2>3, ChangeKeeps DEF Shown
<1>4. CASE CliCreate
  <2>1. running["cli"] = None /\ UNCHANGED shown
    BY <1>0, <1>4 DEF CliCreate, Shown
  <2>2. \/ /\ running' = RunningAfter("cli", file')
           /\ process' = [process EXCEPT !["cli"] = "none"]
        \/ /\ running' = [RunningAfter("cli", file') EXCEPT !["cli"] = file']
           /\ process' = [process EXCEPT !["cli"] = "open"]
    BY <1>4 DEF CliCreate, Changed, Overwritten
  <2>3. running' = RunningAfter("cli", file') => running'["cli"] = None
    BY <1>0, <2>1 DEF RunningAfter
  <2> QED BY <1>0, <2>1, <2>2, <2>3, ChangeKeeps DEF Shown
<1>5. CASE Save \/ SaveFails
  <2>1. running["window"] = None /\ UNCHANGED <<process, shown>>
    BY <1>5 DEF Save, SaveFails, Saved, Saving, Shown
  <2>2. running' = RunningAfter("window", file')
    BY <1>5 DEF Save, SaveFails, Saved, Changed, Overwritten
  <2>3. running'["window"] = None
    BY <1>0, <2>1, <2>2 DEF RunningAfter
  <2> QED BY <1>0, <2>1, <2>2, <2>3, ChangeKeeps DEF Shown
<1>6. CASE Start
  <2>1. /\ running["window"] = None /\ UNCHANGED process
        /\ process["window"] = "open" /\ shown'
    BY <1>6 DEF Start, Saved, Saving, Shown
  <2>2. running' = [RunningAfter("window", file') EXCEPT !["window"] = file']
    BY <1>6 DEF Start, Saved
  <2> QED BY <1>0, <2>1, <2>2, ChangeKeeps DEF Shown
<1>7. CASE EditFile
  <2>1. running' = RunningAfter("editor", file') /\ UNCHANGED <<process, shown>>
    BY <1>7 DEF EditFile, Changed, Overwritten
  <2> QED BY <1>0, <2>1, ChangeKeeps DEF Shown
<1>8. CASE ShowStopped
  BY <1>8 DEF ShowStopped, Shown, RunningIsSaved
<1>9. CASE CliStart
  BY <1>0, <1>9 DEF CliStart, Shown, RunningIsSaved
<1>10. ASSUME NEW m \in Main, ServerEnds(m) \/ Exit(m) PROVE Inv'
  BY <1>0, <1>10 DEF ServerEnds, Exit, Shown, RunningIsSaved
<1>11. CASE UNCHANGED vars
  BY <1>11 DEF vars, Shown, RunningIsSaved
<1> QED
  BY <1>1, <1>2, <1>3, <1>4, <1>5, <1>6, <1>7, <1>8, <1>9, <1>10, <1>11 DEF Next

\* Whoever started it and whatever writes failed or broke off before, a server
\* that runs has the configuration a restart would read, unless somebody else,
\* be it the other process, changes the file.
THEOREM RestartIsTheSame == Spec => []RunningIsSaved
<1>1. Inv => RunningIsSaved
  BY DEF Inv
<1>2. FileInv => TypeOK
  BY DEF FileInv
<1> QED BY <1>1, <1>2, InitInv, InvStep, FileInvariance, PTL DEF Spec

-----------------------------------------------------------------------------
(* The log panel: sums and concatenations                                    *)

Char == [by : Thread, width : 1..4]
Line == Seq(Char)
Lines == Seq(Line)

\* The function Bytes computes its sum with.
Sums(f, text) ==
    f = [k \in 0..Len(text) |-> IF k = 0 THEN 0 ELSE f[k - 1] + text[k].width]

LEMMA SumsExist == ASSUME NEW text \in Line PROVE \E f : Sums(f, text)
<1> DEFINE n == Len(text)
           Upto(f, m) == f = [k \in 0..m |-> IF k = 0 THEN 0 ELSE f[k - 1] + text[k].width]
           Bad == {m \in 0..n : ~ \E f : Upto(f, m)}
<1>1. n \in Nat
  BY DEF Line
<1> HIDE DEF n
<1>2. Bad = {}
  <2> SUFFICES ASSUME Bad # {} PROVE FALSE
    OBVIOUS
  <2>1. PICK m \in Bad : \A i \in Bad : m <= i
    <3>1. Bad \subseteq Nat
      BY <1>1
    <3> HIDE DEF Bad
    <3> QED BY <3>1, LeastNat
  <2>2. m \in 0..n /\ ~ \E f : Upto(f, m)
    OBVIOUS
  <2>3. CASE m = 0
    <3>1. Upto([k \in 0..0 |-> 0], 0)
      OBVIOUS
    <3> QED BY <2>2, <2>3, <3>1
  <2>4. CASE m # 0
    <3>1. m - 1 \in 0..n /\ m - 1 \notin Bad
      BY <1>1, <2>1, <2>2, <2>4
    <3>2. PICK f : Upto(f, m - 1)
      BY <3>1
    <3> DEFINE g == [k \in 0..m |-> IF k = m THEN f[m - 1] + text[m].width ELSE f[k]]
    <3>3. \A k \in 0..m - 1 : f[k] = IF k = 0 THEN 0 ELSE f[k - 1] + text[k].width
      BY <3>2
    <3>4. \A k \in 0..m : g[k] = IF k = 0 THEN 0 ELSE g[k - 1] + text[k].width
      <4> SUFFICES ASSUME NEW k \in 0..m
                   PROVE  g[k] = IF k = 0 THEN 0 ELSE g[k - 1] + text[k].width
        OBVIOUS
      <4>1. CASE k = m
        <5>1. g[k] = f[m - 1] + text[m].width /\ g[k - 1] = f[m - 1]
          BY <1>1, <2>2, <2>4, <4>1
        <5> QED BY <2>4, <4>1, <5>1
      <4>2. CASE k # m
        <5>1. k \in 0..m - 1 /\ g[k] = f[k]
          BY <1>1, <2>2, <4>2
        <5>2. k # 0 => k - 1 \in 0..m /\ k - 1 # m /\ g[k - 1] = f[k - 1]
          BY <1>1, <2>2, <5>1
        <5> QED BY <3>3, <5>1, <5>2
      <4> QED BY <4>1, <4>2
    <3>5. Upto(g, m)
      <4> HIDE DEF g
      <4>1. g = [k \in 0..m |-> g[k]]
        BY DEF g
      <4> QED BY <3>4, <4>1
    <3> QED BY <2>2, <3>5
  <2> QED BY <2>3, <2>4
<1>3. \E f : Upto(f, n)
  <2>1. n \in 0..n /\ n \notin Bad
    BY <1>1, <1>2
  <2> QED BY <2>1
<1> QED BY <1>3 DEF Sums, n

LEMMA BytesSums ==
    ASSUME NEW text \in Line
    PROVE  \E f : /\ Bytes(text) = f[Len(text)]
                  /\ f[0] = 0
                  /\ \A k \in 1..Len(text) : f[k] = f[k - 1] + text[k].width
                  /\ \A k \in 0..Len(text) : f[k] \in Nat
<1> DEFINE n == Len(text)
<1>1. n \in Nat /\ \A k \in 1..n : text[k] \in Char
  BY DEF Line
<1>2. \E f : Sums(f, text)
  BY SumsExist
<1> DEFINE f == CHOOSE f : Sums(f, text)
<1>3. Sums(f, text)
  BY <1>2
<1>4. Bytes(text) = f[n]
  BY DEF Bytes, Sums
<1> HIDE DEF f, n
<1>5. f[0] = 0 /\ \A k \in 1..n : f[k] = f[k - 1] + text[k].width
  <2>1. \A k \in 0..n : f[k] = IF k = 0 THEN 0 ELSE f[k - 1] + text[k].width
    BY <1>3 DEF Sums, n
  <2>2. 0 \in 0..n /\ \A k \in 1..n : k \in 0..n /\ k # 0
    BY <1>1
  <2> QED BY <2>1, <2>2
<1>6. \A k \in 0..n : f[k] \in Nat
  <2> DEFINE Bad == {k \in 0..n : f[k] \notin Nat}
  <2> SUFFICES ASSUME Bad # {} PROVE FALSE
    OBVIOUS
  <2>1. PICK m \in Bad : \A i \in Bad : m <= i
    <3>1. Bad \subseteq Nat
      BY <1>1
    <3> HIDE DEF Bad
    <3> QED BY <3>1, LeastNat
  <2>2. m \in 1..n
    BY <1>1, <1>5, <2>1
  <2>3. m - 1 \in 0..n /\ m - 1 \notin Bad
    BY <1>1, <2>1, <2>2
  <2>4. f[m - 1] \in Nat /\ text[m].width \in Nat
    BY <1>1, <2>2, <2>3 DEF Char
  <2>5. f[m] \in Nat
    BY <1>5, <2>2, <2>4
  <2> QED BY <2>1, <2>5
<1> QED BY <1>4, <1>5, <1>6 DEF n


LEMMA Joined ==
    ASSUME NEW S, NEW s \in Seq(S), NEW t \in Seq(S)
    PROVE  /\ s \o t \in Seq(S) /\ Len(s \o t) = Len(s) + Len(t)
           /\ Len(s) \in Nat /\ Len(t) \in Nat
           /\ \A i \in 1..Len(s) : (s \o t)[i] = s[i]
           /\ \A j \in 1..Len(t) : (s \o t)[Len(s) + j] = t[j]
OBVIOUS

LEMMA Halves ==
    ASSUME NEW S, NEW s \in Seq(S), NEW k \in 0..Len(s)
    PROVE  SubSeq(s, 1, k) \o SubSeq(s, k + 1, Len(s)) = s
<1> DEFINE one == SubSeq(s, 1, k)
           two == SubSeq(s, k + 1, Len(s))
           n == Len(s)
<1>1. n \in Nat /\ k \in 0..n
  OBVIOUS
<1>2. one \in Seq(S) /\ Len(one) = k /\ \A i \in 1..k : one[i] = s[i]
  OBVIOUS
<1>3. two \in Seq(S) /\ Len(two) = n - k /\ \A i \in 1..n - k : two[i] = s[i + k]
  OBVIOUS
<1> HIDE DEF one, two
<1>4. /\ one \o two \in Seq(S) /\ Len(one \o two) = Len(one) + Len(two)
      /\ \A i \in 1..Len(one) : (one \o two)[i] = one[i]
      /\ \A j \in 1..Len(two) : (one \o two)[Len(one) + j] = two[j]
  <2>1. one \in Seq(S) /\ two \in Seq(S)
    BY <1>2, <1>3
  <2> QED BY <2>1, Joined
<1> HIDE DEF n
<1>5. Len(one \o two) = n
  BY <1>1, <1>2, <1>3, <1>4
<1>6. ASSUME NEW i \in 1..Len(one \o two) PROVE (one \o two)[i] = s[i]
  <2>1. i \in Nat \ {0} /\ i <= n
    BY <1>1, <1>5
  <2>2. CASE i <= k
    <3>1. i \in 1..k
      BY <1>1, <2>1, <2>2
    <3> QED BY <1>2, <1>4, <3>1
  <2>3. CASE i > k
    <3> DEFINE j == i - k
    <3>1. j \in 1..n - k /\ i = k + j /\ i = j + k
      BY <1>1, <2>1, <2>3
    <3> HIDE DEF j
    <3> QED BY <1>2, <1>3, <1>4, <3>1
  <2> QED BY <1>1, <2>1, <2>2, <2>3
<1> QED BY <1>4, <1>5, <1>6, SeqEqual DEF one, two, n

LEMMA BytesJoined ==
    ASSUME NEW s \in Line, NEW t \in Line
    PROVE  /\ Bytes(s \o t) = Bytes(s) + Bytes(t)
           /\ Bytes(s) \in Nat /\ Bytes(t) \in Nat
<1> DEFINE all == s \o t
           m == Len(s)
           n == Len(t)
<1>1. /\ all \in Line /\ Len(all) = m + n /\ m \in Nat /\ n \in Nat
      /\ \A i \in 1..m : all[i] = s[i]
      /\ \A j \in 1..n : all[m + j] = t[j]
  BY Joined DEF Line
<1>2. PICK f : /\ Bytes(s) = f[m] /\ f[0] = 0
               /\ \A k \in 1..m : f[k] = f[k - 1] + s[k].width
               /\ \A k \in 0..m : f[k] \in Nat
  BY BytesSums
<1>3. PICK g : /\ Bytes(t) = g[n] /\ g[0] = 0
               /\ \A k \in 1..n : g[k] = g[k - 1] + t[k].width
               /\ \A k \in 0..n : g[k] \in Nat
  BY BytesSums
<1> HIDE DEF all
<1>4. PICK h : /\ Bytes(all) = h[Len(all)] /\ h[0] = 0
               /\ \A k \in 1..Len(all) : h[k] = h[k - 1] + all[k].width
               /\ \A k \in 0..Len(all) : h[k] \in Nat
  BY <1>1, BytesSums
<1> HIDE DEF m, n
<1>5. \A k \in 0..m : h[k] = f[k]
  <2> DEFINE Bad == {k \in 0..m : h[k] # f[k]}
  <2> SUFFICES ASSUME Bad # {} PROVE FALSE
    OBVIOUS
  <2>1. PICK k \in Bad : \A i \in Bad : k <= i
    <3>1. Bad \subseteq Nat
      BY <1>1
    <3> HIDE DEF Bad
    <3> QED BY <3>1, LeastNat
  <2>2. k \in 1..m /\ k \in 1..Len(all)
    BY <1>1, <1>2, <1>4, <2>1
  <2>3. k - 1 \in 0..m /\ k - 1 \notin Bad
    BY <1>1, <2>1, <2>2
  <2>4. h[k - 1] = f[k - 1] /\ all[k] = s[k]
    BY <1>1, <2>2, <2>3
  <2> QED BY <1>2, <1>4, <2>1, <2>2, <2>4
<1>6. \A k \in 0..n : h[m + k] = f[m] + g[k]
  <2> DEFINE Bad == {k \in 0..n : h[m + k] # f[m] + g[k]}
  <2> SUFFICES ASSUME Bad # {} PROVE FALSE
    OBVIOUS
  <2>1. PICK k \in Bad : \A i \in Bad : k <= i
    <3>1. Bad \subseteq Nat
      BY <1>1
    <3> HIDE DEF Bad
    <3> QED BY <3>1, LeastNat
  <2>2. k # 0
    <3>1. m \in 0..m /\ m + 0 = m /\ f[m] \in Nat
      BY <1>1, <1>2
    <3>2. h[m + 0] = f[m] + g[0]
      BY <1>3, <1>5, <3>1
    <3> QED BY <2>1, <3>2
  <2>3. k \in 1..n /\ m + k \in 1..Len(all) /\ (m + k) - 1 = m + (k - 1)
    BY <1>1, <2>1, <2>2
  <2>4. k - 1 \in 0..n /\ k - 1 \notin Bad
    BY <1>1, <2>1, <2>3
  <2>5. h[m + (k - 1)] = f[m] + g[k - 1] /\ all[m + k] = t[k]
    BY <1>1, <2>3, <2>4
  <2>6. h[m + k] = h[m + (k - 1)] + all[m + k].width /\ g[k] = g[k - 1] + t[k].width
    BY <1>3, <1>4, <2>3
  <2>7. f[m] \in Nat /\ g[k - 1] \in Nat /\ t[k].width \in Nat
    <3>1. t[k] \in Char
      BY <2>3 DEF Line, n
    <3>2. t[k].width \in Nat
      BY <3>1 DEF Char
    <3>3. m \in 0..m
      BY <1>1
    <3> QED BY <1>2, <1>3, <2>4, <3>2, <3>3
  <2>8. h[m + k] = f[m] + g[k]
    BY <2>5, <2>6, <2>7
  <2> QED BY <2>1, <2>8
<1>7. f[m] \in Nat /\ g[n] \in Nat /\ h[m + n] = f[m] + g[n]
  BY <1>1, <1>2, <1>3, <1>6
<1> QED BY <1>1, <1>2, <1>3, <1>4, <1>7 DEF all

LEMMA BytesCut ==
    ASSUME NEW text \in Line, NEW k \in 0..Len(text)
    PROVE  /\ SubSeq(text, 1, k) \in Line /\ SubSeq(text, k + 1, Len(text)) \in Line
           /\ Bytes(SubSeq(text, 1, k)) \in Nat
           /\ Bytes(SubSeq(text, k + 1, Len(text))) \in Nat
           /\ Bytes(text) =
                 Bytes(SubSeq(text, 1, k)) + Bytes(SubSeq(text, k + 1, Len(text)))
<1> DEFINE s == SubSeq(text, 1, k)
           t == SubSeq(text, k + 1, Len(text))
<1>1. s \in Line /\ t \in Line
  BY DEF Line
<1>2. s \o t = text
  BY Halves DEF Line
<1> HIDE DEF s, t
<1>3. /\ Bytes(s \o t) = Bytes(s) + Bytes(t)
      /\ Bytes(s) \in Nat /\ Bytes(t) \in Nat
  BY <1>1, BytesJoined
<1> QED BY <1>1, <1>2, <1>3 DEF s, t

LEMMA BytesNone == Bytes(<<>>) = 0 /\ <<>> \in Line
<1>1. <<>> \in Line /\ <<>> \o <<>> = <<>>
  BY DEF Line
<1>2. /\ Bytes(<<>> \o <<>>) = Bytes(<<>>) + Bytes(<<>>)
      /\ Bytes(<<>>) \in Nat
  BY <1>1, BytesJoined
<1> QED BY <1>1, <1>2

\* What is kept fits, and one character more would not.
LEMMA CutFits ==
    ASSUME NEW text \in Line, MAX_LOG_BYTES \in Nat, Bytes(text) > MAX_LOG_BYTES
    PROVE  \E k \in 1..Len(text) :
              /\ Cut(text) = SubSeq(text, k + 1, Len(text))
              /\ Bytes(SubSeq(text, k + 1, Len(text))) <= MAX_LOG_BYTES
              /\ Bytes(SubSeq(text, k, Len(text))) > MAX_LOG_BYTES
<1> DEFINE n == Len(text)
           total == Bytes(text)
           Boundary(i) == Bytes(SubSeq(text, 1, i))
           After(i) == Bytes(SubSeq(text, i, n))
           start == total - MAX_LOG_BYTES
           Good == {i \in 0..n : Boundary(i) >= start}
           IsFirst(k) == Boundary(k) >= start /\ \A j \in 0..n : Boundary(j) >= start => k <= j
           first == CHOOSE k \in 0..n : IsFirst(k)
<1>1. n \in Nat /\ SubSeq(text, 1, n) = text /\ SubSeq(text, 1, 0) = <<>>
  BY DEF Line
<1>2. \A i \in 0..n : /\ Boundary(i) \in Nat /\ After(i + 1) \in Nat
                      /\ total = Boundary(i) + After(i + 1)
  BY BytesCut
<1>3. total \in Nat /\ start \in Nat /\ start > 0 /\ Boundary(n) = total /\ Boundary(0) = 0
  <2>1. Boundary(n) = total /\ Boundary(0) = 0
    BY <1>1, BytesNone
  <2>2. total \in Nat
    BY <1>1, <1>2, <2>1
  <2> HIDE DEF total
  <2> QED BY <2>1, <2>2 DEF total
<1>4. Cut(text) = SubSeq(text, first + 1, n)
  BY DEF Cut
<1> HIDE DEF n, total, Boundary, After
<1>5. \E k \in 0..n : IsFirst(k)
  <2>1. n \in Good
    BY <1>1, <1>3
  <2>2. PICK k \in Good : \A j \in Good : k <= j
    <3>1. Good \subseteq Nat /\ Good # {}
      BY <1>1, <2>1
    <3> HIDE DEF Good
    <3> QED BY <3>1, LeastNat
  <2> QED BY <2>2
<1> HIDE DEF IsFirst
<1>6. first \in 0..n /\ IsFirst(first)
  BY <1>5
<1> HIDE DEF first
<1>7. first \in 1..n /\ first - 1 \in 0..n
  <2>1. first # 0
    BY <1>1, <1>3, <1>6 DEF IsFirst
  <2> QED BY <1>1, <1>6, <2>1
<1>8. After(first + 1) <= MAX_LOG_BYTES
  BY <1>2, <1>3, <1>6 DEF IsFirst
<1>9. After(first) > MAX_LOG_BYTES
  <2>1. ~ (Boundary(first - 1) >= start)
    BY <1>1, <1>6, <1>7 DEF IsFirst
  <2>2. (first - 1) + 1 = first
    BY <1>1, <1>7
  <2>3. /\ Boundary(first - 1) \in Nat /\ After(first) \in Nat
        /\ total = Boundary(first - 1) + After(first)
    BY <1>2, <1>7, <2>2
  <2> QED BY <1>3, <2>1, <2>3
<1> QED BY <1>4, <1>7, <1>8, <1>9 DEF After, n


Joint(s, t) == s \o t

\* The function Flat computes its result with.
Concats(f, texts) ==
    f = [k \in 0..Len(texts) |-> IF k = 0 THEN <<>> ELSE Joint(f[k - 1], texts[k])]

LEMMA ConcatsExist == ASSUME NEW texts \in Lines PROVE \E f : Concats(f, texts)
<1> DEFINE n == Len(texts)
           Upto(f, m) == f = [k \in 0..m |-> IF k = 0 THEN <<>> ELSE Joint(f[k - 1], texts[k])]
           Bad == {m \in 0..n : ~ \E f : Upto(f, m)}
<1>1. n \in Nat
  BY DEF Lines
<1> HIDE DEF n
<1>2. Bad = {}
  <2> SUFFICES ASSUME Bad # {} PROVE FALSE
    OBVIOUS
  <2>1. PICK m \in Bad : \A i \in Bad : m <= i
    <3>1. Bad \subseteq Nat
      BY <1>1
    <3> HIDE DEF Bad
    <3> QED BY <3>1, LeastNat
  <2>2. m \in 0..n /\ ~ \E f : Upto(f, m)
    OBVIOUS
  <2>3. CASE m = 0
    <3>1. Upto([k \in 0..0 |-> <<>>], 0)
      OBVIOUS
    <3> QED BY <2>2, <2>3, <3>1
  <2>4. CASE m # 0
    <3>1. m - 1 \in 0..n /\ m - 1 \notin Bad
      BY <1>1, <2>1, <2>2, <2>4
    <3>2. PICK f : Upto(f, m - 1)
      BY <3>1
    <3> DEFINE g == [k \in 0..m |-> IF k = m THEN Joint(f[m - 1], texts[m]) ELSE f[k]]
    <3>3. \A k \in 0..m - 1 : f[k] = IF k = 0 THEN <<>> ELSE Joint(f[k - 1], texts[k])
      BY <3>2
    <3>4. \A k \in 0..m : g[k] = IF k = 0 THEN <<>> ELSE Joint(g[k - 1], texts[k])
      <4> SUFFICES ASSUME NEW k \in 0..m
                   PROVE  g[k] = IF k = 0 THEN <<>> ELSE Joint(g[k - 1], texts[k])
        OBVIOUS
      <4>1. CASE k = m
        <5>1. g[k] = Joint(f[m - 1], texts[m]) /\ g[k - 1] = f[m - 1]
          BY <1>1, <2>2, <2>4, <4>1
        <5> QED BY <2>4, <4>1, <5>1
      <4>2. CASE k # m
        <5>1. k \in 0..m - 1 /\ g[k] = f[k]
          BY <1>1, <2>2, <4>2
        <5>2. k # 0 => k - 1 \in 0..m /\ k - 1 # m /\ g[k - 1] = f[k - 1]
          BY <1>1, <2>2, <5>1
        <5> QED BY <3>3, <5>1, <5>2
      <4> QED BY <4>1, <4>2
    <3>5. Upto(g, m)
      <4> HIDE DEF g
      <4>1. g = [k \in 0..m |-> g[k]]
        BY DEF g
      <4> QED BY <3>4, <4>1
    <3> QED BY <2>2, <3>5
  <2> QED BY <2>3, <2>4
<1>3. \E f : Upto(f, n)
  <2>1. n \in 0..n /\ n \notin Bad
    BY <1>1, <1>2
  <2> QED BY <2>1
<1> QED BY <1>3 DEF Concats, n

LEMMA FlatConcats ==
    ASSUME NEW texts \in Lines
    PROVE  \E f : /\ Flat(texts) = f[Len(texts)]
                  /\ f[0] = <<>>
                  /\ \A k \in 1..Len(texts) : f[k] = f[k - 1] \o texts[k]
                  /\ \A k \in 0..Len(texts) : f[k] \in Line
<1> DEFINE n == Len(texts)
<1>1. n \in Nat /\ \A k \in 1..n : texts[k] \in Line
  BY DEF Lines
<1>2. \E f : Concats(f, texts)
  BY ConcatsExist
<1> DEFINE f == CHOOSE f : Concats(f, texts)
<1>3. Concats(f, texts)
  BY <1>2
<1>4. Flat(texts) = f[n]
  BY DEF Flat, Concats, Joint
<1> HIDE DEF f, n
<1>5. f[0] = <<>> /\ \A k \in 1..n : f[k] = Joint(f[k - 1], texts[k])
  <2>1. \A k \in 0..n : f[k] = IF k = 0 THEN <<>> ELSE Joint(f[k - 1], texts[k])
    BY <1>3 DEF Concats, n
  <2>2. 0 \in 0..n /\ \A k \in 1..n : k \in 0..n /\ k # 0
    BY <1>1
  <2> QED BY <2>1, <2>2
<1>6. \A k \in 0..n : f[k] \in Line
  <2> DEFINE Bad == {k \in 0..n : f[k] \notin Line}
  <2> SUFFICES ASSUME Bad # {} PROVE FALSE
    OBVIOUS
  <2>1. PICK m \in Bad : \A i \in Bad : m <= i
    <3>1. Bad \subseteq Nat
      BY <1>1
    <3> HIDE DEF Bad
    <3> QED BY <3>1, LeastNat
  <2>2. m \in 1..n
    <3>1. f[0] \in Line
      BY <1>5, BytesNone
    <3> QED BY <1>1, <2>1, <3>1
  <2>3. m - 1 \in 0..n /\ m - 1 \notin Bad
    BY <1>1, <2>1, <2>2
  <2>4. f[m - 1] \in Line /\ texts[m] \in Line
    BY <1>1, <2>2, <2>3
  <2>5. f[m - 1] \o texts[m] \in Line
    BY <2>4, Joined DEF Line
  <2> QED BY <1>5, <2>1, <2>2, <2>5 DEF Joint
<1> QED BY <1>4, <1>5, <1>6 DEF n, Joint

LEMMA Associative ==
    ASSUME NEW s \in Line, NEW t \in Line, NEW u \in Line
    PROVE  s \o (t \o u) = (s \o t) \o u /\ s \o t \in Line
BY SMTT(30), ConcatAssociative, Joined DEF Line

LEMMA WithNone ==
    ASSUME NEW s \in Line
    PROVE  s \o <<>> = s /\ <<>> \o s = s
BY DEF Line

LEMMA FlatNone == Flat(<<>>) = <<>>
<1>1. <<>> \in Lines /\ Len(<<>>) = 0
  BY DEF Lines
<1> QED BY <1>1, FlatConcats

LEMMA FlatAppend ==
    ASSUME NEW texts \in Lines, NEW text \in Line
    PROVE  /\ Flat(Append(texts, text)) = Flat(texts) \o text
           /\ Flat(texts) \in Line
<1> DEFINE n == Len(texts)
           more == Append(texts, text)
<1>1. /\ n \in Nat /\ more \in Lines /\ Len(more) = n + 1 /\ more[n + 1] = text
      /\ \A k \in 1..n : more[k] = texts[k]
  BY DEF Lines
<1>2. PICK f : /\ Flat(texts) = f[n] /\ f[0] = <<>>
               /\ \A k \in 1..n : f[k] = f[k - 1] \o texts[k]
               /\ \A k \in 0..n : f[k] \in Line
  BY FlatConcats
<1> HIDE DEF n, more
<1>3. PICK g : /\ Flat(more) = g[n + 1] /\ g[0] = <<>>
               /\ \A k \in 1..n + 1 : g[k] = g[k - 1] \o more[k]
  <2>1. \E g : /\ Flat(more) = g[Len(more)] /\ g[0] = <<>>
               /\ \A k \in 1..Len(more) : g[k] = g[k - 1] \o more[k]
    <3>1. more \in Lines
      BY <1>1
    <3> QED BY <3>1, FlatConcats
  <2>2. Len(more) = n + 1
    BY <1>1
  <2> QED BY <2>1, <2>2, Zenon
<1>4. g[n] = f[n]
  <2> DEFINE Bad == {k \in 0..n : g[k] # f[k]}
  <2> SUFFICES ASSUME Bad # {} PROVE FALSE
    BY <1>1
  <2>1. PICK k \in Bad : \A i \in Bad : k <= i
    <3>1. Bad \subseteq Nat
      BY <1>1
    <3> HIDE DEF Bad
    <3> QED BY <3>1, LeastNat
  <2>2. k \in 1..n /\ k \in 1..n + 1
    BY <1>1, <1>2, <1>3, <2>1
  <2>3. k - 1 \in 0..n /\ k - 1 \notin Bad
    BY <1>1, <2>1, <2>2
  <2>4. g[k - 1] = f[k - 1] /\ more[k] = texts[k]
    BY <1>1, <2>2, <2>3
  <2> QED BY <1>2, <1>3, <2>1, <2>2, <2>4
<1>5. g[n + 1] = g[n] \o text
  <2>1. n + 1 \in 1..n + 1 /\ (n + 1) - 1 = n
    BY <1>1
  <2> QED BY <1>1, <1>3, <2>1
<1>6. n \in 0..n
  BY <1>1
<1> QED BY <1>2, <1>3, <1>4, <1>5, <1>6 DEF more

LEMMA FlatHead ==
    ASSUME NEW texts \in Lines, texts # <<>>
    PROVE  /\ Flat(texts) = Head(texts) \o Flat(Tail(texts))
           /\ Head(texts) \in Line /\ Tail(texts) \in Lines
           /\ Flat(Tail(texts)) \in Line
<1> DEFINE n == Len(texts)
           first == Head(texts)
           later == Tail(texts)
<1>1. /\ n \in Nat \ {0} /\ first \in Line /\ later \in Lines /\ Len(later) = n - 1
      /\ first = texts[1] /\ \A k \in 1..n - 1 : later[k] = texts[k + 1]
  BY DEF Lines
<1>2. PICK f : /\ Flat(texts) = f[n] /\ f[0] = <<>>
               /\ \A k \in 1..n : f[k] = f[k - 1] \o texts[k]
  BY FlatConcats
<1> HIDE DEF n, first, later
<1>3. PICK g : /\ Flat(later) = g[n - 1] /\ g[0] = <<>>
               /\ \A k \in 1..n - 1 : g[k] = g[k - 1] \o later[k]
               /\ \A k \in 0..n - 1 : g[k] \in Line
  <2>1. \E g : /\ Flat(later) = g[Len(later)] /\ g[0] = <<>>
               /\ \A k \in 1..Len(later) : g[k] = g[k - 1] \o later[k]
               /\ \A k \in 0..Len(later) : g[k] \in Line
    <3>1. later \in Lines
      BY <1>1
    <3> QED BY <3>1, FlatConcats
  <2>2. Len(later) = n - 1
    BY <1>1
  <2> QED BY <2>1, <2>2, Zenon
<1>4. n - 1 \in 0..n - 1 /\ (n - 1) + 1 = n
  BY <1>1
<1>5. f[(n - 1) + 1] = Joint(first, g[n - 1])
  <2> DEFINE Bad == {k \in 0..n - 1 : f[k + 1] # Joint(first, g[k])}
  <2> SUFFICES ASSUME Bad # {} PROVE FALSE
    BY <1>4
  <2>1. PICK k \in Bad : \A i \in Bad : k <= i
    <3>1. Bad \subseteq Nat
      BY <1>1
    <3> HIDE DEF Bad
    <3> QED BY <3>1, LeastNat
  <2>2. k # 0
    <3>1. 1 \in 1..n /\ 1 - 1 = 0 /\ 0 + 1 = 1
      BY <1>1
    <3>2. f[0 + 1] = <<>> \o first /\ g[0] = <<>>
      BY <1>1, <1>2, <1>3, <3>1
    <3>3. f[0 + 1] = Joint(first, g[0])
      BY <1>1, <3>2, WithNone DEF Joint
    <3> QED BY <2>1, <3>3
  <2>3. /\ k \in 1..n - 1 /\ k + 1 \in 1..n /\ (k + 1) - 1 = k
        /\ k - 1 \in 0..n - 1 /\ (k - 1) + 1 = k
    BY <1>1, <2>1, <2>2
  <2>4. k - 1 \notin Bad
    BY <2>1, <2>3
  <2>5. f[k] = Joint(first, g[k - 1])
    BY <2>3, <2>4
  <2>6. f[k + 1] = f[k] \o texts[k + 1] /\ g[k] = g[k - 1] \o later[k] /\ later[k] = texts[k + 1]
    BY <1>1, <1>2, <1>3, <2>3
  <2>7. g[k - 1] \in Line /\ later[k] \in Line
    <3>1. k \in 1..Len(later)
      BY <1>1, <2>3
    <3>2. later[k] \in Line
      BY <1>1, <3>1 DEF Lines
    <3> QED BY <1>3, <2>3, <3>2
  <2>8. f[k + 1] = Joint(first, g[k])
    <3> DEFINE before == g[k - 1]  next == later[k]
    <3>1. f[k + 1] = (first \o before) \o next /\ g[k] = before \o next
      BY <2>5, <2>6 DEF Joint
    <3>2. first \in Line /\ before \in Line /\ next \in Line
      BY <1>1, <2>7
    <3> HIDE DEF before, next
    <3>3. first \o (before \o next) = (first \o before) \o next
      BY ZenonT(40), <3>2, Associative
    <3> QED BY <3>1, <3>3 DEF Joint
  <2> QED BY <2>1, <2>8
<1> QED BY <1>1, <1>2, <1>3, <1>4, <1>5 DEF first, later, Joint


LEMMA CutJoined ==
    ASSUME NEW s \in Line, NEW t \in Line, NEW d \in 0..Len(s)
    PROVE  SubSeq(s \o t, d + 1, Len(s \o t)) = SubSeq(s, d + 1, Len(s)) \o t
<1> DEFINE all == s \o t
           end == SubSeq(s, d + 1, Len(s))
           cut == SubSeq(all, d + 1, Len(all))
           m == Len(s)
           k == Len(t)
<1>1. /\ all \in Line /\ Len(all) = m + k /\ m \in Nat /\ k \in Nat /\ d \in 0..m
      /\ \A i \in 1..m : all[i] = s[i]
      /\ \A j \in 1..k : all[m + j] = t[j]
  BY Joined DEF Line
<1>2. end \in Line /\ Len(end) = m - d /\ \A i \in 1..m - d : end[i] = s[i + d]
  BY DEF Line
<1> HIDE DEF all, end
<1>3. /\ end \o t \in Line /\ Len(end \o t) = Len(end) + k
      /\ \A i \in 1..Len(end) : (end \o t)[i] = end[i]
      /\ \A j \in 1..k : (end \o t)[Len(end) + j] = t[j]
  <2>1. end \in Line /\ t \in Line
    BY <1>2
  <2> QED BY <2>1, Joined DEF Line
<1>4. cut \in Line /\ Len(cut) = Len(all) - d /\ \A i \in 1..Len(all) - d : cut[i] = all[i + d]
  BY <1>1 DEF Line
<1> HIDE DEF cut, m, k
<1>5. Len(cut) = m + k - d /\ Len(end \o t) = m + k - d
  BY <1>1, <1>2, <1>3, <1>4
<1>6. ASSUME NEW i \in 1..Len(cut) PROVE cut[i] = (end \o t)[i]
  <2>1. i \in Nat \ {0} /\ i <= m + k - d /\ cut[i] = all[i + d]
    BY <1>1, <1>4, <1>5
  <2>2. CASE i <= m - d
    <3>1. i \in 1..m - d /\ i + d \in 1..m /\ i \in 1..Len(end)
      BY <1>1, <1>2, <2>1, <2>2
    <3> QED BY <1>1, <1>2, <1>3, <2>1, <3>1
  <2>3. CASE i > m - d
    <3> DEFINE j == i - (m - d)
    <3>1. j \in 1..k /\ i + d = m + j /\ i = Len(end) + j
      BY <1>1, <1>2, <2>1, <2>3
    <3> HIDE DEF j
    <3> QED BY <1>1, <1>3, <2>1, <3>1
  <2>4. i <= m - d \/ i > m - d
    <3>1. i \in Nat /\ m \in Nat /\ d \in Nat
      BY <1>1, <2>1
    <3> QED BY <3>1
  <2> QED BY <2>2, <2>3, <2>4
<1>7. cut = end \o t
  BY <1>3, <1>4, <1>5, <1>6, SeqEqual DEF Line
<1> QED BY <1>7 DEF cut, end, all

LEMMA CutAfter ==
    ASSUME NEW s \in Line, NEW k \in 0..Len(s)
    PROVE  LET end == SubSeq(s, k + 1, Len(s))
           IN  /\ end \in Line /\ Len(end) = Len(s) - k
               /\ \A j \in 1..Len(s) - k : end[j] = s[j + k]
BY DEF Line

\* The end of the end of a text is an end of the text.
LEMMA CutTwice ==
    ASSUME NEW s \in Line, NEW i \in 1..Len(s) + 1, NEW t, t = SubSeq(s, i, Len(s)),
           NEW k \in 0..Len(t)
    PROVE  SubSeq(t, k + 1, Len(t)) = SubSeq(s, i + k, Len(s))
<1> DEFINE n == Len(s)
           one == SubSeq(t, k + 1, Len(t))
           two == SubSeq(s, i + k, n)
<1>1. n \in Nat /\ i \in 1..n + 1
  BY DEF Line
<1>2. t \in Line /\ Len(t) = n + 1 - i /\ \A j \in 1..n + 1 - i : t[j] = s[i + j - 1]
  BY DEF Line
<1>3. one \in Line /\ Len(one) = Len(t) - k /\ \A j \in 1..Len(t) - k : one[j] = t[j + k]
  BY <1>2, CutAfter
<1>4. two \in Line /\ Len(two) = n + 1 - (i + k)
      /\ \A j \in 1..n + 1 - (i + k) : two[j] = s[i + k + j - 1]
  BY SMTT(30), <1>1, <1>2 DEF Line
<1> HIDE DEF n, one, two
<1>5. Len(one) = n + 1 - (i + k)
  BY <1>1, <1>2, <1>3
<1>6. ASSUME NEW j \in 1..n + 1 - (i + k) PROVE one[j] = two[j]
  <2>1. j \in 1..Len(t) - k /\ j + k \in 1..n + 1 - i /\ i + (j + k) - 1 = i + k + j - 1
    BY <1>1, <1>2
  <2> QED BY <1>2, <1>3, <1>4, <2>1
<1>7. one = two
  BY <1>3, <1>4, <1>5, <1>6, SeqEqual DEF Line
<1> QED BY <1>7 DEF one, two, n


-----------------------------------------------------------------------------
(* The inductive invariant of the panel *)

PanelTyped ==
    /\ event \in [Thread -> Line] /\ rest \in [Thread -> Line] /\ buffer \in [Thread -> Line]
    /\ channel \in Lines /\ relayed \in Line /\ posted \in Lines
    /\ panel \in Line /\ appended \in Line /\ logged \in Lines
    /\ over \in BOOLEAN

\* What a writer holds and what was not written are the event.
Writers == \A t \in Thread : buffer[t] \o rest[t] = event[t]

\* PanelIsTail, for a given place the panel begins at.
PanelFrom(first) ==
    /\ panel = SubSeq(appended, first, Len(appended))
    /\ Bytes(panel) <= MAX_LOG_BYTES
    /\ first > 1 => Bytes(SubSeq(appended, first - 1, Len(appended))) > MAX_LOG_BYTES

PanelInv == PanelTyped /\ Writers /\ PanelIsTail /\ EventsInOrder

LEMMA PanelInit == LogInit => PanelInv
<1> SUFFICES ASSUME LogInit PROVE PanelInv
  OBVIOUS
<1>1. /\ event = [t \in Thread |-> <<>>] /\ rest = [t \in Thread |-> <<>>]
      /\ buffer = [t \in Thread |-> <<>>] /\ channel = <<>> /\ relayed = <<>> /\ posted = <<>>
      /\ panel = <<>> /\ over = FALSE /\ logged = <<>> /\ appended = <<>>
  BY DEF LogInit
<1>2. <<>> \in Line /\ <<>> \in Lines /\ Bytes(<<>>) = 0 /\ <<>> \o <<>> = <<>>
      /\ Len(<<>>) = 0 /\ SubSeq(<<>>, 1, 0) = <<>>
  BY BytesNone, WithNone DEF Lines
<1>3. PanelTyped
  BY <1>1, <1>2 DEF PanelTyped
<1>4. Writers
  BY <1>1, <1>2 DEF Writers
<1>5. PanelIsTail
  <2>1. PanelFrom(1) /\ 1 \in 1..Len(appended) + 1
    BY <1>1, <1>2, BoundAssumption DEF PanelFrom
  <2> QED BY <2>1 DEF PanelIsTail, PanelFrom
<1>6. EventsInOrder
  <2>1. /\ Flat(logged) = <<>> /\ Flat(posted) = <<>>
        /\ Flat(channel) = <<>>
    BY <1>1, FlatNone
  <2>2. appended \o Flat(posted) \o relayed \o Flat(channel) = <<>>
    BY <1>1, <1>2, <2>1
  <2>3. Len(appended) = 0 /\ Len(Flat(logged)) = 0
        /\ appended = SubSeq(Flat(logged), 1, Len(appended))
    BY <1>1, <1>2, <2>1
  <2> QED BY <2>1, <2>2, <2>3 DEF EventsInOrder
<1> QED BY <1>3, <1>4, <1>5, <1>6 DEF PanelInv

\* The text appended moves the place the panel begins at.
LEMMA TailMoves ==
    ASSUME NEW all \in Line, NEW kept, NEW more \in Line, NEW first \in 1..Len(all) + 1,
           MAX_LOG_BYTES \in Nat, kept = SubSeq(all, first, Len(all)),
           first > 1 => Bytes(SubSeq(all, first - 1, Len(all))) > MAX_LOG_BYTES
    PROVE  \E to \in 1..Len(all \o more) + 1 :
              /\ Cut(kept \o more) = SubSeq(all \o more, to, Len(all \o more))
              /\ Bytes(Cut(kept \o more)) <= MAX_LOG_BYTES
              /\ to > 1 =>
                    Bytes(SubSeq(all \o more, to - 1, Len(all \o more))) > MAX_LOG_BYTES
<1> DEFINE longer == all \o more
           now == kept \o more
           m == Len(longer)
<1>1. longer \in Line /\ m \in Nat /\ m = Len(all) + Len(more) /\ Len(all) \in Nat /\ Len(more) \in Nat
  BY Joined DEF Line
<1>2. now = SubSeq(longer, first, m) /\ now \in Line
  <2>1. PICK d \in 0..Len(all) : first = d + 1
    <3>1. first - 1 \in 0..Len(all) /\ first = (first - 1) + 1
      BY <1>1
    <3> QED BY <3>1
  <2>2. SubSeq(longer, d + 1, m) = SubSeq(all, d + 1, Len(all)) \o more
    BY CutJoined
  <2>3. kept \in Line
    BY BytesCut, <2>1
  <2> QED BY <2>1, <2>2, <2>3, Joined DEF Line
<1>3. first > 1 => Bytes(SubSeq(longer, first - 1, m)) > MAX_LOG_BYTES
  <2> SUFFICES ASSUME first > 1 PROVE Bytes(SubSeq(longer, first - 1, m)) > MAX_LOG_BYTES
    OBVIOUS
  <2>1. PICK d \in 0..Len(all) : first - 1 = d + 1
    <3>1. first - 2 \in 0..Len(all) /\ first - 1 = (first - 2) + 1
      BY <1>1
    <3> QED BY <3>1
  <2> DEFINE end == SubSeq(all, d + 1, Len(all))
  <2>2. SubSeq(longer, d + 1, m) = end \o more
    BY CutJoined
  <2>3. end \in Line /\ Bytes(end) > MAX_LOG_BYTES
    BY BytesCut, <2>1
  <2> HIDE DEF end
  <2>4. Bytes(end \o more) = Bytes(end) + Bytes(more)
        /\ Bytes(end) \in Nat /\ Bytes(more) \in Nat
    BY <2>3, BytesJoined
  <2>5. Bytes(end \o more) > MAX_LOG_BYTES
    BY <2>3, <2>4
  <2> QED BY <2>1, <2>2, <2>5
<1> HIDE DEF longer, now, m
<1>4. Len(now) = m + 1 - first /\ first \in 1..m + 1 /\ first \in Nat
  BY <1>1, <1>2 DEF Line, m
<1>5. CASE ~ (Bytes(now) > MAX_LOG_BYTES)
  <2>1. Cut(now) = now
    BY <1>5 DEF Cut
  <2>2. Bytes(now) <= MAX_LOG_BYTES
    <3>1. Bytes(now) \in Nat
      BY <1>2, BytesJoined
    <3> QED BY <1>5, <3>1
  <2> QED BY <1>2, <1>3, <1>4, <2>1, <2>2 DEF longer, now, m
<1>6. CASE Bytes(now) > MAX_LOG_BYTES
  <2>1. PICK k \in 1..Len(now) :
              /\ Cut(now) = SubSeq(now, k + 1, Len(now))
              /\ Bytes(SubSeq(now, k + 1, Len(now))) <= MAX_LOG_BYTES
              /\ Bytes(SubSeq(now, k, Len(now))) > MAX_LOG_BYTES
    BY <1>2, <1>6, CutFits
  <2> DEFINE to == first + k
  <2>2. to \in 1..m + 1 /\ to > 1 /\ k \in Nat
    BY <1>1, <1>4, <2>1
  <2>3. SubSeq(now, k + 1, Len(now)) = SubSeq(longer, to, m)
    BY SMTT(30), <1>1, <1>2, <1>4, <2>1, CutTwice DEF m
  <2>4. SubSeq(now, k, Len(now)) = SubSeq(longer, to - 1, m)
    <3>1. PICK i \in 0..Len(now) : k = i + 1 /\ to - 1 = first + i
      <4>1. k - 1 \in 0..Len(now) /\ k = (k - 1) + 1 /\ to - 1 = first + (k - 1)
        BY <1>1, <1>4, <2>1
      <4> QED BY <4>1
    <3> QED BY <1>1, <1>2, <1>4, <3>1, CutTwice DEF m
  <2> HIDE DEF to
  <2> QED BY <2>1, <2>2, <2>3, <2>4 DEF longer, now, m
<1> QED BY <1>5, <1>6


LEMMA PrefixIs ==
    ASSUME NEW s \in Line, NEW t \in Line
    PROVE  Len(s) <= Len(s \o t) /\ s = SubSeq(s \o t, 1, Len(s))
<1> DEFINE all == s \o t
           m == Len(s)
           k == Len(t)
           cut == SubSeq(all, 1, m)
<1>1. /\ all \in Line /\ Len(all) = m + k /\ m \in Nat /\ k \in Nat
      /\ \A i \in 1..m : all[i] = s[i]
  BY Joined DEF Line
<1> HIDE DEF all
<1>2. m <= Len(all)
  BY <1>1
<1>3. cut \in Line /\ Len(cut) = m /\ \A i \in 1..m : cut[i] = all[i]
  BY <1>1, <1>2 DEF Line
<1> HIDE DEF cut, m, k
<1>4. \A i \in 1..m : cut[i] = s[i]
  BY <1>1, <1>3
<1>5. cut = s
  BY <1>3, <1>4, SeqEqual DEF Line, m
<1> QED BY <1>2, <1>5 DEF cut, all, m

LEMMA PrefixStays ==
    ASSUME NEW s \in Line, NEW t \in Line, NEW u \in Line
    PROVE  Len(s) <= Len((s \o t) \o u) /\ s = SubSeq((s \o t) \o u, 1, Len(s))
<1>1. t \o u \in Line /\ s \o (t \o u) = (s \o t) \o u
  BY ZenonT(40), Associative
<1>2. Len(s) <= Len(s \o (t \o u)) /\ s = SubSeq(s \o (t \o u), 1, Len(s))
  BY <1>1, PrefixIs
<1> QED BY <1>1, <1>2

LEMMA PrefixGrows ==
    ASSUME NEW s \in Line, NEW t \in Line, NEW u \in Line,
           Len(s) <= Len(t), s = SubSeq(t, 1, Len(s))
    PROVE  Len(s) <= Len(t \o u) /\ s = SubSeq(t \o u, 1, Len(s))
<1> DEFINE m == Len(s)
           end == SubSeq(t, m + 1, Len(t))
<1>1. m \in 0..Len(t)
  BY DEF Line
<1>2. s \o end = t /\ end \in Line
  BY <1>1, Halves, CutAfter DEF Line
<1> HIDE DEF end, m
<1>3. Len(s) <= Len((s \o end) \o u) /\ s = SubSeq((s \o end) \o u, 1, Len(s))
  BY <1>2, PrefixStays
<1> QED BY <1>2, <1>3

LEMMA NoneJoined ==
    ASSUME NEW s \in Line, NEW t \in Line, s \o t = <<>>
    PROVE  s = <<>>
<1>1. Len(s \o t) = Len(s) + Len(t) /\ Len(s) \in Nat /\ Len(t) \in Nat
  BY Joined DEF Line
<1>2. Len(s) = 0
  BY <1>1
<1> QED BY <1>2 DEF Line

LEMMA HeadMoves ==
    ASSUME NEW s \in Line, NEW t \in Line, t # <<>>
    PROVE  /\ Append(s, Head(t)) \in Line /\ Tail(t) \in Line
           /\ Append(s, Head(t)) \o Tail(t) = s \o t
<1>1. /\ Head(t) \in Char /\ Tail(t) \in Line /\ <<Head(t)>> \in Line
      /\ <<Head(t)>> \o Tail(t) = t /\ Append(s, Head(t)) = s \o <<Head(t)>>
      /\ Append(s, Head(t)) \in Line
  BY DEF Line
<1> DEFINE h == <<Head(t)>>  u == Tail(t)
<1>2. h \in Line /\ u \in Line /\ h \o u = t
  BY <1>1
<1> HIDE DEF h, u
<1>3. s \o (h \o u) = (s \o h) \o u
  <2>1. h \in Line /\ u \in Line
    BY <1>2
  <2> QED BY ZenonT(40), <2>1, Associative
<1> QED BY <1>1, <1>2, <1>3 DEF h, u


\* The writer's whole event becomes one message, in the order of `logged`.
LEMMA DropEvent ==
    ASSUME PanelInv, NEW t \in Thread, Drop(t)
    PROVE  PanelInv'
<1> DEFINE e == event[t]
<1>1. PanelTyped /\ Writers /\ PanelIsTail /\ EventsInOrder
  BY DEF PanelInv
<1>2. /\ e # <<>> /\ rest[t] = <<>>
      /\ channel' = IF buffer[t] = <<>> THEN channel ELSE Append(channel, buffer[t])
      /\ logged' = Append(logged, e)
      /\ event' = [event EXCEPT ![t] = <<>>]
      /\ buffer' = [buffer EXCEPT ![t] = <<>>]
      /\ UNCHANGED <<rest, relayed, posted, panel, over, appended>>
  BY DEF Drop
<1>3. /\ event \in [Thread -> Line] /\ rest \in [Thread -> Line] /\ buffer \in [Thread -> Line]
      /\ channel \in Lines /\ relayed \in Line /\ posted \in Lines
      /\ appended \in Line /\ logged \in Lines
  BY <1>1 DEF PanelTyped
<1>4. e \in Line /\ buffer[t] = e
  <2>1. e \in Line /\ buffer[t] \in Line /\ rest[t] = <<>> /\ buffer[t] \o rest[t] = e
    BY <1>1, <1>2, <1>3 DEF Writers
  <2> QED BY <2>1, WithNone
<1> HIDE DEF e
<1>5. /\ channel' = Append(channel, e) /\ channel' \in Lines /\ logged' \in Lines
  BY <1>2, <1>3, <1>4 DEF Lines, e
<1>6. PanelTyped'
  <2>1. event' \in [Thread -> Line] /\ buffer' \in [Thread -> Line]
    BY <1>2, <1>3, BytesNone
  <2> QED BY <1>1, <1>2, <1>5, <2>1 DEF PanelTyped
<1>7. Writers'
  <2>1. ASSUME NEW u \in Thread PROVE buffer'[u] \o rest'[u] = event'[u]
    <3>1. CASE u = t
      <4>1. buffer'[u] = <<>> /\ rest'[u] = <<>> /\ event'[u] = <<>>
        BY <1>2, <1>3, <3>1
      <4> QED BY <4>1, BytesNone, WithNone
    <3>2. CASE u # t
      BY <1>1, <1>2, <1>3, <3>2 DEF Writers
    <3> QED BY <3>1, <3>2
  <2> QED BY <2>1 DEF Writers
<1>8. PanelIsTail'
  BY <1>1, <1>2 DEF PanelIsTail
<1>9. EventsInOrder'
  <2> DEFINE all == Flat(logged)
             queue == Flat(channel)
             front == appended \o Flat(posted) \o relayed
  <2>1. Flat(logged') = all \o e /\ all \in Line
    BY <1>2, <1>3, <1>4, FlatAppend DEF e
  <2>2. Flat(channel') = queue \o e /\ queue \in Line
    BY <1>3, <1>4, <1>5, FlatAppend
  <2>3. Flat(posted) \in Line
    BY <1>3, <1>4, FlatAppend
  <2>4. front \in Line
    BY <1>3, <2>3, Associative
  <2>5. ~ over => front \o queue = all
    BY <1>1 DEF EventsInOrder
  <2>6. Len(appended) <= Len(all) /\ appended = SubSeq(all, 1, Len(appended))
    BY <1>1 DEF EventsInOrder
  <2> HIDE DEF all, queue, front
  <2>7. ~ over => front \o (queue \o e) = all \o e
    <3>1. front \in Line /\ queue \in Line /\ e \in Line
      BY <1>4, <2>2, <2>4
    <3>2. front \o (queue \o e) = (front \o queue) \o e
      BY ZenonT(40), <3>1, Associative
    <3> QED BY <2>5, <3>2
  <2>8. Len(appended) <= Len(all \o e) /\ appended = SubSeq(all \o e, 1, Len(appended))
    BY <1>3, <1>4, <2>1, <2>6, PrefixGrows
  <2> QED BY <1>2, <2>1, <2>2, <2>7, <2>8 DEF EventsInOrder, front
<1> QED BY <1>6, <1>7, <1>8, <1>9 DEF PanelInv

\* The writers do not touch the way from the channel to the panel.
LEMMA WriterStep ==
    ASSUME PanelInv, NEW t \in Thread, MakeWriter(t) \/ Write(t)
    PROVE  PanelInv'
<1>1. /\ event \in [Thread -> Line] /\ rest \in [Thread -> Line] /\ buffer \in [Thread -> Line]
  BY DEF PanelInv, PanelTyped
<1>2. UNCHANGED <<channel, relayed, posted, panel, over, logged, appended>>
  BY DEF MakeWriter, Write
<1>3. /\ event' \in [Thread -> Line] /\ rest' \in [Thread -> Line] /\ buffer' \in [Thread -> Line]
      /\ Writers'
  <2>1. CASE MakeWriter(t)
    <3>1. PICK e \in Events :
             LET text == [i \in DOMAIN e |-> [by |-> t, width |-> e[i]]]
             IN  event' = [event EXCEPT ![t] = text] /\ rest' = [rest EXCEPT ![t] = text]
      BY <2>1 DEF MakeWriter
    <3> DEFINE text == [i \in DOMAIN e |-> [by |-> t, width |-> e[i]]]
    <3>2. text \in Line
      <4>1. e \in Seq(1..4)
        BY EventAssumption
      <4>2. Len(e) \in Nat /\ DOMAIN e = 1..Len(e) /\ \A i \in 1..Len(e) : e[i] \in 1..4
        BY <4>1
      <4>3. text \in [1..Len(e) -> Char]
        BY <4>2 DEF Char
      <4> HIDE DEF text
      <4> QED BY <4>2, <4>3 DEF Line
    <3> HIDE DEF text
    <3>3. /\ event' = [event EXCEPT ![t] = text] /\ rest' = [rest EXCEPT ![t] = text]
          /\ UNCHANGED buffer /\ event[t] = <<>>
      BY <2>1, <3>1 DEF MakeWriter, text
    <3>4. buffer[t] = <<>>
      <4>1. buffer[t] \o rest[t] = <<>> /\ buffer[t] \in Line /\ rest[t] \in Line
        BY <1>1, <3>3 DEF PanelInv, Writers
      <4> QED BY <4>1, NoneJoined
    <3>5. ASSUME NEW u \in Thread PROVE buffer'[u] \o rest'[u] = event'[u]
      <4>1. CASE u = t
        <5>1. buffer'[u] = <<>> /\ rest'[u] = text /\ event'[u] = text
          BY <1>1, <3>3, <3>4, <4>1
        <5> QED BY <3>2, <5>1, WithNone
      <4>2. CASE u # t
        BY <1>1, <3>3, <4>2 DEF PanelInv, Writers
      <4> QED BY <4>1, <4>2
    <3> QED BY <1>1, <3>2, <3>3, <3>5 DEF Writers
  <2>2. CASE Write(t)
    <3> DEFINE b == buffer[t]  r == rest[t]
    <3>1. /\ r # <<>> /\ buffer' = [buffer EXCEPT ![t] = Append(b, Head(r))]
          /\ rest' = [rest EXCEPT ![t] = Tail(r)] /\ UNCHANGED event
      BY <2>2 DEF Write
    <3>2. b \in Line /\ r \in Line /\ b \o r = event[t]
      BY <1>1 DEF PanelInv, Writers
    <3> HIDE DEF b, r
    <3>3. /\ Append(b, Head(r)) \in Line /\ Tail(r) \in Line
          /\ Append(b, Head(r)) \o Tail(r) = b \o r
      BY <3>1, <3>2, HeadMoves
    <3>4. ASSUME NEW u \in Thread PROVE buffer'[u] \o rest'[u] = event'[u]
      <4>1. CASE u = t
        <5>1. buffer'[u] = Append(b, Head(r)) /\ rest'[u] = Tail(r) /\ event'[u] = event[t]
          BY <1>1, <3>1, <4>1
        <5> QED BY <3>2, <3>3, <5>1
      <4>2. CASE u # t
        BY <1>1, <3>1, <4>2 DEF PanelInv, Writers
      <4> QED BY <4>1, <4>2
    <3> QED BY <1>1, <3>1, <3>3, <3>4 DEF Writers
  <2> QED BY <2>1, <2>2
<1>4. PanelTyped'
  BY <1>2, <1>3 DEF PanelInv, PanelTyped
<1>5. PanelIsTail' /\ EventsInOrder'
  BY <1>2 DEF PanelInv, PanelIsTail, EventsInOrder
<1> QED BY <1>3, <1>4, <1>5 DEF PanelInv

\* The relay thread and the event loop move the front of one queue to the end
\* of the next.
LEMMA RelayStep ==
    ASSUME PanelInv,
           Receive \/ Post \/ RunAppend \/ LoopEnds
    PROVE  PanelInv'
<1> DEFINE sent == Flat(channel)
           waiting == Flat(posted)
           all == Flat(logged)
<1>1. /\ event \in [Thread -> Line] /\ rest \in [Thread -> Line] /\ buffer \in [Thread -> Line]
      /\ channel \in Lines /\ relayed \in Line /\ posted \in Lines
      /\ panel \in Line /\ appended \in Line /\ logged \in Lines /\ over \in BOOLEAN
  BY DEF PanelInv, PanelTyped
<1>2. sent \in Line /\ waiting \in Line /\ all \in Line
  BY <1>1, BytesNone, FlatAppend
<1>3. /\ Len(appended) <= Len(all) /\ appended = SubSeq(all, 1, Len(appended))
      /\ ~ over => appended \o waiting \o relayed \o sent = all
  BY DEF PanelInv, EventsInOrder
<1>4. UNCHANGED <<event, rest, buffer, logged>> /\ Writers'
  BY DEF Receive, Post, RunAppend, LoopEnds, PanelInv, Writers
<1>5. CASE Receive
  <2>1. /\ relayed = <<>> /\ channel # <<>> /\ relayed' = Head(channel)
        /\ channel' = Tail(channel) /\ UNCHANGED <<posted, panel, over, appended>>
    BY <1>5 DEF Receive
  <2>2. /\ sent = relayed' \o Flat(channel') /\ relayed' \in Line
        /\ channel' \in Lines /\ Flat(channel') \in Line
    BY <1>1, <2>1, FlatHead
  <2> DEFINE front == appended \o waiting  next == relayed'  later == Flat(channel')
  <2>3. front \in Line
    BY <1>1, <1>2, Associative
  <2>4. ~ over => front \o next \o later = all
    <3>1. front \o relayed = front
      BY <2>1, <2>3, WithNone
    <3>2. ~ over => front \o sent = all
      BY <1>3, <3>1
    <3> HIDE DEF front, sent, next, later
    <3>3. front \o (next \o later) = (front \o next) \o later
      BY <2>2, <2>3, Associative DEF next, later
    <3> QED BY <2>2, <3>2, <3>3 DEF next, later
  <2>5. EventsInOrder'
    BY <1>3, <1>4, <2>1, <2>4 DEF EventsInOrder
  <2>6. PanelTyped' /\ PanelIsTail'
    BY <1>1, <1>4, <2>1, <2>2 DEF PanelTyped, PanelInv, PanelIsTail
  <2> QED BY <1>4, <2>5, <2>6 DEF PanelInv
<1>6. CASE Post
  <2>1. /\ relayed # <<>> /\ relayed' = <<>>
        /\ posted' = IF over THEN posted ELSE Append(posted, relayed)
        /\ UNCHANGED <<channel, panel, over, appended>>
    BY <1>6 DEF Post
  <2>2. posted' \in Lines /\ relayed' \in Line
    BY <1>1, <2>1, BytesNone DEF Lines
  <2>3. ~ over => appended \o Flat(posted') \o relayed' \o sent = all
    <3> SUFFICES ASSUME ~ over PROVE appended \o Flat(posted') \o relayed' \o sent = all
      OBVIOUS
    <3>1. Flat(posted') = waiting \o relayed
      BY <1>1, <2>1, FlatAppend
    <3> HIDE DEF waiting
    <3>2. appended \o (waiting \o relayed) = (appended \o waiting) \o relayed
          /\ appended \o waiting \in Line
      BY ZenonT(40), <1>1, <1>2, Associative
    <3>3. (appended \o waiting) \o relayed \in Line
      BY <1>1, <3>2, Associative
    <3>4. appended \o Flat(posted') = (appended \o waiting) \o relayed
      BY <3>1, <3>2
    <3>5. (appended \o Flat(posted')) \o relayed' = (appended \o waiting) \o relayed
      BY <2>1, <3>3, <3>4, WithNone
    <3> QED BY <1>3, <3>5
  <2>4. EventsInOrder'
    BY <1>3, <1>4, <2>1, <2>3 DEF EventsInOrder
  <2>5. PanelTyped' /\ PanelIsTail'
    BY <1>1, <1>4, <2>1, <2>2 DEF PanelTyped, PanelInv, PanelIsTail
  <2> QED BY <1>4, <2>4, <2>5 DEF PanelInv
<1>7. CASE RunAppend
  <2> DEFINE text == Head(posted)  later == Flat(Tail(posted))
  <2>1. /\ posted # <<>> /\ ~ over /\ posted' = Tail(posted)
        /\ panel' = Cut(panel \o text) /\ appended' = appended \o text
        /\ UNCHANGED <<channel, relayed, over>>
    BY <1>7 DEF RunAppend
  <2>2. waiting = text \o later /\ text \in Line /\ Tail(posted) \in Lines /\ later \in Line
    BY <1>1, <2>1, FlatHead
  <2>3. Flat(posted') = later
    BY <2>1
  <2> HIDE DEF text, later
  <2>4. appended' \o later = appended \o waiting /\ appended' \in Line
    <3>1. appended \in Line /\ text \in Line /\ later \in Line
      BY <1>1, <2>2
    <3>2. appended \o (text \o later) = (appended \o text) \o later /\ appended \o text \in Line
      BY <3>1, Associative
    <3> QED BY <2>1, <2>2, <3>2
  <2>5. appended' \o later \o relayed \o sent = all
    BY <1>3, <2>1, <2>4
  <2>6. Len(appended') <= Len(all) /\ appended' = SubSeq(all, 1, Len(appended'))
    <3> HIDE DEF all, sent
    <3>1. later \o relayed \in Line /\ (later \o relayed) \o sent \in Line
      BY <1>1, <1>2, <2>2, Associative
    <3>2. appended' \o ((later \o relayed) \o sent) = all
      <4>1. appended' \o ((later \o relayed) \o sent) = (appended' \o (later \o relayed)) \o sent
        BY ZenonT(40), <1>2, <2>4, <3>1, Associative
      <4>2. appended' \o (later \o relayed) = (appended' \o later) \o relayed
        BY <1>1, <2>2, <2>4, Associative
      <4> QED BY <2>5, <4>1, <4>2
    <3> QED BY <2>4, <3>1, <3>2, PrefixIs
  <2>7. EventsInOrder'
    BY <1>4, <2>1, <2>3, <2>5, <2>6 DEF EventsInOrder
  <2>8. PICK first \in 1..Len(appended) + 1 : PanelFrom(first)
    BY DEF PanelInv, PanelIsTail, PanelFrom
  <2>9. PICK to \in 1..Len(appended') + 1 :
              /\ panel' = SubSeq(appended', to, Len(appended'))
              /\ Bytes(panel') <= MAX_LOG_BYTES
              /\ to > 1 =>
                    Bytes(SubSeq(appended', to - 1, Len(appended'))) > MAX_LOG_BYTES
    BY <1>1, <2>1, <2>2, <2>8, TailMoves, BoundAssumption DEF PanelFrom
  <2>10. PanelIsTail'
    BY <2>9 DEF PanelIsTail
  <2>11. panel' \in Line
    <3>1. PICK d \in 0..Len(appended') : to = d + 1
      <4>1. to - 1 \in 0..Len(appended') /\ to = (to - 1) + 1
        BY <2>4 DEF Line
      <4> QED BY <4>1
    <3> QED BY <2>4, <2>9, <3>1, CutAfter
  <2>12. PanelTyped'
    BY <1>1, <1>4, <2>1, <2>2, <2>4, <2>11 DEF PanelTyped
  <2> QED BY <1>4, <2>7, <2>10, <2>12 DEF PanelInv
<1>8. CASE LoopEnds
  <2>1. over' = TRUE /\ UNCHANGED <<channel, relayed, posted, panel, appended>>
    BY <1>8 DEF LoopEnds
  <2>2. PanelTyped' /\ PanelIsTail'
    BY <1>1, <1>4, <2>1 DEF PanelTyped, PanelInv, PanelIsTail
  <2>3. EventsInOrder'
    BY <1>3, <1>4, <2>1 DEF EventsInOrder
  <2> QED BY <1>4, <2>2, <2>3 DEF PanelInv
<1> QED BY <1>5, <1>6, <1>7, <1>8

LEMMA PanelStep == PanelInv /\ [LogNext]_logVars => PanelInv'
<1> SUFFICES ASSUME PanelInv, [LogNext]_logVars PROVE PanelInv'
  OBVIOUS
<1>1. CASE UNCHANGED logVars
  BY <1>1 DEF logVars, PanelInv, PanelTyped, Writers, PanelIsTail, EventsInOrder
<1>2. CASE LogNext
  BY <1>2, DropEvent, WriterStep, RelayStep DEF LogNext
<1> QED BY <1>1, <1>2

\* The log panel shows as much of the end of the log as fits, whole characters
\* only, for any number of threads and events and any size of the log:
\* log_sink.rs cuts the text at every append, and the cuts never add up.
THEOREM PanelTail == LogSpec => []PanelIsTail
<1>1. LogInit => PanelInv
  BY PanelInit
<1>2. PanelInv /\ [LogNext]_logVars => PanelInv'
  BY PanelStep
<1>3. PanelInv => PanelIsTail
  BY DEF PanelInv
<1> QED BY <1>1, <1>2, <1>3, PTL DEF LogSpec

\* Between the writers of log_sink.rs and the panel no event is split, mixed
\* with another, lost or overtaken, and only the end of the event loop may keep
\* the last ones from it.
THEOREM EventsArrive == LogSpec => []EventsInOrder
<1>1. LogInit => PanelInv
  BY PanelInit
<1>2. PanelInv /\ [LogNext]_logVars => PanelInv'
  BY PanelStep
<1>3. PanelInv => EventsInOrder
  BY DEF PanelInv
<1> QED BY <1>1, <1>2, <1>3, PTL DEF LogSpec

=============================================================================
