SPECIFICATION Spec
CONSTANTS
    Template <- Templates
    Complete = {11, 15, 25}
    Maxed = {15, 25, 35}
    Starter = {25, 41}
    Second = 11
    Skin <- Skins
    Group <- Groups
    Room = {0, 2}
    Chunk = 2
    MaxStories = 1
    MaxCharacter = 1
INVARIANTS
    TypeOK
    ViewIsAccount
    RowIsAccount
    CreatedOnce
    SecretaryOwned
    SkinsUnlocked
PROPERTIES
    ShipsGrantedOnce
