\* Every measure over its relations, every spelling of a rule, one writer.
SPECIFICATION Spec
CONSTANTS
    a = a  b = b  nokey = nokey
    create = create  delete = delete
    p1 = p1  p2 = p2
    Null = Null  NaN = NaN  Infinity = Infinity  NullLabel = NullLabel  Nothing = Nothing
    Keys <- ThreeKeys
    NullKeys <- OneNullKey
    Positions <- TwoPositions
    Cases <- AllCases
    Relations <- NewRelations
    ExactUpTo = 8
    MaxChanges = 1
\* An evaluation ends with a report or an exception.
CHECK_DEADLOCK FALSE
INVARIANTS
    TypeOK
    NoSilentPass
    ValidatedRulesExecutable
    KeyRulesMeanEqualKeys
    NoOverlapMeansUnique
PROPERTIES
    VerdictsTrue
    LostRelationCaught
