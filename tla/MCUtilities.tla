---------------------------- MODULE MCUtilities ----------------------------
(* To the parts of Utilities come those whose modules compute by recursion,  *)
(* each again on its own.                                                    *)
EXTENDS Utilities, DataTypes, SequencesExt

VARIABLES num_of_bits, u, v
uintVars == <<num_of_bits, u, v>>
VARIABLES x, y
uint128Vars == <<x, y>>

\* Keys 10 and 11 are equal, and 20 is not but has the same hash.
MCHasher(k) == (k + 10) \div 20
MCPred(k, l) == k \div 10 = l \div 10

\* All pairs of numbers of one to three blocks of two bits
Big == INSTANCE Uint WITH bits_in_block <- 2, a <- u, b <- v

\* The halves about which carries and signs turn, of 4 bits
Wide == INSTANCE Uint128 WITH HalfBits <- 4, Halves <- {0, 1, 7, 8, 13, 15}, a <- x, b <- y

\* Texts with repeated and overlapping needles, NULs in the middle, and none
MCTexts == {<<1, 2, 1, 2, 2>>, <<1, 1, 2, 1>>, <<0, 1, 0, 1>>, <<2, 0, 2>>, <<>>}
MCNeedles == BoundedSeq(Chars, 2) \cup {<<1, 2, 1>>, <<2, 1, 2>>}

MCWords == {<<0, 1>>, <<2, 0>>}
MCStrings == {<<>>, <<1>>, <<0, 2, 1>>}

\* Fields of a fixed size, between two bounds, and of any size, and a PackedStruct
Static(n) == [isStatic |-> TRUE, size |-> n, min |-> 1, max |-> 1]
Bytes(least, most) == [isStatic |-> FALSE, size |-> 1, min |-> least, max |-> most]
Vector(n) == [isStatic |-> FALSE, size |-> n, min |-> 0, max |-> 3]
MCFieldLists == {<<Static(1), Bytes(1, 2), Static(2)>>, <<Vector(2), Bytes(0, 1), Static(1)>>,
                 <<Bytes(0, 2), Static(2), Vector(2)>>, <<Static(2), Vector(2)>>, <<Static(2), Static(1)>>}

PartsInit ==
    /\ part \in {"ids", "lru", "map", "bits", "uint", "uint128", "optional", "string", "message", "packed",
                 "latch", "thread", "tree", "set"}
    /\ datatype = part
    /\ UtilitiesInit /\ DataInit
    /\ IF part = "uint" THEN Big!Init ELSE num_of_bits = 2 /\ u = 0 /\ v = 0
    /\ IF part = "uint128" THEN Wide!Init ELSE x = 0 /\ y = 0

PartsNext ==
    /\ UtilitiesNext /\ DataNext
    /\ IF part = "uint" THEN Big!Next ELSE UNCHANGED uintVars
    /\ IF part = "uint128" THEN Wide!Next ELSE UNCHANGED uint128Vars

PartsSpec == PartsInit /\ [][PartsNext]_<<utilitiesVars, dataVars, uintVars, uint128Vars>>

-----------------------------------------------------------------------------
(* Properties: those of the modules, each about its part *)

\* The integers of uint_t.h and uint128_t.h compute modulo 2^w as numbers do.
NumbersAgree == /\ part = "uint" => Big!ArithmeticAgrees
                /\ part = "uint128" => Wide!Uint128Agrees
=============================================================================
