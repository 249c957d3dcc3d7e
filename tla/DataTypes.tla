----------------------------- MODULE DataTypes ------------------------------
(* Components that compute: what one behaviour is about is "datatype", and   *)
(* the variables of the others keep their initial values.                    *)
EXTENDS Integers, Sequences

CONSTANTS Base, SizeBytes, SizeMax, WordSize, Words, Strings, NarrowMax, MaxItems,  \* of NetworkMessage
          Structs, FieldLists, MaxSize                                              \* of DynamicPackedStruct

VARIABLE datatype
VARIABLES data, m_offset, items, incoming, in_offset, matched, call
messageVars == <<data, m_offset, items, incoming, in_offset, matched, call>>
VARIABLES Ts, m_data, m_sizes, sizes, written
packedVars == <<Ts, m_data, m_sizes, sizes, written>>

Msg == INSTANCE NetworkMessage WITH last <- call
Pack == INSTANCE DynamicPackedStruct

\* Sizes of type size_t fit in the bytes that a message has for them.
ASSUME MessageAssumption ==
    /\ Base \in Nat \ {0, 1} /\ SizeBytes \in Nat \ {0} /\ WordSize \in Nat \ {0}
    /\ SizeMax \in Nat /\ SizeMax < Msg!Power[SizeBytes]
    /\ Words \subseteq [1..WordSize -> 0..Base-1] /\ Strings \subseteq Seq(0..Base-1)

\* No type has the size 0 (sizeof).
ASSUME FieldAssumption ==
    FieldLists \subseteq Seq([isStatic : BOOLEAN, size : Nat \ {0}, min : Nat, max : Nat])
ASSUME MaxSizeAssumption == MaxSize \in Nat

DataInit ==
    /\ Msg!Init
    /\ IF datatype = "packed" THEN Pack!Init
       ELSE Ts = <<>> /\ m_data = <<>> /\ m_sizes = <<>> /\ sizes = <<>> /\ written = <<>>

DataNext ==
    /\ UNCHANGED datatype
    /\ IF datatype = "message" THEN Msg!Next ELSE UNCHANGED messageVars
    /\ IF datatype = "packed" THEN Pack!Next ELSE UNCHANGED packedVars

dataVars == <<datatype, messageVars, packedVars>>

DataSpec == DataInit /\ [][DataNext]_dataVars

-----------------------------------------------------------------------------
(* Properties: those of the modules, each about its part *)

\* What is put together is taken apart again: a message gives back its items or says
\* that it cannot, except objects written as they are in memory (NetworkMessage.h), and the fields of a packed structure are where
\* nothing else is (DynamicPackingInfo.h).
PiecesAgree == /\ datatype = "message" => Msg!MessageAgrees
               /\ datatype = "packed" => Pack!LayoutSound
=============================================================================
