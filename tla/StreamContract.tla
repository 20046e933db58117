--------------------------- MODULE StreamContract ---------------------------
(***************************************************************************)
(* What a RemoteFileAgent promises of one read_file or write_file call:    *)
(* the destination grows chunk by chunk in the order of the source, and    *)
(* the call succeeds only once all of the file is there.  A call that has  *)
(* failed may still have chunks under way.  Once the agent's disk has      *)
(* failed the destination is still a beginning of the source, but success  *)
(* means nothing any more.                                                 *)
(***************************************************************************)
EXTENDS Naturals, Sequences

CONSTANT Size   \* the number of chunks of the file

VARIABLES delivered, answer, sound

ContractInit == delivered = <<>> /\ answer = "pending" /\ sound = TRUE

Deliver ==
    /\ Len(delivered) < Size
    /\ delivered' = Append(delivered, Len(delivered) + 1)
    /\ UNCHANGED <<answer, sound>>

Succeed ==
    /\ answer = "pending" /\ (sound => Len(delivered) = Size)
    /\ answer' = "ok" /\ UNCHANGED <<delivered, sound>>

Fail == answer = "pending" /\ answer' = "err" /\ UNCHANGED <<delivered, sound>>

\* The disk fails: the chunk it was writing is lost.
Break ==
    /\ sound /\ sound' = FALSE
    /\ \E n \in {Len(delivered) - 1, Len(delivered)} \cap Nat :
          delivered' = SubSeq(delivered, 1, n)
    /\ UNCHANGED answer

ContractNext == Deliver \/ Succeed \/ Fail \/ Break

ContractSpec == ContractInit /\ [][ContractNext]_<<delivered, answer, sound>>
=============================================================================
