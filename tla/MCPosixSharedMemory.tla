------------------------ MODULE MCPosixSharedMemory ------------------------
(***************************************************************************)
(* The instance of PosixSharedMemory that is checked.  With several        *)
(* clients and calls that fail in undoing something (munmap, shm_unlink)   *)
(* in one behaviour there are too many states, so that a behaviour has     *)
(* either the one or the other, as undoFails says from its beginning.      *)
(***************************************************************************)
EXTENDS PosixSharedMemory

CONSTANT Bystanders    \* the objects that take no part when undoing may fail

VARIABLE undoFails

mcVars == <<name, segs, obj, at, undoFails>>

UndoFails(p) ==
    \/ PeekUnmapFails(p) \/ CloseUnmapFails(p) \/ CloseUnlinkFails(p)
    \/ \E s \in Segments : segs'[s].unlinkFailed

MCInit == Init /\ undoFails \in BOOLEAN

MCNext ==
    /\ \E p \in IF undoFails THEN Objects \ Bystanders ELSE Objects :
           \/ Begin(p)
           \/ Advance(p)
           \/ Fails(p) /\ (undoFails \/ ~UndoFails(p))
    /\ UNCHANGED undoFails

(* The fairness of FairSpec.                                               *)
MCFairSpec ==
    /\ MCInit /\ [][MCNext]_mcVars
    /\ \A p \in Objects : WF_mcVars(Advance(p) /\ UNCHANGED undoFails)

=============================================================================
