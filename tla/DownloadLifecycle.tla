-------------------------- MODULE DownloadLifecycle --------------------------
(***************************************************************************)
(* What the agent promises of one download, without queue, threads or      *)
(* requests: the states of download_status.h and the transitions that      *)
(* Download::_PerformStateChange and the completion of a request allow,    *)
(* over the number of pieces received.                                     *)
(***************************************************************************)
EXTENDS Naturals

CONSTANT Chunks

VARIABLES state, received

Init == state = "Created" /\ received = 0

\* Start and Resume
Transfer ==
    /\ state \in {"Created", "Paused"}
    /\ state' = "Transferring"
    /\ UNCHANGED received

\* Pieces arrive one by one, only while transferring
Receive ==
    /\ state = "Transferring"
    /\ received < Chunks
    /\ received' = received + 1
    /\ UNCHANGED state

\* By the caller, by a fatal error or for lack of progress
Pause ==
    /\ state = "Transferring"
    /\ state' = "Paused"
    /\ UNCHANGED received

\* The end of the transfer may be noticed after a pause
Finish ==
    /\ state \in {"Transferring", "Paused"}
    /\ received = Chunks
    /\ state' = "Transferred"
    /\ UNCHANGED received

Finalize ==
    /\ state = "Transferred"
    /\ state' = "Finalized"
    /\ UNCHANGED received

Abort ==
    /\ state \notin {"Finalized", "Aborted"}
    /\ state' = "Aborted"
    /\ UNCHANGED received

Next == Transfer \/ Receive \/ Pause \/ Finish \/ Finalize \/ Abort

Spec == Init /\ [][Next]_<<state, received>>
=============================================================================
