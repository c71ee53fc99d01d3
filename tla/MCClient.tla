------------------------------ MODULE MCClient ------------------------------
(* Client for TLC: one operator and one player; every mutation but those whose     *)
(* hook and form are another's in all but name: a game or an announcement created  *)
(* is one edited, an announcement's status is an edit, a withdrawal is reviewed as *)
(* a deposit is and cancelled as it is requested.                                  *)
EXTENDS Client

DistinctTasks ==
    Mutations \ {useCreateGame, useCreateAnnouncement, useSetAnnouncementStatus, useReviewWithdrawal,
                 useCancelWithdrawal}

\* Enough for what a session's end does to the page it ends on.
OneTask == {useSubmitDeposit}
=============================================================================
