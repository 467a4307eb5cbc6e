-------------------------------- MODULE Accounts --------------------------------
(***************************************************************************)
(* One sender's account: the KYC of KycReview composed with the two things *)
(* it gates, the name on the account, which is fixed once a submission     *)
(* exists, and sending money, which needs an approved status.              *)
(*                                                                         *)
(* Both gates are read before the row is written: the profile edit looks   *)
(* for a submission and commits later, and a remittance is admitted on the *)
(* user as get_current_user loaded it, before the sender's row is locked.  *)
(***************************************************************************)
EXTENDS KycReview

CONSTANTS
    Names,   \* values of users.full_name
    Edits,   \* the sender's concurrent POST /profile requests that change the name
    Sends,   \* the sender's POST /send/confirm requests
    NoName

ASSUME NoNameAssumption == NoName \notin Names

VARIABLES
    name,       \* users.full_name
    edit,       \* edit |-> the name its request read, the name it was allowed to save
    send,       \* remittance request |-> how far it got
    verified,   \* history: the name when the first submission was committed
    overtaken   \* history: an edit was past its check at that commit

accountVars == <<name, edit, send, verified, overtaken>>
allVars == <<vars, accountVars>>

NoEdit == [copy |-> NoName, new |-> NoName]
Untouched == With("absent") = Submissions

AccountsTypeOK ==
    /\ TypeOK
    /\ name \in Names
    /\ edit \in [Edits -> [copy : Names \cup {NoName}, new : Names \cup {NoName}]]
    /\ send \in [Sends -> {"idle", "admitted", "booked"}]
    /\ verified \in Names \cup {NoName}
    /\ overtaken \in BOOLEAN

AccountsInit ==
    /\ Init
    /\ name \in Names
    /\ edit = [e \in Edits |-> NoEdit]
    /\ send = [p \in Sends |-> "idle"]
    /\ verified = NoName
    /\ overtaken = FALSE

-----------------------------------------------------------------------------
(* The profile.                                                            *)

\* get_current_user loads the user for POST /profile.
OpenEdit(e) ==
    /\ edit[e] = NoEdit
    /\ edit' = [edit EXCEPT ![e].copy = name]
    /\ UNCHANGED <<vars, name, send, verified, overtaken>>

\* Mutant of AdmitEdit: only a submission still under review locks the name.
AdmitEditUnlessPending(e, n) ==
    /\ edit[e].copy # NoName
    /\ edit[e].new = NoName
    /\ n # edit[e].copy
    /\ With("pending") = {}
    /\ edit' = [edit EXCEPT ![e].new = n]
    /\ UNCHANGED <<vars, name, send, verified, overtaken>>

\* update_profile finds the name changed and name_is_editable no submission.
AdmitEdit(e, n) ==
    /\ edit[e].copy # NoName
    /\ edit[e].new = NoName
    /\ n # edit[e].copy
    /\ Untouched
    /\ edit' = [edit EXCEPT ![e].new = n]
    /\ UNCHANGED <<vars, name, send, verified, overtaken>>

\* update_profile commits; nothing re-reads the submissions.
SaveEdit(e) ==
    /\ edit[e].new # NoName
    /\ name' = edit[e].new
    /\ edit' = [edit EXCEPT ![e] = NoEdit]
    /\ UNCHANGED <<vars, send, verified, overtaken>>

\* The edit ends without saving: a field is invalid, the name is locked or the
\* same, or the email or mobile is another account's (seen by _taken, or by the
\* unique key at the commit, which is rolled back).
DropEdit(e) ==
    /\ edit[e] # NoEdit
    /\ edit' = [edit EXCEPT ![e] = NoEdit]
    /\ UNCHANGED <<vars, name, send, verified, overtaken>>

-----------------------------------------------------------------------------
(* Sending.                                                                *)

\* Mutant of AdmitSend: a sender is stopped only by a refusal.
AdmitSendUnlessRejected(p) ==
    /\ send[p] = "idle"
    /\ kyc # "rejected"
    /\ send' = [send EXCEPT ![p] = "admitted"]
    /\ UNCHANGED <<vars, name, edit, verified, overtaken>>

\* create_remittance passes its check on the user that the request loaded.
AdmitSend(p) ==
    /\ send[p] = "idle"
    /\ kyc = "approved"
    /\ send' = [send EXCEPT ![p] = "admitted"]
    /\ UNCHANGED <<vars, name, edit, verified, overtaken>>

\* The row is inserted after the lock, the re-pricing and the limit: the status
\* is not read again.
BookSend(p) ==
    /\ send[p] = "admitted"
    /\ send' = [send EXCEPT ![p] = "booked"]
    /\ UNCHANGED <<vars, name, edit, verified, overtaken>>

\* A later check of create_remittance refuses.
RefuseSend(p) ==
    /\ send[p] = "admitted"
    /\ send' = [send EXCEPT ![p] = "idle"]
    /\ UNCHANGED <<vars, name, edit, verified, overtaken>>

-----------------------------------------------------------------------------
(* The submission fixes the name: the history records which one, and       *)
(* whether an edit admitted earlier may still change it.                   *)

RecordName ==
    /\ verified' = IF Untouched THEN name ELSE verified
    /\ overtaken' = (overtaken \/ \E e \in Edits : edit[e].new # NoName)
    /\ UNCHANGED <<name, edit, send>>

AccountsNext ==
    \/ \E r \in Posts, s \in Submissions : Submit(r, s) /\ RecordName
    \/ /\ \/ \E r \in Posts : Admit(r) \/ RefuseForm(r)
          \/ \E a \in Admins, s \in Submissions : Open(a, s)
          \/ \E a \in Admins, d \in Decisions : Decide(a, d)
          \/ \E a \in Admins : RefuseReview(a)
       /\ UNCHANGED accountVars
    \/ \E e \in Edits : OpenEdit(e) \/ SaveEdit(e) \/ DropEdit(e)
    \/ \E e \in Edits, n \in Names : AdmitEdit(e, n)
    \/ \E p \in Sends : AdmitSend(p) \/ BookSend(p) \/ RefuseSend(p)

AccountsSpec == AccountsInit /\ [][AccountsNext]_allVars

-----------------------------------------------------------------------------
(* Properties.                                                             *)

\* Money moves only for a sender some reviewer approved: a remittance admitted
\* on a copy of the user is backed by an approved submission, whatever was
\* submitted or decided before its row is inserted.
VerifiedSender ==
    (\E p \in Sends : send[p] # "idle") => With("approved") # {}

\* The name a submission was made under stays on the account ("once submitted,
\* the submission is the audit record of the verified name"), unless an edit had
\* passed its check when the submission was committed.
NameFixed ==
    (~Untouched /\ ~overtaken) => name = verified
=============================================================================
