-------------------------- MODULE SummaryRegister --------------------------
(***************************************************************************)
(* What callers of get_wallet_summary_cached may rely on, with no cache in *)
(* sight: a call answers with the state of the database at one instant     *)
(* between its start and its return, or fails.                             *)
(***************************************************************************)
EXTENDS Naturals

CONSTANTS Readers, Dbs, NoValue

VARIABLES
    version,  \* committed state of a database, counted in commits
    call,     \* stage of the call of a reader
    db,       \* database that call is about
    answer    \* what it has read, NoValue if nothing

vars == <<version, call, db, answer>>

Init ==
    /\ version = [d \in Dbs |-> 0]
    /\ call = [r \in Readers |-> "idle"]
    /\ db \in [Readers -> Dbs]
    /\ answer = [r \in Readers |-> NoValue]

Commit(d) ==
    /\ version' = [version EXCEPT ![d] = @ + 1]
    /\ UNCHANGED <<call, db, answer>>

Call(r, d) ==
    /\ call[r] = "idle"
    /\ call' = [call EXCEPT ![r] = "called"]
    /\ db' = [db EXCEPT ![r] = d]
    /\ UNCHANGED <<version, answer>>

\* The instant the answer stands for.
Read(r) ==
    /\ call[r] = "called"
    /\ call' = [call EXCEPT ![r] = "read"]
    /\ answer' = [answer EXCEPT ![r] = version[db[r]]]
    /\ UNCHANGED <<version, db>>

\* A call may drop what it has read and read again.
Retry(r) ==
    /\ call[r] = "read"
    /\ call' = [call EXCEPT ![r] = "called"]
    /\ answer' = [answer EXCEPT ![r] = NoValue]
    /\ UNCHANGED <<version, db>>

\* The call returns its answer, or an error when it has none.
Return(r) ==
    /\ call[r] # "idle"
    /\ call' = [call EXCEPT ![r] = "idle"]
    /\ answer' = [answer EXCEPT ![r] = NoValue]
    /\ UNCHANGED <<version, db>>

Next ==
    \/ \E d \in Dbs : Commit(d)
    \/ \E r \in Readers : \/ \E d \in Dbs : Call(r, d)
                          \/ Read(r) \/ Retry(r) \/ Return(r)

Spec == Init /\ [][Next]_vars
=============================================================================
