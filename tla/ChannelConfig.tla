--------------------------- MODULE ChannelConfig ---------------------------
(***************************************************************************)
(* The settings of the mail channel in notify: a row of notify_channel,    *)
(* changed by the administration (putChannelConfig), and the copy the      *)
(* senders use (ConfigProvider), loaded again after 30 seconds or when the *)
(* administration says so.  A setting is its version; 0 is the one of the  *)
(* environment.  The SMS channel has the same code and no part here.       *)
(***************************************************************************)
EXTENDS Integers

CONSTANT MaxPuts        \* bound: changes of the row

ASSUME ConfigAssumption == MaxPuts \in Nat

VARIABLES
    row,            \* notify_channel: [version, enabled]
    writing,        \* putChannelConfig: has it written and not yet reloaded?
    answered,       \* version of the last change that was answered, 0 if it is off
    cached, fresh,  \* ConfigProvider: mail, and is loadedAt younger than the TTL?
    loadFailed,     \* a load failed after the last answer
    faults          \* what is left of the bound of failures

table    == <<row, writing, answered>>
provider == <<cached, fresh, loadFailed>>
settings == <<table, provider>>

ConfigInit ==
    /\ row = [version |-> 0, enabled |-> FALSE] /\ writing = FALSE /\ answered = 0
    /\ cached = 0 /\ fresh = FALSE /\ loadFailed = FALSE

Fault == faults > 0 /\ faults' = faults - 1

\* INSERT or UPDATE; without it nothing changes and 503 is the answer.
PutRow(enabled) ==
    /\ ~writing /\ row.version < MaxPuts
    /\ row' = [version |-> row.version + 1, enabled |-> enabled]
    /\ writing' = TRUE
    /\ UNCHANGED <<answered, cached, fresh, loadFailed, faults>>

NotReloaded == fresh      \* (mutant) the copy stays until its time is over
AfterReload == FALSE

\* Reload, and the answer.
PutReload ==
    /\ writing /\ writing' = FALSE
    /\ answered' = IF row.enabled THEN row.version ELSE 0
    /\ fresh' = AfterReload /\ loadFailed' = FALSE
    /\ UNCHANGED <<row, cached, faults>>

\* 30 seconds pass.
Outdate == fresh /\ fresh' = FALSE /\ UNCHANGED <<table, cached, loadFailed, faults>>

\* ensure, under its mutex: what Mail then returns is cached'.  A row that is
\* not enabled is not loaded, and a failed query counts as loaded.
Ensure ==
    /\ fresh' = TRUE
    /\ \/ /\ fresh \/ row.enabled = FALSE
          /\ UNCHANGED <<cached, loadFailed, faults>>
       \/ /\ ~fresh /\ row.enabled
          /\ cached' = row.version
          /\ UNCHANGED <<loadFailed, faults>>
       \/ /\ ~fresh /\ Fault
          /\ loadFailed' = TRUE /\ UNCHANGED cached
    /\ UNCHANGED table

Administration == PutReload \/ Outdate \/ \E enabled \in BOOLEAN : PutRow(enabled)
=============================================================================
