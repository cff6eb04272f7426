------------------------------ MODULE Showcase ------------------------------
(***************************************************************************)
(* When the incident store is written: publishing a run shows it first and *)
(* syncs the store then, opening a saved one syncs nothing; the pages that *)
(* list incidents sync the store first, and so does the copilot's showcase *)
(* when it is asked for incidents.                                         *)
(***************************************************************************)
EXTENDS Views

CONSTANT Questions

VARIABLES publishing,  \* the run that is shown is still to be synced
          reply        \* what was answered last, and to whom

showcaseVars == <<adviceVars, publishing, reply>>

Reply(to, view) == [to |-> to, view |-> view]

ShowcaseInit == AdviceInit /\ publishing = FALSE /\ reply = Reply("nobody", NoView)

\* publish: STATE is the new run from here on.
ShowRun(c) ==
    /\ ~publishing /\ log # <<>> /\ Len(log) <= MaxRead
    /\ run' = RunOf(c) /\ before' = run
    /\ log' = <<>> /\ publishing' = TRUE
    /\ UNCHANGED <<store, reply>>

\* The run shown by now is synced; what that raises is swallowed, and the
\* store left as it was.
SyncRun ==
    /\ publishing /\ publishing' = FALSE
    /\ store' \in {store, Merged(run.incidents)}
    /\ UNCHANGED <<log, run, before, reply>>

\* GET /api/incidents
ListIncidents ==
    /\ store' = IF run = NoRun THEN store ELSE Merged(run.incidents)
    /\ reply' = Reply("page", IncidentsView(Severities))
    /\ UNCHANGED <<log, run, before, publishing>>

\* POST /api/ask: the view is built with list_incidents, not with its
\* read-only twin, which the rest of the answer uses.
Ask(question) ==
    /\ reply' = Reply("question", BuildView(question))
    /\ store' = IF BuildView(question).type = "incidents" THEN Merged(run.incidents) ELSE store
    /\ UNCHANGED <<log, run, before, publishing>>

ShowcaseNext ==
    \/ ReadLine /\ UNCHANGED <<before, publishing, reply>>
    \/ Reopen /\ UNCHANGED <<publishing, reply>>
    \/ \E c \in Circumstances : ShowRun(c)
    \/ SyncRun
    \/ ListIncidents
    \/ \E question \in Questions : Ask(question)

ShowcaseSpec == ShowcaseInit /\ [][ShowcaseNext]_showcaseVars

-----------------------------------------------------------------------------
\* "Asking the copilot a question is a READ": no answer to a question changes
\* the incident store, as the test of the copilot request path has it.
AskingIsReading == [][reply'.to = "question" => store' = store]_showcaseVars
=============================================================================
