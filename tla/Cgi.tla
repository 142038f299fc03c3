-------------------------------- MODULE Cgi --------------------------------
(***************************************************************************)
(* Cgi::exec_Cgi: the server forks, the child feeds the request's body to  *)
(* a pipe of its own and becomes the script, the parent waits for it and   *)
(* then reads what it wrote.  A step of the parent or the child is one     *)
(* system call; what the script does is external.                          *)
(***************************************************************************)
EXTENDS Integers, Sequences

CONSTANTS
    Capacity,   \* pieces a pipe holds
    Outputs,    \* numbers of pieces a script may write
    Bodies,     \* numbers of pieces _cgi_body may have
    Listeners,  \* whether scripts read their standard input to its end
    Terminal,   \* the server's own standard input never ends
    NoAnswer

ASSUME CgiAssumption ==
    /\ Capacity \in Nat \ {0}
    /\ Outputs \subseteq Nat
    /\ Bodies \subseteq Nat
    /\ Listeners \subseteq BOOLEAN
    /\ Terminal \in BOOLEAN
    /\ NoAnswer \notin Seq(Nat)

ERROR == -1
SIGKILL == 9

VARIABLES
    call,      \* the request and its script: [output, body, listens]
    parent,    \* the next call of the parent
    child,     \* the next call of the child, or what became of it
    status,    \* the child's status as wait() reports it
    writers,   \* processes that have the write end of pipeFd open
    out,       \* what is in pipeFd
    produced,  \* pieces the script has written
    data,      \* _data
    unsent,    \* pieces of _cgi_body the child has still to write
    fed,       \* pieces in pipe2
    heard      \* pieces the script has read

parentVars == <<parent, data>>
bodyVars == <<unsent, fed, heard>>
vars == <<call, parent, child, status, writers, out, produced, data, unsent, fed, heard>>

Calls == [output : Outputs, body : Bodies, listens : Listeners]
Parents == {"fork", "close", "wait", "read", "returned", "thrown"}
Children == {"none", "redirect", "feed", "exec", "script", "zombie", "reaped"}

TypeOK ==
    /\ call \in Calls
    /\ parent \in Parents
    /\ child \in Children
    /\ status \in Int
    /\ writers \subseteq {"parent", "child"}
    /\ out \in Seq(Nat)
    /\ produced \in Nat
    /\ data \in Seq(Nat)
    /\ unsent \in Nat /\ fed \in Nat /\ heard \in Nat

\* pipe(pipeFd) has been called; WebServer models what happens when it fails.
Init ==
    /\ call \in Calls
    /\ parent = "fork"
    /\ child = "none"
    /\ status = 0
    /\ writers = {"parent"}
    /\ out = <<>>
    /\ produced = 0
    /\ data = <<>>
    /\ unsent = call.body
    /\ fed = 0
    /\ heard = 0

-----------------------------------------------------------------------------
(* The parent. *)

\* Variant with a fault: an exit code is taken for an error too.
CheckErrorStrict(code) == code # 0

\* check_error: whether it throws.
CheckError(code) == code < 0

Fork ==
    /\ parent = "fork"
    /\ parent' = "close"
    /\ child' = "redirect"
    /\ writers' = {"parent", "child"}
    /\ UNCHANGED <<call, status, out, produced, data, bodyVars>>

\* The std::runtime_error is caught neither here nor in launchServers.
ForkFails ==
    /\ parent = "fork"
    /\ CheckError(ERROR)
    /\ parent' = "thrown"
    /\ UNCHANGED <<call, child, status, writers, out, produced, data, bodyVars>>

\* Variant with a fault: the parent keeps its write end.
KeepWriteEnd == writers

WithoutWriteEnd == writers \ {"parent"}

CloseWriteEnd ==
    /\ parent = "close"
    /\ writers' = WithoutWriteEnd
    /\ parent' = "wait"
    /\ UNCHANGED <<call, child, status, out, produced, data, bodyVars>>

\* wait() returns when the child has ended.
Wait ==
    /\ parent = "wait"
    /\ child = "zombie"
    /\ child' = "reaped"
    /\ parent' = IF CheckError(status) THEN "thrown" ELSE "read"
    /\ UNCHANGED <<call, status, writers, out, produced, data, bodyVars>>

\* Variant with a fault: what is read replaces what was read before.
CollectLast(c) == <<c>>

Collect(c) == Append(data, c)

Read ==
    /\ parent = "read"
    /\ out # <<>>
    /\ data' = Collect(Head(out))
    /\ out' = Tail(out)
    /\ UNCHANGED <<call, parent, child, status, writers, produced, bodyVars>>

ReadEnd ==
    /\ parent = "read"
    /\ out = <<>>
    /\ writers = {}
    /\ parent' = "returned"
    /\ UNCHANGED <<call, child, status, writers, out, produced, data, bodyVars>>

ParentStep == Fork \/ ForkFails \/ CloseWriteEnd \/ Wait \/ Read \/ ReadEnd

-----------------------------------------------------------------------------
(* The child, until it is the script. *)

\* The child's end, with what wait() will report.
Die(report) ==
    /\ child' = "zombie"
    /\ status' = report
    /\ writers' = writers \ {"child"}

\* An empty body has no pipe: the script's standard input is the server's.
Redirect ==
    /\ child = "redirect"
    /\ child' = IF call.body > 0 THEN "feed" ELSE "exec"
    /\ UNCHANGED <<call, parentVars, status, writers, out, produced, bodyVars>>

\* write(pipe2) waits for room; the only reader is this process.
Feed ==
    /\ child = "feed"
    /\ unsent > 0
    /\ fed < Capacity
    /\ fed' = fed + 1
    /\ unsent' = unsent - 1
    /\ UNCHANGED <<call, parentVars, child, status, writers, out, produced, heard>>

\* Variant with a fault: one write(), which takes what fits.
FeedEndEarly ==
    /\ child = "feed"
    /\ child' = "exec"
    /\ UNCHANGED <<call, parentVars, status, writers, out, produced, bodyVars>>

FeedEnd ==
    /\ child = "feed"
    /\ unsent = 0
    /\ child' = "exec"
    /\ UNCHANGED <<call, parentVars, status, writers, out, produced, bodyVars>>

Exec ==
    /\ child = "exec"
    /\ child' = "script"
    /\ UNCHANGED <<call, parentVars, status, writers, out, produced, bodyVars>>

\* What wait() reports of exit(ERROR): its low eight bits, in the next eight.
NotStarted == (256 + ERROR) * 256

ExecFails ==
    /\ child = "exec"
    /\ Die(NotStarted)
    /\ UNCHANGED <<call, parentVars, out, produced, bodyVars>>

ChildStep == Redirect \/ Feed \/ FeedEnd \/ Exec

-----------------------------------------------------------------------------
(* The script. *)

ScriptReads ==
    /\ child = "script"
    /\ fed > 0
    /\ fed' = fed - 1
    /\ heard' = heard + 1
    /\ UNCHANGED <<call, parentVars, child, status, writers, out, produced, unsent>>

ScriptWrites ==
    /\ child = "script"
    /\ produced < call.output
    /\ Len(out) < Capacity
    /\ out' = Append(out, produced + 1)
    /\ produced' = produced + 1
    /\ UNCHANGED <<call, parentVars, child, status, writers, bodyVars>>

\* The end of the standard input: that of pipe2, whose write end is closed
\* by then, or of the one the script has from the server.
HeardAll == IF call.body > 0 THEN fed = 0 ELSE ~Terminal

ScriptExits ==
    /\ child = "script"
    /\ produced = call.output
    /\ call.listens => HeardAll
    /\ Die(0)
    /\ UNCHANGED <<call, parentVars, out, produced, bodyVars>>

ScriptKilled ==
    /\ child = "script"
    /\ Die(SIGKILL)
    /\ UNCHANGED <<call, parentVars, out, produced, bodyVars>>

ScriptStep == ScriptReads \/ ScriptWrites \/ ScriptExits

-----------------------------------------------------------------------------
Next == ParentStep \/ ChildStep \/ ExecFails \/ ScriptStep \/ ScriptKilled

\* Both processes run, and the script goes on to its end.
Fairness == WF_vars(ParentStep) /\ WF_vars(ChildStep) /\ WF_vars(ScriptStep)

Spec == Init /\ [][Next]_vars
FairSpec == Spec /\ Fairness

-----------------------------------------------------------------------------
(* Properties. *)

Output(n) == [k \in 1..n |-> k]
Ended == child \in {"zombie", "reaped"}

\* When exec_Cgi returns, _data is what the script wrote, in order and whole:
\* all there was to write if the script came to its end.
WholeOutput ==
    parent = "returned" =>
        /\ data = Output(produced)
        /\ status = 0 => produced = call.output

\* A script that reads to the end of its input and ends well has read the
\* whole body: "the CGI will expect EOF as end of the body".
WholeBody == Ended /\ status = 0 /\ call.listens => heard = call.body

\* Only a fork() that fails throws: a script that cannot be started or is
\* killed does not take the server down.
OnlyForkThrows == parent = "thrown" => child = "none"

\* exec_Cgi returns, or throws: while it runs no other client is served.
CallReturns == <>(parent \in {"returned", "thrown"})

\* check_error(child_status, "error execve"): exec_Cgi does not return as if
\* all was well when the script could not be started.
ExecFailureReported == parent = "returned" => status # NotStarted

\* What the request sees is a CgiCall.
Call ==
    INSTANCE CgiCall WITH
        made <- produced,
        ended <- Ended,
        answer <- IF parent = "returned" THEN data ELSE NoAnswer
ImplementsCall == Call!SafeSpec

-----------------------------------------------------------------------------
(* The inductive invariant. *)

\* What was written and not yet read is in the pipe, in order.
InOrder ==
    /\ Len(data) + Len(out) = produced /\ produced <= call.output
    /\ \A k \in 1..Len(data) : data[k] = k
    /\ \A k \in 1..Len(out) : out[k] = Len(data) + k

\* Who has the write end of pipeFd open.
WriteEnds ==
    /\ "parent" \in writers <=> parent \in {"fork", "close", "thrown"}
    /\ "child" \in writers <=> child \in {"redirect", "feed", "exec", "script"}

\* The parent reads when the child has ended.
WaitedFor ==
    /\ parent \in {"read", "returned"} <=> child = "reaped"
    /\ parent \in {"fork", "thrown"} <=> child = "none"
    /\ parent = "returned" => out = <<>>

\* What became of the body.
BodyKept ==
    /\ heard + fed + unsent = call.body
    /\ child \in {"exec", "script"} \/ Ended => unsent = 0

\* How a script ends.
EndsWell ==
    /\ status >= 0
    /\ Ended /\ status = 0 => /\ produced = call.output
                              /\ call.listens => fed = 0

IInv == TypeOK /\ InOrder /\ WriteEnds /\ WaitedFor /\ BodyKept /\ EndsWell
=============================================================================
