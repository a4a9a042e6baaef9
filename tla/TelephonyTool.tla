----------------------------- MODULE TelephonyTool -----------------------------
(***************************************************************************)
(* telephony_tool.c, a shell over the library: the main thread runs the    *)
(* event loop on which the library works, a second thread reads lines and  *)
(* calls the library, and tells the first by a uv_async handle when it is  *)
(* done.  libuv and the user are external.                                 *)
(***************************************************************************)
EXTENDS Integers

CONSTANTS
    Commands,   \* the commands of module CommandTable
    MaxLines,   \* lines the user enters
    Faults      \* "open", "thread", "memory": what can fail

\* What a command comes to is a number of calls of the library and what it makes of the
\* result; whatever calls nothing is an invalid input, but for one command.
ASSUME CommandAssumption ==
    /\ MaxLines \in Nat
    /\ \A c \in Commands : \A run \in c.runs :
          /\ run.times \in Nat
          /\ run.times = 0 => run.result = "invalid" \/ c.cmd = "get-ims-registration"

VARIABLES
    main,           \* what main does next; in "loop" uv_run has been called
    reader,         \* where read_stdin is
    context,        \* "none", "open", "closed"
    g_uv_exit,      \* the handle: "raw" memory, "open", "closed"
    sent,           \* the handle was sent to
    g_should_exit,
    command,        \* the command looked at
    line,           \* the command of this line: its call and result, and calls left
    made,           \* calls made for this line
    told,           \* what the user was told of it
    lines           \* how many lines were entered

threadVars == <<main, reader, g_uv_exit, sent>>
lineVars   == <<line, made, told>>
vars == <<threadVars, context, g_should_exit, command, lineVars, lines>>

NoLine  == [call |-> "none", times |-> 0, result |-> "no line"]
Refused == [NoLine EXCEPT !.result = "invalid"]

TypeOK ==
    /\ main \in {"tapi_open", "uv_async_init", "pthread_create", "uv_run", "loop",
                 "pthread_join", "tapi_close", "ended"}
    /\ reader \in {"none", "malloc", "test", "read", "calling", "free", "return", "gone"}
    /\ context \in {"none", "open", "closed"}
    /\ g_uv_exit \in {"raw", "open", "closed"}
    /\ {sent, g_should_exit} \subseteq BOOLEAN
    /\ command \in Commands /\ line \in command.runs \cup {NoLine, Refused}
    /\ made \in 0..line.times
    /\ told \in {"nothing", "invalid", "unknown"}
    /\ lines \in 0..MaxLines

Init ==
    /\ main = "tapi_open" /\ reader = "none" /\ context = "none"
    /\ g_uv_exit = "raw" /\ sent = FALSE /\ g_should_exit = FALSE
    /\ command \in Commands
    /\ line = NoLine /\ made = 0 /\ told = "nothing" /\ lines = 0

-----------------------------------------------------------------------------
(* The main thread *)

\* Variant: the thread is there before the handle.
ThreadFirst ==
    [tapi_open |-> "pthread_create", pthread_create |-> "uv_async_init",
     uv_async_init |-> "uv_run", uv_run |-> "loop", loop |-> "pthread_join",
     pthread_join |-> "tapi_close", tapi_close |-> "ended"]

\* The statement of main that follows each one.
After ==
    [tapi_open |-> "uv_async_init", uv_async_init |-> "pthread_create",
     pthread_create |-> "uv_run", uv_run |-> "loop", loop |-> "pthread_join",
     pthread_join |-> "tapi_close", tapi_close |-> "ended"]

tapi_open ==
    /\ main = "tapi_open"
    /\ \/ main' = After[main] /\ context' = "open"
       \/ "open" \in Faults /\ main' = "ended" /\ UNCHANGED context
    /\ UNCHANGED <<reader, g_uv_exit, sent, g_should_exit, command, lineVars, lines>>

uv_async_init ==
    /\ main = "uv_async_init" /\ main' = After[main]
    /\ g_uv_exit' = "open" /\ sent' = FALSE
    /\ UNCHANGED <<reader, context, g_should_exit, command, lineVars, lines>>

pthread_create ==
    /\ main = "pthread_create"
    /\ \/ main' = After[main] /\ reader' = "malloc" /\ UNCHANGED context
       \/ "thread" \in Faults /\ main' = "ended" /\ context' = "closed" /\ UNCHANGED reader
    /\ UNCHANGED <<g_uv_exit, sent, g_should_exit, command, lineVars, lines>>

\* The reader may have come a long way before main gets here.
uv_run ==
    /\ main = "uv_run" /\ main' = After[main]
    /\ UNCHANGED <<reader, context, g_uv_exit, sent, g_should_exit, command, lineVars, lines>>

\* The loop runs this once the handle was sent to, before or after the loop began, and it
\* ends uv_run.
exit_async_cleanup ==
    /\ main = "loop" /\ sent /\ g_uv_exit = "open"
    /\ main' = After[main] /\ g_uv_exit' = "closed" /\ sent' = FALSE
    /\ UNCHANGED <<reader, context, g_should_exit, command, lineVars, lines>>

\* Variant: main does not wait.
JoinsAtOnce ==
    /\ main = "pthread_join" /\ main' = After[main]
    /\ UNCHANGED <<reader, context, g_uv_exit, sent, g_should_exit, command, lineVars, lines>>

pthread_join ==
    /\ main = "pthread_join" /\ reader = "gone" /\ main' = After[main]
    /\ UNCHANGED <<reader, context, g_uv_exit, sent, g_should_exit, command, lineVars, lines>>

tapi_close ==
    /\ main = "tapi_close" /\ main' = After[main] /\ context' = "closed"
    /\ UNCHANGED <<reader, g_uv_exit, sent, g_should_exit, command, lineVars, lines>>

\* Variant: the handler of the signal stops the loop.
StopsLoop ==
    /\ main # "ended" /\ ~g_should_exit /\ g_should_exit' = TRUE
    /\ sent' = (g_uv_exit = "open")
    /\ UNCHANGED <<main, reader, g_uv_exit, context, command, lineVars, lines>>

exit_handler ==
    /\ main # "ended" /\ ~g_should_exit /\ g_should_exit' = TRUE
    /\ UNCHANGED <<threadVars, context, command, lineVars, lines>>

-----------------------------------------------------------------------------
(* The thread that reads: read_stdin *)

Allocate ==
    /\ reader = "malloc"
    /\ reader' \in {"test"} \cup (IF "memory" \in Faults THEN {"gone"} ELSE {})
    /\ UNCHANGED <<main, g_uv_exit, sent, context, g_should_exit, command, lineVars, lines>>

TestExit ==
    /\ reader = "test"
    /\ reader' = IF g_should_exit THEN "free" ELSE "read"
    /\ line' = NoLine /\ made' = 0 /\ told' = "nothing"
    /\ UNCHANGED <<main, g_uv_exit, sent, context, g_should_exit, command, lines>>

ReadsLine == reader = "read" /\ lines < MaxLines /\ lines' = lines + 1

\* "q", and the end of the input, which an interrupted read looks like.
ReadQuit ==
    /\ reader = "read" /\ reader' = "free"
    /\ UNCHANGED <<main, g_uv_exit, sent, context, g_should_exit, command, lineVars, lines>>

\* An empty line, "help", or one for the system; or no command of the tool.
ReadOther ==
    /\ ReadsLine /\ reader' = "test" /\ told' \in {"nothing", "unknown"}
    /\ UNCHANGED <<main, g_uv_exit, sent, context, g_should_exit, command, line, made>>

Report(result) == IF result = "invalid" THEN "invalid" ELSE "nothing"

Takes(count, slot) ==
    /\ count \in command.least..command.most
    /\ count > 0 => slot \in command.slot

\* telephonytool_execute: the function of the command, up to its call of the library.
Execute(count, slot) ==
    /\ ReadsLine
    /\ IF Takes(count, slot)
       THEN \E run \in command.runs :
               /\ line' = run
               /\ IF run.times = 0
                  THEN reader' = "test" /\ told' = Report(run.result)
                  ELSE reader' = "calling" /\ told' = "nothing"
       ELSE line' = Refused
            /\ reader' = "test" /\ told' = Report("invalid")
    /\ UNCHANGED <<main, g_uv_exit, sent, context, g_should_exit, command, made>>

\* Variant: the count is compared before the call is counted.
CallsOnceMore(result) ==
    /\ reader = "calling" /\ made' = made + 1
    /\ reader' = IF made = line.times THEN "test" ELSE "calling"
    /\ told' = IF made = line.times /\ line.result = "its" THEN Report(result) ELSE "nothing"
    /\ UNCHANGED <<main, g_uv_exit, sent, context, g_should_exit, command, line, lines>>

\* The library returns; some functions call it twice.
CallReturns(result) ==
    /\ reader = "calling" /\ made' = made + 1
    /\ reader' = IF made' = line.times THEN "test" ELSE "calling"
    /\ told' = IF made' = line.times /\ line.result = "its" THEN Report(result) ELSE "nothing"
    /\ UNCHANGED <<main, g_uv_exit, sent, context, g_should_exit, command, line, lines>>

\* Variant: the thread ends without a word.
LeavesQuietly ==
    /\ reader = "free" /\ reader' = "return"
    /\ UNCHANGED <<main, g_uv_exit, sent, context, g_should_exit, command, lineVars, lines>>

\* free(buffer), then uv_async_send, which works on a handle that is set up.
uv_async_send ==
    /\ reader = "free" /\ reader' = "return"
    /\ sent' = (g_uv_exit = "open")
    /\ UNCHANGED <<main, g_uv_exit, context, g_should_exit, command, lineVars, lines>>

Return ==
    /\ reader = "return" /\ reader' = "gone"
    /\ UNCHANGED <<main, g_uv_exit, sent, context, g_should_exit, command, lineVars, lines>>

-----------------------------------------------------------------------------
Main   == tapi_open \/ uv_async_init \/ pthread_create \/ uv_run \/ exit_async_cleanup
          \/ pthread_join \/ tapi_close
Reader == Allocate \/ TestExit \/ uv_async_send \/ Return
          \/ \E result \in {"fine", "invalid"} : CallReturns(result)
User   == ReadQuit \/ ReadOther
          \/ \E count \in 0..8, slot \in {"phone", "-1", "other"} : Execute(count, slot)

Next == Main \/ Reader \/ User \/ exit_handler

\* The system runs both threads; the user need not enter anything.
Spec == Init /\ [][Next]_vars /\ WF_vars(Main) /\ WF_vars(Reader)

-----------------------------------------------------------------------------
(* Properties *)

\* Main is at the loop, or in it.
Serving == {"uv_run", "loop"}

\* As long as the user can give commands the loop runs, or is what main does next, on an
\* open context: what a command asks the library for can be answered
\* ("exit_async_cleanup": the loop is stopped from its own thread, after the reader is
\* done).
ServedWhileReading ==
    reader \in {"test", "read", "calling"} =>
        main \in Serving /\ context = "open"

\* "initialize async handler before the thread creation in case we have some race
\* issues": the reader finds the handle ready, however fast it is.
ExitIsHeard == reader = "free" => g_uv_exit = "open"

\* When main returns, the thread is gone and the context closed, and before the context
\* is closed nobody uses it.
CleanEnd ==
    /\ main = "ended" => context # "open" /\ reader \in {"none", "gone"}
    /\ context # "open" => reader \in {"none", "gone"} /\ main \notin Serving

\* A line with the name of a command that led to no call of the library is reported.
\* get-ims-registration of an unknown kind is not: its switch has no default.
IgnoredIsTold ==
    reader = "test" /\ line # NoLine /\ made = 0 /\ command.cmd # "get-ims-registration"
        => told = "invalid"

\* Once the user quits, or presses Ctrl-C and the reader gets to look, the tool ends.
QuitEnds ==
    reader = "free" \/ (g_should_exit /\ reader \in {"test", "calling", "gone"})
        ~> main = "ended"
=============================================================================
