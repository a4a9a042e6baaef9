-------------------------- MODULE TelephonyToolProofs --------------------------
(***************************************************************************)
(* Theorems about the tool, for every set of commands, any number of lines *)
(* and every combination of failures.                                      *)
(***************************************************************************)
EXTENDS TelephonyTool, TLAPS

\* What the two threads know of each other: before the thread is made there is none, main
\* is at the loop or in it from then until the thread has sent its word, and the context is
\* open from its first use to its last.
StageInv ==
    /\ main \in {"tapi_open", "uv_async_init", "pthread_create"} =>
          reader = "none" /\ sent = FALSE
    /\ main = "tapi_open" => context = "none"
    /\ main \in {"uv_async_init", "pthread_create", "pthread_join", "tapi_close"} \cup Serving
          => context = "open"
    /\ main \in {"pthread_create"} \cup Serving => g_uv_exit = "open"
    /\ main \in Serving => reader # "none"
    /\ reader \in {"malloc", "test", "read", "calling", "free"} =>
          main \in Serving /\ sent = FALSE
    /\ main = "tapi_close" => reader = "gone"
    /\ main = "ended" => reader \in {"none", "gone"} /\ context # "open"

\* The line that is being worked on has calls left, and before a line there is none.
LineInv ==
    /\ reader = "calling" => made < line.times
    /\ reader \in {"none", "malloc", "read"} => line = NoLine
    /\ reader = "test" => IgnoredIsTold

IInv == TypeOK /\ StageInv /\ LineInv

-----------------------------------------------------------------------------
LEMMA Lines ==
    ASSUME NEW c \in Commands, NEW run \in c.runs \cup {NoLine, Refused}
    PROVE  run.times \in Nat
  <1>1. CASE run \in c.runs
    BY <1>1, CommandAssumption
  <1>2. NoLine.times = 0 /\ Refused.times = 0
    BY DEF NoLine, Refused
  <1> QED
    BY <1>1, <1>2

LEMMA InitInv == Init => IInv
  <1> SUFFICES ASSUME Init PROVE IInv
    OBVIOUS
  <1>1. NoLine.times = 0
    BY DEF NoLine
  <1>2. TypeOK
    <2>1. line \in command.runs \cup {NoLine, Refused} /\ line.times = 0
      BY <1>1 DEF Init
    <2>2. made \in 0..line.times /\ lines \in 0..MaxLines
      BY <2>1, CommandAssumption DEF Init
    <2> QED
      BY <2>1, <2>2 DEF Init, TypeOK
  <1>3. StageInv
    BY DEF Init, StageInv, Serving
  <1>4. LineInv
    BY DEF Init, LineInv
  <1> QED
    BY <1>2, <1>3, <1>4 DEF IInv

LEMMA StutterInv ==
    ASSUME IInv, UNCHANGED vars
    PROVE  IInv'
  BY DEF IInv, TypeOK, StageInv, Serving, LineInv, IgnoredIsTold, vars, threadVars, lineVars,
         NoLine, Refused

-----------------------------------------------------------------------------
\* The main thread leaves the line alone, and the reader unless it makes it.
LEMMA MainInv ==
    ASSUME IInv, Main
    PROVE  IInv'
  <1>1. UNCHANGED <<line, made, told, command, lines, g_should_exit>>
    BY DEF Main, tapi_open, uv_async_init, pthread_create, uv_run, exit_async_cleanup,
           pthread_join, tapi_close, lineVars
  <1>2. CASE tapi_open
    BY <1>1, <1>2 DEF tapi_open, After, IInv, TypeOK, StageInv, Serving, LineInv, IgnoredIsTold,
                      NoLine, Refused
  <1>3. CASE uv_async_init
    BY <1>1, <1>3 DEF uv_async_init, After, IInv, TypeOK, StageInv, Serving, LineInv,
                      IgnoredIsTold, NoLine, Refused
  <1>4. CASE pthread_create
    BY <1>1, <1>4 DEF pthread_create, After, IInv, TypeOK, StageInv, Serving, LineInv,
                      IgnoredIsTold, NoLine, Refused
  <1>5. CASE exit_async_cleanup
    BY <1>1, <1>5 DEF exit_async_cleanup, After, IInv, TypeOK, StageInv, Serving, LineInv,
                      IgnoredIsTold, NoLine, Refused
  <1>6. CASE pthread_join
    BY <1>1, <1>6 DEF pthread_join, After, IInv, TypeOK, StageInv, Serving, LineInv,
                      IgnoredIsTold, NoLine, Refused
  <1>7. CASE tapi_close
    BY <1>1, <1>7 DEF tapi_close, After, IInv, TypeOK, StageInv, Serving, LineInv, IgnoredIsTold,
                      NoLine, Refused
  <1>8. CASE uv_run
    BY <1>1, <1>8 DEF uv_run, After, IInv, TypeOK, StageInv, Serving, LineInv, IgnoredIsTold,
                      NoLine, Refused
  <1> QED
    BY <1>2, <1>3, <1>4, <1>5, <1>6, <1>7, <1>8 DEF Main

-----------------------------------------------------------------------------
LEMMA ReaderInv ==
    ASSUME IInv, Reader
    PROVE  IInv'
  <1>1. UNCHANGED <<command, lines, g_should_exit, main, context, g_uv_exit>>
    BY DEF Reader, Allocate, TestExit, uv_async_send, Return, CallReturns
  <1>2. CASE Allocate
    BY <1>1, <1>2 DEF Allocate, lineVars, IInv, TypeOK, StageInv, Serving, LineInv, IgnoredIsTold
  <1>3. CASE TestExit
    <2>1. NoLine.times = 0
      BY DEF NoLine
    <2> QED
      BY <1>1, <1>3, <2>1 DEF TestExit, IInv, TypeOK, StageInv, Serving, LineInv, IgnoredIsTold
  <1>4. CASE uv_async_send
    BY <1>1, <1>4 DEF uv_async_send, lineVars, IInv, TypeOK, StageInv, Serving, LineInv,
                      IgnoredIsTold
  <1>5. CASE Return
    BY <1>1, <1>5 DEF Return, lineVars, IInv, TypeOK, StageInv, Serving, LineInv, IgnoredIsTold
  <1>6. ASSUME NEW result \in {"fine", "invalid"}, CallReturns(result)
        PROVE  IInv'
    <2>1. line.times \in Nat
      BY Lines DEF IInv, TypeOK
    <2>2. /\ reader = "calling" /\ made' = made + 1 /\ made' \in 1..line.times
          /\ reader' = IF made' = line.times THEN "test" ELSE "calling"
          /\ line' = line /\ sent' = sent
      BY <1>6, <2>1 DEF CallReturns, IInv, TypeOK, LineInv
    <2>3. told' \in {"nothing", "invalid"}
      BY <1>6 DEF CallReturns, Report
    <2>4. TypeOK'
      BY <1>1, <2>1, <2>2, <2>3 DEF IInv, TypeOK
    <2>5. StageInv'
      BY <1>1, <2>2 DEF IInv, StageInv, Serving
    <2>6. LineInv'
      BY <1>1, <2>1, <2>2 DEF LineInv, IgnoredIsTold
    <2> QED
      BY <2>4, <2>5, <2>6 DEF IInv
  <1> QED
    BY <1>2, <1>3, <1>4, <1>5, <1>6 DEF Reader

LEMMA UserInv ==
    ASSUME IInv, User
    PROVE  IInv'
  <1>1. UNCHANGED <<command, g_should_exit, main, context, g_uv_exit, sent, made>>
    BY DEF User, ReadQuit, ReadOther, Execute, lineVars
  <1>2. reader = "read" /\ line = NoLine
    BY DEF User, ReadQuit, ReadOther, Execute, ReadsLine, IInv, LineInv
  <1>3. CASE ReadQuit
    BY <1>1, <1>2, <1>3 DEF ReadQuit, lineVars, IInv, TypeOK, StageInv, Serving, LineInv
  <1>4. CASE ReadOther
    BY <1>1, <1>2, <1>4, CommandAssumption
       DEF ReadOther, ReadsLine, IInv, TypeOK, StageInv, Serving, LineInv, IgnoredIsTold
  <1>5. ASSUME NEW count \in 0..8, NEW slot \in {"phone", "-1", "other"},
               Execute(count, slot)
        PROVE  IInv'
    <2>1. made = 0 /\ made' = 0
      <3>1. NoLine.times = 0
        BY DEF NoLine
      <3> QED
        BY <1>1, <1>2, <3>1 DEF IInv, TypeOK
    <2>2. lines' \in 0..MaxLines
      BY <1>5, CommandAssumption DEF Execute, ReadsLine, IInv, TypeOK
    <2>3. /\ line' \in command.runs \cup {NoLine, Refused}
          /\ line'.times \in Nat
          /\ reader' \in {"test", "calling"}
          /\ told' \in {"nothing", "invalid"}
      BY <1>5, Lines DEF Execute, Report, IInv, TypeOK
    <2>4. reader' = "calling" => line'.times > 0
      BY <1>5, <2>3 DEF Execute
    <2>5. reader' = "test" => IgnoredIsTold'
      <3> SUFFICES ASSUME reader' = "test", command.cmd # "get-ims-registration"
                   PROVE  told' = "invalid"
        BY <1>1 DEF IgnoredIsTold
      <3>1. CASE Takes(count, slot)
        <4>1. PICK run \in command.runs : run.times = 0 /\ told' = Report(run.result)
          BY <1>5, <3>1 DEF Execute
        <4> QED
          BY <4>1, CommandAssumption DEF Report, IInv, TypeOK
      <3>2. CASE ~Takes(count, slot)
        BY <1>5, <3>2 DEF Execute, Report
      <3> QED
        BY <3>1, <3>2
    <2>6. TypeOK'
      BY <1>1, <2>1, <2>2, <2>3 DEF IInv, TypeOK
    <2>7. StageInv'
      BY <1>1, <1>2, <2>3 DEF IInv, StageInv, Serving
    <2>8. LineInv'
      BY <1>1, <2>1, <2>3, <2>4, <2>5 DEF LineInv
    <2> QED
      BY <2>6, <2>7, <2>8 DEF IInv
  <1> QED
    BY <1>3, <1>4, <1>5 DEF User

LEMMA SignalInv ==
    ASSUME IInv, exit_handler
    PROVE  IInv'
  BY DEF exit_handler, threadVars, lineVars, IInv, TypeOK, StageInv, Serving, LineInv,
         IgnoredIsTold

LEMMA Inductive == IInv /\ [Next]_vars => IInv'
  BY StutterInv, MainInv, ReaderInv, UserInv, SignalInv DEF Next

LEMMA Invariant == Spec => []IInv
  BY InitInv, Inductive, PTL DEF Spec

-----------------------------------------------------------------------------
\* The tool's state is well typed: no command makes more calls than it has.
THEOREM TypeCorrect == Spec => []TypeOK
  <1>1. IInv => TypeOK
    BY DEF IInv
  <1> QED
    BY <1>1, Invariant, PTL

\* Whatever a command asks the library for, the event loop runs, or main is about to run
\* it, and the context is open.
THEOREM CommandsAreServed == Spec => []ServedWhileReading
  <1>1. IInv => ServedWhileReading
    BY DEF IInv, StageInv, Serving, ServedWhileReading
  <1> QED
    BY <1>1, Invariant, PTL

\* The word of the reader that ends the loop finds the handle set up and not closed.
THEOREM ExitReachesLoop == Spec => []ExitIsHeard
  <1>1. IInv => ExitIsHeard
    BY DEF IInv, StageInv, Serving, ExitIsHeard
  <1> QED
    BY <1>1, Invariant, PTL

\* The context is closed after its last use, by whichever way main ends.
THEOREM ClosesLast == Spec => []CleanEnd
  <1>1. IInv => CleanEnd
    BY DEF IInv, TypeOK, StageInv, Serving, CleanEnd
  <1> QED
    BY <1>1, Invariant, PTL

\* No line with the name of a command is dropped in silence, but for the one command that
\* CommandAssumption names.
THEOREM NothingIsIgnored == Spec => []IgnoredIsTold
  <1>1. IInv => IgnoredIsTold
    BY DEF IInv, LineInv, IgnoredIsTold
  <1> QED
    BY <1>1, Invariant, PTL
=============================================================================
