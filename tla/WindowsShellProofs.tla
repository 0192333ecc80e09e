------------------------- MODULE WindowsShellProofs -------------------------
(***************************************************************************)
(* For every number of workers and of blink threads: the clipboard is lent *)
(* and given back, and the icon at rest is that of the tray's state.  For  *)
(* every number of hotkey backends: a reload leaves the keys to the last.  *)
(***************************************************************************)
EXTENDS WindowsShell, HotkeyBackends, FiniteSetTheorems, TLAPS

USE ShellAssumption DEF Threads

(***************************************************************************)
(* Types.                                                                  *)
(***************************************************************************)
LEMMA InitTypeOK == Init => TypeOK
  <1> SUFFICES ASSUME Init PROVE TypeOK
    OBVIOUS
  <1>1. blinking \in BOOLEAN /\ stopBlink \in BOOLEAN /\ astray \in BOOLEAN /\ clash \in BOOLEAN
    BY Zenon DEF Init
  <1>2. blinks \in [BlinkThreads -> {"none", "new", "check", "show", "reset"}]
    BY DEF Init
  <1>3. /\ pc \in [Threads -> Setting \cup Inserts \cup {"rest", "set", "tray", "send", "sleep"}]
        /\ target \in [Threads -> States]
        /\ previous \in [Workers -> Copied \cup Workers]
    BY DEF Init, States, Copied
  <1>4. QED
    BY <1>1, <1>2, <1>3 DEF Init, TypeOK, States, Copied

LEMMA StepTypeOK == ASSUME TypeOK, [Next]_vars PROVE TypeOK'
  <1> USE DEF TypeOK, States, Copied, Setting, Inserts, vars, app, icon, board,
              Goto, Calls, Look, Return, Raise
  <1>1. CASE Pressed
    BY <1>1 DEF Pressed
  <1>2. ASSUME NEW t \in Threads, TrayStep(t)
        PROVE  TypeOK'
    <2>1. CASE SetState(t)
      BY <2>1 DEF SetState
    <2>2. CASE SetTray(t)
      BY <2>2 DEF SetTray, InTray
    <2>3. CASE StartBlink(t)
      BY <2>3 DEF StartBlink
    <2>4. CASE StopBlink(t)
      BY <2>4 DEF StopBlink
    <2>5. CASE MarkBlinking(t)
      <3>1. blinking' \in BOOLEAN
        BY <2>5, Zenon DEF MarkBlinking
      <3>2. QED
        BY <2>5, <3>1 DEF MarkBlinking
    <2>6. CASE SignalBlinker(t)
      <3>1. stopBlink' \in BOOLEAN
        BY <2>6, Zenon DEF SignalBlinker
      <3>2. QED
        BY <2>6, <3>1 DEF SignalBlinker
    <2>7. CASE CreateBlinker(t)
      BY <2>7 DEF CreateBlinker
    <2>8. CASE LaunchBlinker(t)
      BY <2>8 DEF LaunchBlinker
    <2>9. CASE JoinBlinker(t)
      BY <2>9 DEF JoinBlinker
    <2>10. CASE WaitForBlinker(t)
      BY <2>10 DEF WaitForBlinker
    <2>11. CASE ForgetBlinker(t)
      BY <2>11 DEF ForgetBlinker
    <2>12. QED
      BY <1>2, <2>1, <2>2, <2>3, <2>4, <2>5, <2>6, <2>7, <2>8, <2>9, <2>10, <2>11
         DEF TrayStep
  <1>3. ASSUME NEW w \in Workers, SendFails(w) \/ Recover(w) \/ InsertStep(w)
        PROVE  TypeOK'
    <2>1. CASE SendFails(w) \/ Recover(w) \/ BeginsToInsert(w)
      BY <2>1 DEF SendFails, Recover, BeginsToInsert
    <2>2. CASE SaveClipboard(w)
      BY <2>2 DEF SaveClipboard
    <2>3. CASE CopyText(w)
      BY <2>3 DEF CopyText
    <2>4. CASE Paste(w)
      <3>1. astray' \in BOOLEAN
        BY <2>4, Zenon DEF Paste
      <3>2. QED
        BY <2>4, <3>1 DEF Paste
    <2>5. CASE RestoreClipboard(w)
      BY <2>5 DEF RestoreClipboard
    <2>6. CASE LeaveText(w)
      BY <2>6 DEF LeaveText
    <2>7. QED
      BY <1>3, <2>1, <2>2, <2>3, <2>4, <2>5, <2>6 DEF InsertStep
  <1>4. ASSUME NEW b \in BlinkThreads, BlinkChecks(b) \/ BlinkShows(b) \/ BlinkEnds(b)
        PROVE  TypeOK'
    BY <1>4 DEF BlinkChecks, BlinkShows, BlinkEnds
  <1>5. CASE UserCopies
    BY <1>5 DEF UserCopies
  <1>6. CASE UNCHANGED vars
    BY <1>6
  <1>7. QED
    BY <1>1, <1>2, <1>3, <1>4, <1>5, <1>6 DEF Next

(* Every variable of the shell keeps its type.                             *)
THEOREM ShellTypeCorrect == Spec => []TypeOK
  BY InitTypeOK, StepTypeOK, PTL DEF Spec

(***************************************************************************)
(* The clipboard.  At most one thread drives the state: it is about to set *)
(* it, or in a busy state has work left that will.  Two insertions would   *)
(* need two drivers.                                                       *)
(***************************************************************************)
Driving(t) ==
    \/ pc[t] \in {"set", "send", "sleep"} \cup Inserts
    \/ pc[t] \in {"tray"} \cup Setting /\ target[t] \in {"processing", "error"}

OneDriver ==
    /\ \A t, u \in Threads : Driving(t) /\ Driving(u) => t = u
    /\ \A t \in Threads :
          Driving(t) => \/ state \in {"processing", "error"}
                        \/ t = Callback /\ pc[t] = "set"

(* What the inserting worker has to give back.                             *)
Lent ==
    /\ \A w \in Workers : pc[w] = "paste" => clip = w
    /\ own # None =>
          /\ (\A w \in Workers : pc[w] \notin {"paste", "restore"}) => clip = own
          /\ \A w \in Workers : pc[w] \in {"copy", "paste", "restore"} => previous[w] = own

(* The state machine of the app lets one thread drive at a time.           *)
LEMMA StepOneDriver ==
  ASSUME TypeOK, OneDriver, [Next]_vars
  PROVE  OneDriver'
  <1> USE DEF TypeOK, OneDriver, Driving, States, Setting, Inserts, app, icon, board,
              Goto, Calls
  <1>1. CASE Pressed
    BY <1>1 DEF Pressed
  <1>2. ASSUME NEW t \in Threads, TrayStep(t)
        PROVE  OneDriver'
    <2>1. CASE SetState(t)
      <3>1. /\ pc[t] = "set" /\ pc' = [pc EXCEPT ![t] = "tray"]
            /\ target' = target /\ state' = target[t]
        BY <2>1 DEF SetState
      <3>2. \A u \in Threads : Driving(u)' => u = t
        BY <3>1
      <3>3. Driving(t)' => state' \in {"processing", "error"}
        BY <3>1
      <3> HIDE DEF Driving, TypeOK, States, Setting, Inserts
      <3>4. QED
        BY <3>2, <3>3
    <2>2. CASE SetTray(t)
      BY <2>2 DEF SetTray
    <2>3. ASSUME pc[t] \in Setting, Return(t), UNCHANGED state
          PROVE  OneDriver'
      BY <2>3 DEF Return
    <2>4. ASSUME pc[t] \in Setting, Raise(t), UNCHANGED state
          PROVE  OneDriver'
      BY <2>4 DEF Raise
    <2>5. ASSUME pc[t] \in Setting, NEW l \in Setting, Goto(t, l), UNCHANGED state
          PROVE  OneDriver'
      BY <2>5
    <2>6. CASE StartBlink(t) \/ StopBlink(t)
      BY <2>6, <2>3, <2>5 DEF StartBlink, StopBlink, Look
    <2>7. CASE MarkBlinking(t) \/ SignalBlinker(t) \/ CreateBlinker(t)
      BY <2>7, <2>5 DEF MarkBlinking, SignalBlinker, CreateBlinker
    <2>8. CASE LaunchBlinker(t) \/ ForgetBlinker(t)
      BY <2>8, <2>3, <2>4 DEF LaunchBlinker, ForgetBlinker
    <2>9. CASE JoinBlinker(t) \/ WaitForBlinker(t)
      BY <2>9, <2>3, <2>4, <2>5 DEF JoinBlinker, WaitForBlinker, Look
    <2>10. QED
      BY <1>2, <2>1, <2>2, <2>6, <2>7, <2>8, <2>9 DEF TrayStep
  <1>3. ASSUME NEW w \in Workers, SendFails(w) \/ Recover(w)
        PROVE  OneDriver'
    BY <1>3 DEF SendFails, Recover
  <1>4. ASSUME NEW w \in Workers, InsertStep(w)
        PROVE  OneDriver'
    <2>1. /\ pc[w] \in {"send"} \cup Inserts
          /\ UNCHANGED state
          /\ \/ \E l \in Inserts : Goto(w, l)
             \/ \E s \in States : Calls(w, s)
      BY <1>4 DEF InsertStep, BeginsToInsert, SaveClipboard, CopyText, Paste,
                  RestoreClipboard, LeaveText
    <2>2. QED
      BY <2>1
  <1>5. CASE UNCHANGED app
    BY <1>5
  <1>6. ASSUME NEW b \in BlinkThreads, BlinkChecks(b) \/ BlinkShows(b) \/ BlinkEnds(b)
        PROVE  UNCHANGED app
    BY <1>6 DEF BlinkChecks, BlinkShows, BlinkEnds
  <1>7. CASE UserCopies
    BY <1>5, <1>7 DEF UserCopies
  <1>8. QED
    BY <1>1, <1>2, <1>3, <1>4, <1>5, <1>6, <1>7 DEF Next, vars

(* What is lent is given back: only the driver inserts.                    *)
LEMMA StepLent ==
  ASSUME TypeOK, OneDriver, Lent, ~astray, [Next]_vars
  PROVE  Lent' /\ ~astray'
  <1> USE DEF TypeOK, Lent, Setting, Inserts, app, icon, board, Goto, Calls
  <1>1. ASSUME UNCHANGED board,
               \A w \in Workers : pc'[w] \in {"copy", "paste", "restore"} <=>
                                  pc[w] \in {"copy", "paste", "restore"},
               \A w \in Workers : pc[w] \in {"copy", "paste", "restore"} => pc'[w] = pc[w]
        PROVE  Lent' /\ ~astray'
    BY <1>1
  <1>2. CASE Pressed
    BY <1>1, <1>2 DEF Pressed
  <1>3. ASSUME NEW t \in Threads, TrayStep(t)
        PROVE  Lent' /\ ~astray'
    <2>1. pc[t] \in {"set", "tray"} \cup Setting /\ UNCHANGED board
      BY <1>3 DEF TrayStep, SetState, SetTray, StartBlink, StopBlink, MarkBlinking,
                  SignalBlinker, CreateBlinker, LaunchBlinker, JoinBlinker,
                  WaitForBlinker, ForgetBlinker, Look
    <2>2. ASSUME Return(t)
          PROVE  Lent' /\ ~astray'
      BY <1>1, <2>1, <2>2 DEF Return
    <2>3. ASSUME NEW l \in {"tray", "rest"} \cup Setting, pc' = [pc EXCEPT ![t] = l]
          PROVE  Lent' /\ ~astray'
      BY <1>1, <2>1, <2>3
    <2>4. Return(t) \/ \E l \in {"tray", "rest"} \cup Setting : pc' = [pc EXCEPT ![t] = l]
      BY <1>3 DEF TrayStep, SetState, SetTray, StartBlink, StopBlink, MarkBlinking,
                  SignalBlinker, CreateBlinker, LaunchBlinker, JoinBlinker,
                  WaitForBlinker, ForgetBlinker, Look, Raise
    <2>5. QED
      BY <2>2, <2>3, <2>4
  <1>4. ASSUME NEW w \in Workers, SendFails(w) \/ Recover(w)
        PROVE  Lent' /\ ~astray'
    BY <1>1, <1>4 DEF SendFails, Recover
  <1>5. ASSUME NEW w \in Workers, InsertStep(w)
        PROVE  Lent' /\ ~astray'
    <2>1. \A v \in Workers : v # w => pc[v] \notin Inserts /\ pc'[v] \notin Inserts
      BY <1>5 DEF OneDriver, Driving, InsertStep, BeginsToInsert, SaveClipboard,
                  CopyText, Paste, RestoreClipboard, LeaveText
    <2>2. CASE BeginsToInsert(w)
      BY <2>1, <2>2 DEF BeginsToInsert
    <2>3. CASE SaveClipboard(w)
      BY <2>1, <2>3 DEF SaveClipboard
    <2>4. CASE CopyText(w)
      BY <2>1, <2>4 DEF CopyText
    <2>5. CASE Paste(w)
      BY <2>1, <2>5 DEF Paste
    <2>6. CASE RestoreClipboard(w)
      BY <2>1, <2>6 DEF RestoreClipboard
    <2>7. CASE LeaveText(w)
      BY <2>1, <2>7 DEF LeaveText
    <2>8. QED
      BY <1>5, <2>2, <2>3, <2>4, <2>5, <2>6, <2>7 DEF InsertStep
  <1>6. ASSUME NEW b \in BlinkThreads, BlinkChecks(b) \/ BlinkShows(b) \/ BlinkEnds(b)
        PROVE  Lent' /\ ~astray'
    BY <1>6 DEF BlinkChecks, BlinkShows, BlinkEnds
  <1>7. CASE UserCopies
    BY <1>7 DEF UserCopies, Inserting
  <1>8. CASE UNCHANGED vars
    BY <1>8 DEF vars
  <1>9. QED
    BY <1>2, <1>3, <1>4, <1>5, <1>6, <1>7, <1>8 DEF Next

(* No window receives another text, and the clipboard is the user's again  *)
(* when nothing is being inserted.                                         *)
THEOREM ClipboardIsAlwaysLent == Spec => []ClipboardIsLent
  <1> DEFINE IInv == TypeOK /\ OneDriver /\ Lent /\ ~astray
  <1>1. Init => IInv
    <2> SUFFICES ASSUME Init PROVE IInv
      OBVIOUS
    <2>1. TypeOK
      BY InitTypeOK
    <2>2. OneDriver
      BY DEF Init, OneDriver, Driving, Setting, Inserts
    <2>3. Lent
      BY DEF Init, Lent
    <2>4. ~astray
      BY DEF Init
    <2>5. QED
      BY <2>1, <2>2, <2>3, <2>4
  <1>2. IInv /\ [Next]_vars => IInv'
    BY StepTypeOK, StepOneDriver, StepLent
  <1>3. IInv => ClipboardIsLent
    BY DEF Lent, ClipboardIsLent, Inserting, Inserts
  <1>4. QED
    BY <1>1, <1>2, <1>3, PTL DEF Spec

(***************************************************************************)
(* The icon.  Without overlap one call is in the tray at a time, and where *)
(* it is tells what it has done to the fields of the blink thread.         *)
(***************************************************************************)
Resting == (\A b \in BlinkThreads : blinks[b] \in {"none", "new"}) => image = tray

Launched == ~stopBlink /\ blinker # None /\ blinks[blinker] \in {"check", "show"}

Quiet == stopBlink \/ \A b \in BlinkThreads : blinks[b] = "none"

Started == blinker # None /\ blinks[blinker] # "new"

Steady == (blinking => Launched) /\ (~blinking => Quiet)

(* What holds while t is in the tray and alone there.                      *)
Progress(t) ==
    /\ pc[t] \in {"start", "mark", "clear", "create", "launch"} => tray = "error"
    /\ pc[t] \in {"stop", "signal", "unmark", "join", "wait", "forget"} => tray # "error"
    /\ pc[t] \in {"start", "stop"} => Steady
    /\ pc[t] \in {"clear", "create", "launch"} => blinking
    /\ pc[t] \in {"create", "launch"} => ~stopBlink
    /\ pc[t] = "launch" => blinker # None /\ blinks[blinker] = "new"
    /\ pc[t] = "signal" => blinking /\ Launched
    /\ pc[t] \in {"unmark", "join", "wait", "forget"} => stopBlink /\ Started
    /\ pc[t] \in {"join", "wait", "forget"} => ~blinking

Alone == \A t, u \in Threads : InTray(t) /\ InTray(u) => t = u

Blinks ==
    ~clash =>
      /\ Alone
      /\ \A t \in Threads : InTray(t) => Progress(t)
      /\ (\A t \in Threads : ~InTray(t)) => (blinking <=> tray = "error") /\ Steady

(* The image changes with the tray, or by a blink thread that will set it  *)
(* to the tray's state before it ends.                                     *)
LEMMA StepResting ==
  ASSUME TypeOK, Resting, [Next]_vars
  PROVE  Resting'
  <1> USE DEF TypeOK, Resting, app, icon, board
  <1>1. ASSUME UNCHANGED <<tray, image, blinks>>
        PROVE  Resting'
    BY <1>1
  <1>2. ASSUME NEW t \in Threads, TrayStep(t)
        PROVE  Resting'
    <2>1. CASE SetTray(t)
      BY <2>1 DEF SetTray
    <2>2. CASE CreateBlinker(t)
      BY <2>2 DEF CreateBlinker
    <2>3. CASE LaunchBlinker(t)
      BY <2>3 DEF LaunchBlinker
    <2>4. CASE ForgetBlinker(t)
      BY <2>4 DEF ForgetBlinker
    <2>5. QED
      BY <1>1, <1>2, <2>1, <2>2, <2>3, <2>4
         DEF TrayStep, SetState, StartBlink, StopBlink, MarkBlinking, SignalBlinker,
             JoinBlinker, WaitForBlinker, Look
  <1>3. ASSUME NEW b \in BlinkThreads, BlinkChecks(b) \/ BlinkShows(b) \/ BlinkEnds(b)
        PROVE  Resting'
    BY <1>3 DEF BlinkChecks, BlinkShows, BlinkEnds
  <1>4. CASE Pressed \/ UserCopies \/ UNCHANGED vars
    BY <1>1, <1>4 DEF Pressed, UserCopies, vars
  <1>5. ASSUME NEW w \in Workers, SendFails(w) \/ Recover(w) \/ InsertStep(w)
        PROVE  Resting'
    BY <1>1, <1>5 DEF SendFails, Recover, InsertStep, BeginsToInsert, SaveClipboard,
                      CopyText, Paste, RestoreClipboard, LeaveText
  <1>6. QED
    BY <1>2, <1>3, <1>4, <1>5 DEF Next

(* Of two calls that do not overlap, one ends before the other begins.     *)
LEMMA StepBlinks ==
  ASSUME TypeOK, TypeOK', Blinks, [Next]_vars
  PROVE  Blinks'
  <1> SUFFICES ASSUME ~clash' PROVE Blinks'
    BY DEF Blinks
  <1>1. ~clash
    BY Zenon DEF Next, vars, Pressed, TrayStep, SetState, SetTray, StartBlink, StopBlink,
           MarkBlinking, SignalBlinker, CreateBlinker, LaunchBlinker, JoinBlinker,
           WaitForBlinker, ForgetBlinker, Look, SendFails, Recover, InsertStep,
           BeginsToInsert, SaveClipboard, CopyText, Paste, RestoreClipboard, LeaveText,
           BlinkChecks, BlinkShows, BlinkEnds, UserCopies
  <1>2. /\ Alone
        /\ \A t \in Threads : InTray(t) => Progress(t)
        /\ (\A t \in Threads : ~InTray(t)) => (blinking <=> tray = "error") /\ Steady
    BY <1>1 DEF Blinks
  <1>3. ASSUME UNCHANGED icon, NEW t \in Threads, ~InTray(t), ~InTray(t)',
               \A u \in Threads : u # t => pc'[u] = pc[u] \/ (~InTray(u) /\ ~InTray(u)')
        PROVE  Blinks'
    <2>1. \A u \in Threads : InTray(u)' <=> InTray(u)
      BY <1>3 DEF InTray
    <2>2. \A u \in Threads : InTray(u) => pc'[u] = pc[u]
      BY <1>3 DEF InTray
    <2>3. (Launched' <=> Launched) /\ (Quiet' <=> Quiet) /\ (Started' <=> Started)
      BY <1>3 DEF icon, Launched, Quiet, Started
    <2>4. blinking' = blinking /\ tray' = tray /\ stopBlink' = stopBlink
          /\ blinker' = blinker /\ blinks' = blinks
      BY <1>3 DEF icon
    <2>5. Steady' <=> Steady
      BY <2>3, <2>4 DEF Steady
    <2>6. \A u \in Threads : InTray(u)' => Progress(u)'
      BY <1>2, <2>1, <2>2, <2>3, <2>4, <2>5 DEF Progress
    <2>7. Alone'
      BY <1>2, <2>1 DEF Alone
    <2>8. QED
      BY <1>2, <2>1, <2>4, <2>5, <2>6, <2>7 DEF Blinks
  <1>4. ASSUME NEW t \in Threads, SetTray(t)
        PROVE  Blinks'
    <2>1. \A u \in Threads : ~InTray(u)
      BY <1>4, Zenon DEF SetTray
    <2>2. pc[t] = "tray" /\ pc' = [pc EXCEPT ![t] = IF target[t] = "error" THEN "start" ELSE "stop"]
      BY <1>4 DEF SetTray, Goto
    <2>3. \A u \in Threads : InTray(u)' => u = t
      BY <2>1, <2>2 DEF InTray, TypeOK
    <2>4. Steady'
      <3>1. Steady
        BY <1>2, <2>1
      <3>2. QED
        BY <1>4, <3>1 DEF SetTray, Steady, Launched, Quiet
    <2>5. \/ pc'[t] = "start" /\ tray' = "error"
          \/ pc'[t] = "stop" /\ tray' # "error"
      <3>1. tray' = target[t]
        BY <1>4 DEF SetTray
      <3>2. QED
        BY <2>2, <3>1 DEF TypeOK
    <2>6. Progress(t)'
      BY <2>4, <2>5 DEF Progress
    <2>7. InTray(t)'
      BY <2>5 DEF InTray, Setting
    <2>8. QED
      BY <2>3, <2>6, <2>7 DEF Blinks, Alone
  <1>5. ASSUME NEW t \in Threads, InTray(t), \A u \in Threads : InTray(u)' => u = t,
               InTray(t)' => Progress(t)',
               ~InTray(t)' => (blinking' <=> tray' = "error") /\ Steady'
        PROVE  Blinks'
    BY <1>5, Zenon DEF Blinks, Alone
  <1>6. ASSUME NEW t \in Threads, InTray(t), TrayStep(t)
        PROVE  \A u \in Threads : InTray(u)' => u = t
    <2>1. \A u \in Threads : u # t => ~InTray(u)
      BY <1>2, <1>6 DEF Alone
    <2>2. Return(t) \/ \E l \in {"tray", "rest"} \cup Setting : pc' = [pc EXCEPT ![t] = l]
      <3>1. ~SetState(t) /\ ~SetTray(t)
        BY <1>6 DEF InTray, Setting, SetState, SetTray
      <3>2. CASE StartBlink(t) \/ StopBlink(t) \/ JoinBlinker(t)
        BY <3>2 DEF Setting, StartBlink, StopBlink, JoinBlinker, Look, Goto
      <3>3. CASE MarkBlinking(t) \/ SignalBlinker(t) \/ CreateBlinker(t)
        BY <3>3 DEF Setting, MarkBlinking, SignalBlinker, CreateBlinker, Goto
      <3>4. CASE LaunchBlinker(t) \/ WaitForBlinker(t) \/ ForgetBlinker(t)
        BY <3>4 DEF Setting, LaunchBlinker, WaitForBlinker, ForgetBlinker, Look, Goto, Raise
      <3>5. QED
        BY <1>6, <3>1, <3>2, <3>3, <3>4 DEF TrayStep
    <2>3. \A u \in Threads : u # t => pc'[u] = pc[u] \/ pc'[u] \in {"send", "sleep", "rest"}
      BY <2>2 DEF TypeOK, Return
    <2>4. QED
      BY <2>1, <2>3 DEF InTray, Setting
  <1>7. ASSUME NEW t \in Threads, InTray(t), TrayStep(t)
        PROVE  Blinks'
    <2>1. Progress(t) /\ \A u \in Threads : InTray(u)' => u = t
      BY <1>2, <1>6, <1>7
    <2>2. ASSUME Return(t) PROVE ~InTray(t)'
      BY <2>2 DEF Return, TypeOK, InTray, Setting
    <2>3. CASE StartBlink(t)
      <3>1. pc[t] = "start" /\ tray = "error" /\ Steady /\ UNCHANGED icon
        BY <2>1, <2>3 DEF StartBlink, Look, Progress
      <3>2. CASE blinking
        <4>1. ~InTray(t)'
          BY <2>2, <2>3, <3>2 DEF StartBlink, Look
        <4>2. (blinking' <=> tray' = "error") /\ Steady'
          BY <3>1, <3>2 DEF icon, Steady, Launched, Quiet
        <4>3. QED
          BY <1>5, <1>7, <2>1, <4>1, <4>2
      <3>3. CASE ~blinking
        <4>1. pc'[t] = "mark" /\ tray' = "error"
          BY <2>3, <3>1, <3>3 DEF StartBlink, Look, Goto, TypeOK, icon
        <4>2. Progress(t)' /\ InTray(t)'
          BY <4>1 DEF Progress, InTray, Setting
        <4>3. QED
          BY <1>5, <1>7, <2>1, <4>2
      <3>4. QED
        BY <3>2, <3>3
    <2>4. CASE StopBlink(t)
      <3>1. pc[t] = "stop" /\ tray # "error" /\ Steady /\ UNCHANGED icon
        BY <2>1, <2>4 DEF StopBlink, Look, Progress
      <3>2. CASE ~blinking
        <4>1. ~InTray(t)'
          BY <2>2, <2>4, <3>2 DEF StopBlink, Look
        <4>2. (blinking' <=> tray' = "error") /\ Steady'
          BY <3>1, <3>2 DEF icon, Steady, Launched, Quiet
        <4>3. QED
          BY <1>5, <1>7, <2>1, <4>1, <4>2
      <3>3. CASE blinking
        <4>1. pc'[t] = "signal" /\ tray' # "error" /\ blinking' /\ Launched'
          BY <2>4, <3>1, <3>3 DEF StopBlink, Look, Goto, TypeOK, icon, Steady, Launched
        <4>2. Progress(t)' /\ InTray(t)'
          BY <4>1 DEF Progress, InTray, Setting
        <4>3. QED
          BY <1>5, <1>7, <2>1, <4>2
      <3>4. QED
        BY <3>2, <3>3
    <2>5. CASE MarkBlinking(t)
      <3>1. CASE pc[t] = "mark"
        <4>1. pc'[t] = "clear" /\ tray' = "error" /\ blinking'
          BY <2>1, <2>5, <3>1 DEF MarkBlinking, Goto, TypeOK, Progress
        <4>2. Progress(t)' /\ InTray(t)'
          BY <4>1 DEF Progress, InTray, Setting
        <4>3. QED
          BY <1>5, <1>7, <2>1, <4>2
      <3>2. CASE pc[t] = "unmark"
        <4>1. pc'[t] = "join" /\ tray' # "error" /\ ~blinking' /\ stopBlink' /\ Started'
          BY <2>1, <2>5, <3>2 DEF MarkBlinking, Goto, TypeOK, Progress, Started
        <4>2. Progress(t)' /\ InTray(t)'
          BY <4>1 DEF Progress, InTray, Setting
        <4>3. QED
          BY <1>5, <1>7, <2>1, <4>2
      <3>3. QED
        BY <2>5, <3>1, <3>2 DEF MarkBlinking
    <2>6. CASE SignalBlinker(t)
      <3>1. CASE pc[t] = "clear"
        <4>1. pc'[t] = "create" /\ tray' = "error" /\ blinking' /\ ~stopBlink'
          BY <2>1, <2>6, <3>1 DEF SignalBlinker, Goto, TypeOK, Progress
        <4>2. Progress(t)' /\ InTray(t)'
          BY <4>1 DEF Progress, InTray, Setting
        <4>3. QED
          BY <1>5, <1>7, <2>1, <4>2
      <3>2. CASE pc[t] = "signal"
        <4>1. pc'[t] = "unmark" /\ tray' # "error" /\ stopBlink' /\ Started'
          BY <2>1, <2>6, <3>2 DEF SignalBlinker, Goto, TypeOK, Progress, Launched, Started
        <4>2. Progress(t)' /\ InTray(t)'
          BY <4>1 DEF Progress, InTray, Setting
        <4>3. QED
          BY <1>5, <1>7, <2>1, <4>2
      <3>3. QED
        BY <2>6, <3>1, <3>2 DEF SignalBlinker
    <2>7. CASE CreateBlinker(t)
      <3>1. /\ pc'[t] = "launch" /\ tray' = "error" /\ blinking' /\ ~stopBlink'
            /\ blinker' # None /\ blinks'[blinker'] = "new"
        BY <2>1, <2>7 DEF CreateBlinker, Goto, TypeOK, Progress
      <3>2. Progress(t)' /\ InTray(t)'
        BY <3>1 DEF Progress, InTray, Setting
      <3>3. QED
        BY <1>5, <1>7, <2>1, <3>2
    <2>8. CASE LaunchBlinker(t)
      <3>1. /\ blinker # None /\ blinks[blinker] = "new" /\ ~stopBlink /\ blinking
            /\ tray = "error"
        BY <2>1, <2>8 DEF LaunchBlinker, Progress
      <3>2. ~InTray(t)'
        BY <2>2, <2>8, <3>1 DEF LaunchBlinker
      <3>3. blinks' = [blinks EXCEPT ![blinker] = "check"]
            /\ UNCHANGED <<tray, blinking, stopBlink, blinker>>
        BY <2>8, <3>1 DEF LaunchBlinker
      <3>4. (blinking' <=> tray' = "error") /\ Steady'
        BY <3>1, <3>3 DEF TypeOK, Steady, Launched
      <3>5. QED
        BY <1>5, <1>7, <2>1, <3>2, <3>4
    <2>9. CASE JoinBlinker(t)
      <3>1. /\ pc'[t] = "wait" /\ UNCHANGED icon /\ tray # "error"
            /\ ~blinking /\ stopBlink /\ Started
        BY <2>1, <2>9 DEF JoinBlinker, Look, Goto, TypeOK, Progress, Started
      <3>2. Progress(t)' /\ InTray(t)'
        BY <3>1 DEF Progress, InTray, Setting, icon, Started
      <3>3. QED
        BY <1>5, <1>7, <2>1, <3>2
    <2>10. CASE WaitForBlinker(t)
      <3>1. /\ pc'[t] = "forget" /\ UNCHANGED icon /\ tray # "error"
            /\ ~blinking /\ stopBlink /\ Started
        BY <2>1, <2>10 DEF WaitForBlinker, Look, Goto, TypeOK, Progress, Started
      <3>2. Progress(t)' /\ InTray(t)'
        BY <3>1 DEF Progress, InTray, Setting, icon, Started
      <3>3. QED
        BY <1>5, <1>7, <2>1, <3>2
    <2>11. CASE ForgetBlinker(t)
      <3>1. tray # "error" /\ ~blinking /\ stopBlink /\ ~InTray(t)'
        BY <2>1, <2>2, <2>11 DEF ForgetBlinker, Progress
      <3>2. (blinking' <=> tray' = "error") /\ Steady'
        BY <2>11, <3>1 DEF ForgetBlinker, Steady, Quiet
      <3>3. QED
        BY <1>5, <1>7, <2>1, <3>1, <3>2
    <2>12. QED
      BY <1>7, <2>3, <2>4, <2>5, <2>6, <2>7, <2>8, <2>9, <2>10, <2>11
         DEF TrayStep, SetState, SetTray, InTray, Setting
  <1>8. ASSUME NEW b \in BlinkThreads, BlinkChecks(b) \/ BlinkShows(b) \/ BlinkEnds(b)
        PROVE  Blinks'
    <2>1. /\ UNCHANGED app
          /\ tray' = tray /\ blinking' = blinking /\ stopBlink' = stopBlink /\ blinker' = blinker
      BY <1>8, Zenon DEF BlinkChecks, BlinkShows, BlinkEnds
    <2>2. \A t \in Threads : InTray(t)' <=> InTray(t)
      BY <2>1 DEF InTray, app
    <2>3. (Launched => Launched') /\ (Quiet => Quiet') /\ (Started => Started')
      BY <1>8, <2>1 DEF BlinkChecks, BlinkShows, BlinkEnds, TypeOK, Launched, Quiet, Started
    <2>4. Steady => Steady'
      BY <2>1, <2>3, Zenon DEF Steady
    <2>5. ASSUME blinker # None, blinks[blinker] = "new" PROVE blinks'[blinker'] = "new"
      BY <1>8, <2>1, <2>5 DEF BlinkChecks, BlinkShows, BlinkEnds, TypeOK
    <2>6. \A t \in Threads : InTray(t)' => Progress(t)'
      BY <1>2, <2>1, <2>2, <2>3, <2>4, <2>5 DEF Progress, app
    <2>7. QED
      BY <1>2, <2>1, <2>2, <2>4, <2>6 DEF Blinks, Alone
  <1>9. ASSUME NEW t \in Threads, SetState(t)
        PROVE  Blinks'
    BY <1>3, <1>9 DEF SetState, Goto, TypeOK, InTray, Setting
  <1>10. ASSUME NEW w \in Workers, SendFails(w) \/ Recover(w) \/ InsertStep(w)
         PROVE  Blinks'
    <2>1. UNCHANGED icon /\ pc[w] \in {"send", "sleep"} \cup Inserts
      BY <1>10 DEF SendFails, Recover, InsertStep, BeginsToInsert, SaveClipboard,
                   CopyText, Paste, RestoreClipboard, LeaveText, Inserts
    <2>2. \E l \in {"set", "rest"} \cup Inserts : pc' = [pc EXCEPT ![w] = l]
      BY <1>10 DEF SendFails, Recover, InsertStep, BeginsToInsert, SaveClipboard,
                   CopyText, Paste, RestoreClipboard, LeaveText, Inserts, Calls, Goto
    <2>3. QED
      BY <1>3, <2>1, <2>2 DEF TypeOK, InTray, Setting, Inserts
  <1>11. CASE Pressed
    BY <1>3, <1>11 DEF Pressed, Calls, TypeOK, InTray, Setting
  <1>12. CASE UNCHANGED <<app, icon>>
    BY <1>2, <1>12 DEF app, icon, Blinks, Alone, InTray, Progress, Steady, Launched, Quiet,
                       Started
  <1>13. ASSUME NEW t \in Threads, TrayStep(t)
         PROVE  Blinks'
    <2>1. SetState(t) \/ SetTray(t) \/ InTray(t)
      BY <1>13 DEF TrayStep, StartBlink, StopBlink, MarkBlinking, SignalBlinker,
             CreateBlinker, LaunchBlinker, JoinBlinker, WaitForBlinker, ForgetBlinker,
             Look, InTray, Setting
    <2>2. QED
      BY <1>4, <1>7, <1>9, <1>13, <2>1
  <1>14. CASE UserCopies \/ UNCHANGED vars
    BY <1>12, <1>14 DEF UserCopies, vars
  <1>15. QED
    BY <1>8, <1>10, <1>11, <1>13, <1>14 DEF Next

(* At rest the image is that of the tray's state; and as long as no calls  *)
(* have overlapped, it blinks in an error and at no other time.            *)
THEOREM IconIsAlwaysHonest == Spec => []IconIsHonest
  <1> DEFINE IInv == TypeOK /\ Resting /\ Blinks
  <1>1. Init => IInv
    <2> SUFFICES ASSUME Init PROVE IInv
      OBVIOUS
    <2>1. TypeOK
      BY InitTypeOK
    <2>2. Resting
      BY DEF Init, Resting
    <2>3. \A t \in Threads : ~InTray(t)
      BY DEF Init, InTray, Setting
    <2>4. ~blinking /\ tray # "error"
      BY DEF Init
    <2>5. Steady
      BY <2>4 DEF Init, Steady, Quiet
    <2>6. Blinks
      BY <2>3, <2>4, <2>5 DEF Blinks, Alone
    <2>7. QED
      BY <2>1, <2>2, <2>6
  <1>2. IInv /\ [Next]_vars => IInv'
    BY StepTypeOK, StepResting, StepBlinks
  <1>3. IInv => IconIsHonest
    <2> SUFFICES ASSUME IInv PROVE IconIsHonest
      OBVIOUS
    <2>1. (\A b \in BlinkThreads : blinks[b] \in {"none", "new"}) => image = tray
      BY DEF Resting
    <2>2. ASSUME ~clash, \A t \in Threads : ~InTray(t)
          PROVE  (tray = "error") <=> ~stopBlink /\ \E b \in BlinkThreads : blinks[b] # "none"
      <3>1. (blinking <=> tray = "error") /\ Steady
        BY <2>2 DEF Blinks
      <3>2. CASE blinking
        BY <3>1, <3>2 DEF Steady, Launched, TypeOK
      <3>3. CASE ~blinking
        BY <3>1, <3>3 DEF Steady, Quiet
      <3>4. QED
        BY <3>2, <3>3
    <2>3. QED
      BY <2>1, <2>2 DEF IconIsHonest
  <1>4. QED
    BY <1>1, <1>2, <1>3, PTL DEF Spec

(***************************************************************************)
(* Hotkeys.  A backend that has been replaced only finishes.               *)
(***************************************************************************)
Replaced(b) == b # current \/ reload = "build"

Ages ==
    \A b \in Backends :
        /\ at[b] \in {"register", "check", "peek", "callback", "end"} => kind[b] = "win32"
        /\ at[b] \in {"add", "on", "leaked"} => kind[b] = "keyboard_lib"
        /\ at[b] = "leaked" => leaked
        /\ at[b] = "end" => b \in stopped
        /\ at[b] \in {"free", "made"} => held[b] = {}
        /\ Replaced(b) /\ at[b] \notin {"free", "leaked"} =>
              at[b] \in {"check", "callback", "end"} /\ b \in stopped \cap overdue

(* Where the current backend is during a reload.                           *)
Stages ==
    /\ reload # "build" => current # Nothing
    /\ current # Nothing =>
          /\ reload = "start" <=> at[current] = "made"
          /\ reload = "add" <=> at[current] = "add"
          /\ reload \in {"none", "check", "stop"} => at[current] \notin {"free", "end"}
          /\ reload = "check" => kind[current] = "win32"
          /\ reload = "join" => kind[current] = "win32" /\ current \in stopped
          /\ current \in stopped => reload \in {"join", "build"}

(* The current backend was made from the settings.                         *)
Wired == reload \notin {"stop", "join", "build"} => wired[current] = config.keys

(* No callback was under way when the current backend was made.            *)
Serial ==
    /\ running # Nothing => kind[running] = "keyboard_lib"
    /\ ~late => /\ \A b \in Backends : b # current => at[b] \in {"free", "leaked"}
                /\ ~leaked => running \in {Nothing, current}

(* A key that is not held has still to be registered, or is taken.         *)
Covered ==
    ~late /\ current # Nothing /\ at[current] \notin {"free", "end", "leaked"} =>
        /\ \A m \in Modes :
              wired[current][m] \notin foreign \cup {Nothing} =>
                  \/ m \in todo[current]
                  \/ \E n \in held[current] : wired[current][n] = wired[current][m]
        /\ at[current] \in {"check", "peek", "callback", "on"} => todo[current] = {}

USE HotkeysAssumption

LEMMA InitHotkeys ==
  HotkeysInit => HotkeysTypeOK /\ Ages /\ Stages /\ Wired /\ Serial /\ Covered
  <1> SUFFICES ASSUME HotkeysInit
               PROVE  HotkeysTypeOK /\ Ages /\ Stages /\ Wired /\ Serial /\ Covered
    OBVIOUS
  <1>1. late \in BOOLEAN /\ leaked \in BOOLEAN /\ told \in BOOLEAN
    BY Zenon DEF HotkeysInit
  <1>2. HotkeysTypeOK
    BY <1>1 DEF HotkeysInit, HotkeysTypeOK, Configs, Kinds, Keys
  <1>3. QED
    BY <1>2 DEF HotkeysInit, Ages, Stages, Wired, Serial, Covered, Replaced

LEMMA StepHotkeysTypeOK ==
  ASSUME HotkeysTypeOK, Stages, [HotkeysNext]_hotkeys PROVE HotkeysTypeOK'
  <1> USE DEF HotkeysTypeOK, Kinds, Keys, hotkeys, objects, marks, MoveTo
  <1>1. CASE Save
    BY <1>1 DEF Save
  <1>11. CASE Stop
    BY <1>11 DEF Stop, Stages
  <1>12. CASE Join
    BY <1>12 DEF Join, Stages
  <1>13. CASE Start
    BY <1>13 DEF Start
  <1>2. ASSUME NEW b \in Backends, Build(b)
        PROVE  HotkeysTypeOK'
    <2>1. late' \in BOOLEAN /\ leaked' \in BOOLEAN /\ told' \in BOOLEAN
      BY <1>2, Zenon DEF Build
    <2>2. config.kind \in Kinds /\ config.keys \in Keys
      BY DEF Configs
    <2>3. QED
      BY <1>2, <2>1, <2>2 DEF Build
  <1>3. CASE Check
    <2>1. told' = TRUE \/ told' = FALSE
      BY <1>3 DEF Check
    <2>2. told' \in BOOLEAN
      BY <2>1, Zenon
    <2>3. QED
      BY <1>3, <2>2 DEF Check
  <1>4. ASSUME NEW m \in Modes, AddHotkey(m)
        PROVE  HotkeysTypeOK'
    BY <1>4 DEF AddHotkey
  <1>5. CASE Added \/ LibraryRefuses \/ FireEnds
    BY <1>5 DEF Added, LibraryRefuses, FireEnds
  <1>6. ASSUME NEW b \in Backends, NEW m \in Modes, Register(b, m) \/ Fire(b, m)
        PROVE  HotkeysTypeOK'
    <2>1. CASE Register(b, m)
      BY <2>1 DEF Register
    <2>2. CASE Fire(b, m)
      BY <2>2 DEF Fire
    <2>3. QED
      BY <1>6, <2>1, <2>2
  <1>7. ASSUME NEW b \in Backends,
               Registered(b) \/ SeeEvent(b) \/ Peek(b) \/ CallbackEnds(b) \/ End(b)
        PROVE  HotkeysTypeOK'
    BY <1>7 DEF Registered, SeeEvent, Peek, CallbackEnds, End
  <1>8. ASSUME NEW k \in Combos, OtherProgram(k)
        PROVE  HotkeysTypeOK'
    BY <1>8 DEF OtherProgram
  <1>9. CASE UNCHANGED hotkeys
    BY <1>9
  <1>10. QED
    BY <1>1, <1>11, <1>12, <1>13, <1>2, <1>3, <1>4, <1>5, <1>6, <1>7, <1>8, <1>9 DEF HotkeysNext, Reload, Loop

LEMMA StepAges ==
  ASSUME HotkeysTypeOK, Ages, Stages, [HotkeysNext]_hotkeys PROVE Ages'
  <1> USE DEF HotkeysTypeOK, Ages, Replaced, Kinds, hotkeys, objects, marks, MoveTo
  <1>1. CASE Save \/ Stop \/ Join \/ Start
    BY <1>1 DEF Save, Stop, Join, Start, Stages
  <1>2. ASSUME NEW b \in Backends, Build(b)
        PROVE  Ages'
    BY <1>2 DEF Build, Configs, Alive
  <1>3. CASE Check
    BY <1>3 DEF Check
  <1>4. ASSUME NEW m \in Modes, AddHotkey(m)
        PROVE  Ages'
    BY <1>4 DEF AddHotkey, Stages
  <1>5. CASE Added \/ LibraryRefuses \/ FireEnds
    BY <1>5 DEF Added, LibraryRefuses, FireEnds, Stages
  <1>6. ASSUME NEW b \in Backends, NEW m \in Modes, Register(b, m) \/ Fire(b, m)
        PROVE  Ages'
    BY <1>6 DEF Register, Fire
  <1>7. ASSUME NEW b \in Backends,
               Registered(b) \/ SeeEvent(b) \/ Peek(b) \/ CallbackEnds(b) \/ End(b)
        PROVE  Ages'
    BY <1>7 DEF Registered, SeeEvent, Peek, CallbackEnds, End
  <1>8. ASSUME NEW k \in Combos, OtherProgram(k)
        PROVE  Ages'
    BY <1>8 DEF OtherProgram
  <1>9. CASE UNCHANGED hotkeys
    BY <1>9
  <1>10. QED
    BY <1>1, <1>2, <1>3, <1>4, <1>5, <1>6, <1>7, <1>8, <1>9 DEF HotkeysNext, Reload, Loop

LEMMA StepStages ==
  ASSUME HotkeysTypeOK, Ages, Stages, [HotkeysNext]_hotkeys PROVE Stages'
  <1> USE DEF HotkeysTypeOK, Stages, Replaced, Kinds, hotkeys, objects, marks, MoveTo
  <1>1. CASE Save \/ Stop \/ Join \/ Start
    BY <1>1 DEF Save, Stop, Join, Start, Ages
  <1>2. ASSUME NEW b \in Backends, Build(b)
        PROVE  Stages'
    BY <1>2 DEF Build, Configs, Alive
  <1>3. CASE Check
    BY <1>3 DEF Check
  <1>4. ASSUME NEW m \in Modes, AddHotkey(m)
        PROVE  Stages'
    BY <1>4 DEF AddHotkey
  <1>5. CASE Added \/ LibraryRefuses \/ FireEnds
    BY <1>5 DEF Added, LibraryRefuses, FireEnds
  <1>6. ASSUME NEW b \in Backends, NEW m \in Modes, Register(b, m) \/ Fire(b, m)
        PROVE  Stages'
    BY <1>6 DEF Register, Fire
  <1>7. ASSUME NEW b \in Backends,
               Registered(b) \/ SeeEvent(b) \/ Peek(b) \/ CallbackEnds(b) \/ End(b)
        PROVE  Stages'
    BY <1>7 DEF Registered, SeeEvent, Peek, CallbackEnds, End, Ages
  <1>8. ASSUME NEW k \in Combos, OtherProgram(k)
        PROVE  Stages'
    BY <1>8 DEF OtherProgram
  <1>9. CASE UNCHANGED hotkeys
    BY <1>9
  <1>10. QED
    BY <1>1, <1>2, <1>3, <1>4, <1>5, <1>6, <1>7, <1>8, <1>9 DEF HotkeysNext, Reload, Loop

LEMMA StepWiredSerial ==
  ASSUME HotkeysTypeOK, Ages, Stages, Wired, Serial, [HotkeysNext]_hotkeys PROVE Wired' /\ Serial'
  <1> USE DEF HotkeysTypeOK, Stages, Wired, Serial, Replaced, Kinds, hotkeys, objects, marks, MoveTo
  <1>1. CASE Save \/ Stop \/ Join \/ Start
    BY <1>1 DEF Save, Stop, Join, Start, Ages
  <1>2. ASSUME NEW b \in Backends, Build(b)
        PROVE  Wired' /\ Serial'
    BY <1>2 DEF Build, Configs, Alive, Ages
  <1>3. CASE Check
    BY <1>3 DEF Check
  <1>4. ASSUME NEW m \in Modes, AddHotkey(m)
        PROVE  Wired' /\ Serial'
    BY <1>4 DEF AddHotkey
  <1>5. CASE Added \/ LibraryRefuses \/ FireEnds
    BY <1>5 DEF Added, LibraryRefuses, FireEnds
  <1>6. ASSUME NEW b \in Backends, NEW m \in Modes, Register(b, m) \/ Fire(b, m)
        PROVE  Wired' /\ Serial'
    BY <1>6 DEF Register, Fire, Ages
  <1>7. ASSUME NEW b \in Backends,
               Registered(b) \/ SeeEvent(b) \/ Peek(b) \/ CallbackEnds(b) \/ End(b)
        PROVE  Wired' /\ Serial'
    BY <1>7 DEF Registered, SeeEvent, Peek, CallbackEnds, End, Ages
  <1>8. ASSUME NEW k \in Combos, OtherProgram(k)
        PROVE  Wired' /\ Serial'
    BY <1>8 DEF OtherProgram
  <1>9. CASE UNCHANGED hotkeys
    BY <1>9
  <1>10. QED
    BY <1>1, <1>2, <1>3, <1>4, <1>5, <1>6, <1>7, <1>8, <1>9 DEF HotkeysNext, Reload, Loop

LEMMA StepCovered ==
  ASSUME HotkeysTypeOK, Ages, Stages, Serial, Covered, [HotkeysNext]_hotkeys PROVE Covered'
  <1> USE DEF HotkeysTypeOK, Stages, Covered, Kinds, hotkeys, objects, marks, MoveTo
  <1>1. CASE Save \/ Stop \/ Join \/ Start
    BY <1>1 DEF Save, Stop, Join, Start, Ages
  <1>2. ASSUME NEW b \in Backends, Build(b)
        PROVE  Covered'
    BY <1>2 DEF Build, Configs, Alive, Ages, Keys
  <1>3. CASE Check
    BY <1>3 DEF Check
  <1>4. ASSUME NEW m \in Modes, AddHotkey(m)
        PROVE  Covered'
    BY <1>4 DEF AddHotkey
  <1>5. CASE Added \/ LibraryRefuses \/ FireEnds
    BY <1>5 DEF Added, LibraryRefuses, FireEnds
  <1>6. ASSUME NEW b \in Backends, NEW m \in Modes, Register(b, m)
        PROVE  Covered'
    BY <1>6 DEF Register, Taken, Ages, Serial
  <1>7. ASSUME NEW b \in Backends,
               Registered(b) \/ SeeEvent(b) \/ Peek(b) \/ CallbackEnds(b) \/ End(b)
        PROVE  Covered'
    BY <1>7 DEF Registered, SeeEvent, Peek, CallbackEnds, End, Ages
  <1>8. ASSUME NEW k \in Combos, OtherProgram(k)
        PROVE  Covered'
    BY <1>8 DEF OtherProgram
  <1>9. ASSUME NEW b \in Backends, NEW m \in Modes, Fire(b, m)
        PROVE  Covered'
    BY <1>9 DEF Fire
  <1>10. CASE UNCHANGED hotkeys
    BY <1>10
  <1>11. QED
    BY <1>1, <1>2, <1>3, <1>4, <1>5, <1>6, <1>7, <1>8, <1>9, <1>10 DEF HotkeysNext, Reload, Loop
(***************************************************************************)
(* The properties of the run.                                              *)
(***************************************************************************)
HotkeysInv == HotkeysTypeOK /\ Ages /\ Stages /\ Wired /\ Serial /\ Covered

LEMMA HotkeysInvariant == HotkeysSpec => []HotkeysInv
  <1>1. HotkeysInit => HotkeysInv
    BY InitHotkeys DEF HotkeysInv
  <1>2. HotkeysInv /\ [HotkeysNext]_hotkeys => HotkeysInv'
    BY StepHotkeysTypeOK, StepAges, StepStages, StepWiredSerial, StepCovered DEF HotkeysInv
  <1>3. QED
    BY <1>1, <1>2, PTL DEF HotkeysSpec

(* Every variable of the hotkeys keeps its type.                           *)
THEOREM HotkeysTypeCorrect == HotkeysSpec => []HotkeysTypeOK
  <1>1. HotkeysInv => HotkeysTypeOK
    BY DEF HotkeysInv
  <1>2. QED
    BY <1>1, HotkeysInvariant, PTL

(* However many backends are still at work, once the old one is stopped    *)
(* only the current one answers, with the mode that is configured: a       *)
(* replaced one is never between the look at its event and the messages.   *)
THEOREM KeysAlwaysFollowConfig == HotkeysSpec => []KeysFollowConfig
  <1>1. HotkeysInv => KeysFollowConfig
    BY DEF HotkeysInv, KeysFollowConfig, Takes, HotkeysTypeOK, Kinds, Ages, Stages, Wired, Replaced
  <1>2. QED
    BY <1>1, HotkeysInvariant, PTL

(* Unless a callback outlasts the reload, every configured key that is not *)
(* taken works.                                                            *)
THEOREM ConfiguredKeysAlwaysWork == HotkeysSpec => []ConfiguredKeysWork
  <1>1. HotkeysInv => ConfiguredKeysWork
    BY DEF HotkeysInv, ConfiguredKeysWork, HotkeysTypeOK, Configs, Keys, Stages, Wired, Covered
  <1>2. QED
    BY <1>1, HotkeysInvariant, PTL

(* Unless one outlasts a reload, or the library has kept hotkeys, callbacks *)
(* never overlap: no more than one backend can be in one.                  *)
THEOREM CallbacksNeverOverlap == HotkeysSpec => []CallbacksDoNotOverlap
  <1>1. ASSUME HotkeysInv
        PROVE  CallbacksDoNotOverlap
    <2> DEFINE Busy == {b \in Backends : at[b] = "callback" \/ running = b}
    <2>1. SUFFICES ASSUME ~late, ~leaked
                   PROVE  Cardinality(Busy) <= 1
      BY DEF CallbacksDoNotOverlap
    <2>2. \A b \in Busy : b = current
      BY <1>1, <2>1 DEF HotkeysInv, HotkeysTypeOK, Serial
    <2>3. Busy = {} \/ Busy = {current}
      BY <2>2
    <2> HIDE DEF Busy
    <2>4. Cardinality({}) = 0 /\ Cardinality({current}) = 1
      BY FS_EmptySet, FS_Singleton, Zenon
    <2>5. QED
      BY <2>3, <2>4
  <1>2. QED
    BY <1>1, HotkeysInvariant, PTL
=============================================================================
