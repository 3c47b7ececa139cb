-------------------------------- MODULE Window --------------------------------
(***************************************************************************)
(* The window's input: the message procedure, meOSTick, the capture of the  *)
(* cursor (platform/windows/me_os_win.cpp), the keyboard and mouse state    *)
(* (platform/me_input.cpp) and the camera that consumes it                  *)
(* (render/me_camera.cpp).                                                  *)
(*                                                                          *)
(* Windows is external: it posts a message for each key, button and motion  *)
(* while the window has the focus, in order, posts nothing for a key that   *)
(* is let go elsewhere, and posts no button messages while raw input is     *)
(* registered with RIDEV_NOLEGACY. Buttons are kept with the keys; a        *)
(* position or a motion is one value.                                       *)
(***************************************************************************)
EXTENDS Integers, Sequences, FiniteSets

CONSTANTS Keys,       \* the keys of the model, mouse buttons included
          Buttons,    \* the mouse buttons among them
          MaxQueue,   \* bound: messages waiting
          MaxShow     \* bound: ShowCursor's counter, either way

VARIABLES phys,   \* what the user holds, and whether the window has the focus
          queue,  \* messages posted to the window
          in,     \* OSStateView's keyboard and mouse state
          cur,    \* the cursor: ShowCursor's counter, capture, failed calls
          frame   \* where the main thread is, and whether it runs on

vars == <<phys, queue, in, cur, frame>>

Post(m) == /\ Len(queue) < MaxQueue
           /\ queue' = Append(queue, m)

\* meOSSetCursorState(CAPTURED): raw input is in use when it could be registered;
\* the cursor is captured and hidden either way.
Captured(i, c, ok) == [in |-> [i EXCEPT !.raw = ok],
                       cur |-> [c EXCEPT !.show = @ - 1, !.capture = TRUE, !.failed = @ \/ ~ok]]

\* meOSSetCursorState(FREE): ReleaseCapture sends WM_CAPTURECHANGED at once, whose
\* handler frees the cursor again when raw input is still in use.
Freed(i, c, ok) ==
    LET again == c.capture /\ i.raw /\ ~ok IN
    [in |-> [i EXCEPT !.raw = i.raw /\ ~ok],
     cur |-> [c EXCEPT !.show = @ + (IF again THEN 2 ELSE 1), !.capture = FALSE,
                       !.failed = @ \/ ~ok]]

\* meOSCreateWindow, then InitializeEngine captures the cursor.
Init == /\ phys = [keys |-> {}, focus |-> TRUE, iconic |-> FALSE]
        /\ queue = <<>>
        /\ LET none == [keys |-> {}, prevKeys |-> {}, raw |-> FALSE, delta |-> 0]
               arrow == [show |-> 0, capture |-> FALSE, failed |-> FALSE]
               start == {Captured(none, arrow, ok) : ok \in BOOLEAN}
           IN \E s \in start : in = s.in /\ cur = s.cur
        /\ frame = [at |-> "work", running |-> TRUE]

-----------------------------------------------------------------------------
(* The user and Windows. *)

\* A held key repeats. A captured cursor's buttons go to raw input.
Posts(k, m) == IF phys.focus /\ ~(k \in Buttons /\ in.raw) THEN Post(<<m, k>>) ELSE UNCHANGED queue

PressKey(k) == /\ phys.focus /\ (k \in Buttons => k \notin phys.keys)
               /\ Posts(k, "keydown")
               /\ phys' = [phys EXCEPT !.keys = @ \union {k}]
               /\ UNCHANGED <<in, cur, frame>>

ReleaseKey(k) == /\ k \in phys.keys
                 /\ phys' = [phys EXCEPT !.keys = @ \ {k}]
                 /\ Posts(k, "keyup")
                 /\ UNCHANGED <<in, cur, frame>>

Motion == /\ phys.focus /\ in.raw /\ Post(<<"input">>)
          /\ UNCHANGED <<phys, in, cur, frame>>

LoseFocus == /\ phys.focus /\ Post(<<"killfocus">>)
             /\ phys' = [phys EXCEPT !.focus = FALSE]
             /\ UNCHANGED <<in, cur, frame>>

GainFocus == /\ ~phys.focus
             /\ phys' = [phys EXCEPT !.focus = TRUE]
             /\ UNCHANGED <<queue, in, cur, frame>>

\* Another window takes the capture.
TakeCapture == /\ cur.capture /\ Post(<<"capturechanged">>)
               /\ cur' = [cur EXCEPT !.capture = FALSE]
               /\ UNCHANGED <<phys, in, frame>>

Close == /\ phys.focus /\ Post(<<"quit">>)
         /\ UNCHANGED <<phys, in, cur, frame>>

-----------------------------------------------------------------------------
(* meOSTick *)

\* MouseInputTick and KeyboardInputTick run before the messages are read.
TickBegin == /\ frame.at = "work" /\ frame.running
             /\ in' = [in EXCEPT !.prevKeys = in.keys]
             /\ frame' = [frame EXCEPT !.at = "pump"]
             /\ UNCHANGED <<phys, queue, cur>>

\* WM_KILLFOCUS, mutant: only the keys of the frame before are forgotten.
ForgetPrevious(i) == [i EXCEPT !.prevKeys = {}]

ForgetInput(i) == [i EXCEPT !.keys = {}, !.prevKeys = {}]

\* What WndProc does to the input state for a message that frees no cursor.
Handled(i, m) ==
    CASE m[1] = "keydown" -> [i EXCEPT !.keys = @ \union {m[2]}]
      [] m[1] = "keyup" -> [i EXCEPT !.keys = @ \ {m[2]}]
      [] m[1] = "input" -> IF i.raw THEN [i EXCEPT !.delta = 1] ELSE i
      [] m[1] = "killfocus" -> ForgetInput(i)
      [] OTHER -> i

Dispatch == /\ frame.at = "pump" /\ queue # <<>>
            /\ queue' = Tail(queue)
            /\ IF Head(queue)[1] = "capturechanged" /\ in.raw
               THEN \E ok \in BOOLEAN : LET s == Freed(in, cur, ok) IN in' = s.in /\ cur' = s.cur
               ELSE in' = Handled(in, Head(queue)) /\ UNCHANGED cur
            /\ cur'.show \in -MaxShow .. MaxShow
            /\ frame' = [frame EXCEPT !.running = @ /\ Head(queue)[1] # "quit"]
            /\ UNCHANGED phys

\* A minimise command of the user, carried out while messages are dispatched.
Minimise == /\ frame.at = "pump" /\ phys.focus
            /\ phys' = [phys EXCEPT !.iconic = TRUE]
            /\ UNCHANGED <<queue, in, cur, frame>>

JustPressed(k) == k \in in.keys /\ k \notin in.prevKeys

\* Mutant: the cursor is freed by every TAB.
TabFrees == IF JustPressed("tab")
            THEN \E ok \in BOOLEAN : LET s == Freed(in, cur, ok) IN in' = s.in /\ cur' = s.cur
            ELSE UNCHANGED <<in, cur>>

\* TAB captures the cursor when raw input is not in use and frees it when it is.
TabToggles ==
    IF JustPressed("tab")
    THEN \E ok \in BOOLEAN :
            LET s == IF in.raw THEN Freed(in, cur, ok) ELSE Captured(in, cur, ok)
            IN in' = s.in /\ cur' = s.cur
    ELSE UNCHANGED <<in, cur>>

\* With the queue empty; a minimised window sleeps here and reads no more messages.
TickEnd == /\ frame.at = "pump" /\ queue = <<>> /\ ~phys.iconic
           /\ frame' = [at |-> "camera", running |-> frame.running /\ "escape" \notin in.keys]
           /\ TabToggles
           /\ cur'.show \in -MaxShow .. MaxShow
           /\ UNCHANGED <<phys, queue>>

\* UpdateCameraWithUserInput consumes the motion unless the editor blocks input.
MoveCamera == /\ frame.at = "camera"
              /\ \E blocked \in BOOLEAN :
                    in' = [in EXCEPT !.delta = IF blocked THEN @ ELSE 0]
              /\ frame' = [frame EXCEPT !.at = "work"]
              /\ UNCHANGED <<phys, queue, cur>>

Next == \/ \E k \in Keys : PressKey(k) \/ ReleaseKey(k)
        \/ Motion \/ LoseFocus \/ GainFocus \/ TakeCapture \/ Close
        \/ TickBegin \/ Dispatch \/ Minimise \/ TickEnd \/ MoveCamera

-----------------------------------------------------------------------------
TypeOK == /\ in.keys \subseteq Keys /\ in.prevKeys \subseteq Keys
          /\ Len(queue) <= MaxQueue
          /\ frame.at \in {"work", "pump", "camera"}

\* A key the program takes for held is held, or the message that says otherwise
\* is on its way: focus lost with keys down leaves none of them stuck.
NoStuckKeys ==
    \A k \in in.keys \ Buttons :
        \/ k \in phys.keys
        \/ \E n \in 1 .. Len(queue) : queue[n] \in {<<"keyup", k>>, <<"killfocus">>}

\* ShowCursor counts: hides and shows balance, so that the cursor is hidden
\* exactly while raw input is in use, unless a registration failed.
CursorHiddenWhileRaw == ~cur.failed => cur.show = (IF in.raw THEN -1 ELSE 0)
=============================================================================
