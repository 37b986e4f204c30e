-------------------------- MODULE TerminalSelection --------------------------
(***************************************************************************)
(* Selecting text with the mouse (terminal-runtime.cpp): press, drag, a drag that  *)
(* scrolls, release, and everything that can interrupt it.                      *)
(*                                                                         *)
(* The pointer is at a row of the view, or above or below it.  A scrolled view is  *)
(* painted later: until then a hit test answers for the rows that are shown, so    *)
(* the end of the selection, also its last one, waits for the painting.          *)
(***************************************************************************)
EXTENDS Integers

CONSTANTS None, Rows, History   \* rows of the view, rows scrolled out above it

ASSUME SelectionAssumption == Rows \in Nat \ {0} /\ History \in Nat

VARIABLES
  phase,      \* selection_phase
  press,      \* where the button went down: the row of the view
  pointer,    \* selection_pointer
  waits,      \* selection_scroll_pending, selection_release_pending
  leftDown,   \* selection_left_down
  timer,      \* selection_scroll_source
  held,       \* selection_event_window: motion is delivered uncompressed
  position,   \* the scroll position, and the one that is painted
  selection,  \* of the view: rows of the text from its anchor to its end, or stale
  copied,     \* history: the end of what was copied last, and where the user let go
  down        \* history: the button is really down

gesture == <<phase, press, pointer, waits, leftDown, timer, held>>
mouse == <<gesture, position, selection, copied, down>>

Ys == -1..Rows
Clamped(y) == IF y < 0 THEN 0 ELSE IF y >= Rows THEN Rows - 1 ELSE y
TextRows == 0..(History + Rows - 1)
Quiet == [scroll |-> FALSE, release |-> FALSE]
Selecting == phase \in {"pending", "dragging"}

SelectionTypeOK ==
  /\ phase \in {"idle", "pending", "dragging", "cancelled"}
  /\ press \in 0..(Rows - 1) \cup {None} /\ pointer \in Ys \cup {None}
  /\ waits \in [scroll : BOOLEAN, release : BOOLEAN]
  /\ leftDown \in BOOLEAN /\ timer \in BOOLEAN /\ held \in BOOLEAN /\ down \in BOOLEAN
  /\ position \in [set : 0..History, shown : 0..History]
  /\ selection \in [anchor : TextRows, end : TextRows, stale : BOOLEAN]
  /\ copied \in [is : TextRows, asked : TextRows]

SelectionInit ==
  /\ phase = "idle" /\ press = None /\ pointer = None /\ waits = Quiet
  /\ leftDown = FALSE /\ timer = FALSE /\ held = FALSE /\ down = FALSE
  /\ position = [set |-> History, shown |-> History]
  /\ selection = [anchor |-> 0, end |-> 0, stale |-> FALSE]
  /\ copied = [is |-> 0, asked |-> 0]

\* cancel_selection_gesture; pressed says whether the button counts as down.
Cancels(pressed) ==
  /\ phase' = IF Selecting THEN IF pressed THEN "cancelled" ELSE "idle" ELSE phase
  /\ press' = None /\ pointer' = None /\ waits' = Quiet /\ timer' = FALSE
  /\ copied' = [copied EXCEPT !.asked = copied.is]
CancelGesture == Cancels(leftDown) /\ held' = FALSE /\ UNCHANGED <<leftDown, position, selection>>

\* update_selection_endpoint: the row under the pointer in what is shown.
EndAt(y) == [selection EXCEPT !.end = position.shown + Clamped(y)]
\* selection_scroll_step: the direction in which a drag outside of the view scrolls.
Step(dragging, y, w, at) ==
  IF ~dragging \/ w # Quiet \/ y = None THEN 0
  ELSE IF y < 0 /\ at > 0 THEN -1
  ELSE IF y >= Rows /\ at < History THEN 1 ELSE 0

\* finish_selection
Finishes(end) ==
  /\ phase' = "idle" /\ timer' = FALSE /\ waits' = Quiet /\ copied' = [copied EXCEPT !.is = end.end]

\* scroll_selection: the rest waits until the new rows are painted.
Scrolls(by) ==
  LET to == position.set + by IN
  IF to \in 0..History
  THEN /\ position' = [position EXCEPT !.set = to]
       /\ timer' = FALSE /\ waits' = [waits EXCEPT !.scroll = TRUE]
  ELSE UNCHANGED <<position, timer, waits>>

-----------------------------------------------------------------------------
(* Events, as route_mouse gets them behind selection_native_event.            *)

\* A first press; a press that selects a word or a line at once.  It is the terminal's, or
\* the host's, unless taken.
Press(y, taken, multiple) ==
  /\ down' = TRUE /\ leftDown' = TRUE
  /\ IF Selecting /\ ~waits.release
     THEN held' = TRUE /\ UNCHANGED <<phase, press, pointer, waits, timer, position, selection, copied>>
     ELSE IF ~taken
     THEN /\ phase' = "idle" /\ held' = TRUE /\ waits' = Quiet /\ timer' = FALSE
          /\ press' = None /\ pointer' = IF waits.release THEN None ELSE pointer
          /\ copied' = [copied EXCEPT !.asked = copied.is] /\ UNCHANGED <<position, selection>>
     ELSE /\ phase' = IF multiple THEN "dragging" ELSE "pending"
          /\ press' = (IF multiple THEN None ELSE y) /\ pointer' = y
          /\ waits' = Quiet /\ timer' = FALSE /\ held' = TRUE
          /\ selection' = [anchor |-> position.shown + y, end |-> position.shown + y, stale |-> FALSE]
          /\ copied' = [copied EXCEPT !.asked = copied.is] /\ UNCHANGED position
LeftPress ==
  /\ ~down /\ \E y \in 0..(Rows - 1), taken, multiple \in BOOLEAN : Press(y, taken, multiple)

\* What was pressed or selected is not there any more: refresh_selection_press finds other
\* text below the press, or the view says so.
Stale == selection.stale \/ (phase = "pending" /\ position.shown + press # selection.anchor)
\* What motion and release do to a drag.  A selection that is stale is refused.
Drags(y, release) ==
  LET end == IF waits.scroll THEN selection ELSE EndAt(y)
      w == [waits EXCEPT !.release = release]
      shows == IF waits.scroll THEN position.set ELSE position.shown
      Asks(c) == IF release THEN [c EXCEPT !.asked = shows + Clamped(y)] ELSE c
  IN
  /\ selection' = end /\ pointer' = y
  /\ IF release /\ ~waits.scroll
     THEN phase' = "idle" /\ timer' = FALSE /\ waits' = Quiet /\ copied' = [Asks(copied) EXCEPT !.is = end.end]
     ELSE /\ phase' = "dragging" /\ waits' = w /\ copied' = Asks(copied)
          /\ timer' = (Step(TRUE, y, w, position.set) # 0)
DragRefused(y) == Stale /\ ((phase = "pending" /\ y # press) \/ (phase = "dragging" /\ ~waits.scroll))
\* A press becomes a drag when the pointer leaves it and its text is still there.
PointerMoves(y, release) ==
  CASE phase = "cancelled" ->
         /\ phase' = IF release THEN "idle" ELSE phase
         /\ UNCHANGED <<press, pointer, waits, timer, selection, copied>>
    [] phase = "pending" /\ y = press ->
         /\ phase' = (IF release THEN "idle" ELSE phase) /\ press' = (IF release THEN None ELSE press)
         /\ UNCHANGED <<pointer, waits, timer, selection, copied>>
    [] DragRefused(y) -> Cancels(leftDown') /\ UNCHANGED selection
    [] phase = "pending" /\ y # press /\ ~DragRefused(y) -> press' = None /\ Drags(y, release)
    [] phase = "dragging" /\ ~(waits.release /\ ~release) /\ ~DragRefused(y) -> Drags(y, release) /\ UNCHANGED press
    [] OTHER -> UNCHANGED <<phase, press, pointer, waits, timer, selection, copied>>
Motion ==
  /\ phase # "idle" /\ leftDown' = leftDown /\ \E y \in Ys : PointerMoves(y, FALSE) /\ held' = (held /\ ~DragRefused(y))
  /\ UNCHANGED <<position, down>>
\* Whatever becomes of the release, the motion is compressed again.
LeftRelease ==
  /\ down /\ down' = FALSE /\ leftDown' = FALSE /\ held' = FALSE
  /\ \E y \in Ys : PointerMoves(y, TRUE)
  /\ UNCHANGED position
\* The release goes to another window.
ReleaseLost == down /\ down' = FALSE /\ UNCHANGED <<gesture, position, selection, copied>>

\* The wheel while dragging scrolls by itself.
Wheel ==
  /\ phase = "dragging" /\ ~waits.release
  /\ \E y \in Ys, by \in {-1, 1} : pointer' = y /\ Scrolls(by)
  /\ UNCHANGED <<phase, press, leftDown, held, selection, copied, down>>
\* Another button, the loss of the focus or of the grab, an unmapped widget, Escape.
Interrupts == Selecting /\ CancelGesture /\ UNCHANGED down

\* Output, a resize, another connection.
TextChanges == Selecting /\ ~selection.stale
               /\ selection' = [selection EXCEPT !.stale = TRUE]
               /\ UNCHANGED <<gesture, position, copied, down>>

-----------------------------------------------------------------------------
(* The timer, the painting and the frames.                                   *)

Invalid == Selecting /\ Stale
\* selection_scroll_tick
Tick ==
  /\ timer
  /\ IF Invalid THEN CancelGesture
     ELSE /\ LET by == Step(phase = "dragging", pointer, waits, position.set)
             IN  IF by # 0 THEN Scrolls(by) ELSE timer' = FALSE /\ UNCHANGED <<position, waits>>
          /\ UNCHANGED <<phase, press, pointer, leftDown, held, selection, copied>>
  /\ UNCHANGED down
\* The rows of the position are painted.
Paint ==
  /\ position.shown # position.set /\ position' = [position EXCEPT !.shown = position.set]
  /\ UNCHANGED <<gesture, selection, copied, down>>
\* Fault: the end is taken as soon as the view was told to scroll.
AtOnce == TRUE
Painted == position.shown = position.set
\* update_scrolled_selection, from a frame or from observe_presentation.
Resume ==
  /\ waits.scroll /\ Painted
  /\ LET end == EndAt(pointer) w == [waits EXCEPT !.scroll = FALSE] IN
     IF selection.stale THEN CancelGesture
     ELSE /\ selection' = end
          /\ IF waits.release THEN Finishes(end)
             ELSE /\ waits' = w /\ timer' = (Step(phase = "dragging", pointer, w, position.set) # 0)
                  /\ UNCHANGED <<phase, copied>>
          /\ UNCHANGED <<press, pointer, leftDown, held, position>>
  /\ UNCHANGED down
\* validate_selection_gesture at the end of a frame.
Validates == Invalid /\ CancelGesture /\ UNCHANGED down

SelectionNext ==
  \/ LeftPress \/ Motion \/ LeftRelease \/ ReleaseLost \/ Wheel \/ Interrupts \/ TextChanges
  \/ Tick \/ Paint \/ Resume \/ Validates

-----------------------------------------------------------------------------
(* Properties.                                                             *)

\* What is copied ends where the user let go, though the rows under the pointer were
\* painted only afterwards.
CopyExact == ~waits.release => copied.is = copied.asked

\* A release waits only for a painting that is to come; the timer runs only for a drag
\* that waits for nothing; motion is uncompressed only while the button counts as down.
WaitsSound ==
  /\ waits.release => phase = "dragging" /\ waits.scroll /\ ~leftDown
  /\ waits.scroll => phase = "dragging"
  /\ timer => phase = "dragging" /\ waits = Quiet
  /\ held => leftDown
  /\ phase \in {"pending", "cancelled"} => leftDown

SelectionSound == SelectionTypeOK /\ CopyExact /\ WaitsSound

\* A selection that was let go is copied or given up.
ReleaseEnds == waits.release ~> ~waits.release
SelectionProgress == WF_mouse(Paint) /\ WF_mouse(Resume) /\ WF_mouse(Validates)
SelectionSpec == SelectionInit /\ [][SelectionNext]_mouse /\ SelectionProgress
=============================================================================
