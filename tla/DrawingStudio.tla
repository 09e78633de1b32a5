---------------------------- MODULE DrawingStudio ----------------------------
(***************************************************************************)
(* The drawings of the XMI2 chart studio: the collection with its undo and *)
(* redo (src/public/xmi2/xmi2-chart-studio.js) and the layer of the chart  *)
(* in focus, which makes drawings of clicks and drags                      *)
(* (xmi2-drawing-layer.js).  Keys work during a drag: a drawing may be     *)
(* deleted, or an edit undone, while it is held.                           *)
(***************************************************************************)
EXTENDS Integers, Sequences

CONSTANTS
  Shapes,        \* where a drawing's anchors may lie
  Foreign,       \* the collections of the files that may be imported
  MaxDrawings,   \* MAX_DRAWINGS
  MaxPoints,     \* MAX_POINTS of a freehand drawing
  UndoLimit,     \* 50
  FirstId, LastId, MaxSaves   \* bounds of the model: fresh ids and saved edits

VARIABLES drawings, selected, past, future, layer, stored, private, lastId, saves

studioVars == <<drawings, selected, past, future, layer, stored, private, lastId, saves>>

NoId == 0
Clicks == [line |-> 2, label |-> 1]
Tools == {"none", "edit", "freehand"} \cup DOMAIN Clicks

NoDrag == [kind |-> "none", id |-> NoId, preview |-> {}]
Idle == [mode |-> "none", pending |-> 0, drag |-> NoDrag]

\* Sequences as stacks: what is on top, what is below it, and the whole upside down.
Top(s) == s[Len(s)]
Rest(s) == SubSeq(s, 1, Len(s) - 1)
Turned(s) == [n \in 1..Len(s) |-> s[Len(s) + 1 - n]]

Ids(collection) == {collection[n].id : n \in DOMAIN collection}

\* validate: each drawing has an id of its own, and there are not too many.
Valid(collection) ==
  /\ Len(collection) <= MaxDrawings
  /\ NoId \notin Ids(collection)
  /\ \A m, n \in DOMAIN collection : collection[m].id = collection[n].id => m = n

\* What is imported was validated, and so was what is loaded.
ASSUME DrawingsAssumption ==
  /\ \A c \in Foreign : c \in Seq([id : Nat, shape : Shapes]) /\ Valid(c)
  /\ MaxDrawings \in Nat /\ MaxPoints \in Nat \ {0} /\ UndoLimit \in Nat
  /\ FirstId \in Nat /\ LastId \in Nat /\ FirstId <= LastId

StudioInit ==
  /\ drawings \in Foreign /\ stored = drawings /\ private \in BOOLEAN
  /\ selected = NoId /\ past = <<>> /\ future = <<>>
  /\ layer = Idle
  /\ lastId = FirstId /\ saves = 0

\* The last n elements of s.
Newest(n, s) == SubSeq(s, Len(s) - (IF Len(s) < n THEN Len(s) ELSE n) + 1, Len(s))

\* safeStorage: private mode keeps nothing.
Store == stored' = (IF private THEN stored ELSE drawings') /\ UNCHANGED private

\* saveState: what is not valid throws, before anything changed.
SaveState(next, id) ==
  /\ Valid(next) /\ saves < MaxSaves
  /\ drawings' = next /\ selected' = id
  /\ past' = Newest(UndoLimit, Append(past, drawings)) /\ future' = <<>>
  /\ Store /\ saves' = saves + 1

\* saveOne: in the place of the drawing of that id, else at the end, if there is room.
With(d) ==
  LET places == {n \in DOMAIN drawings : drawings[n].id = d.id}
  IN  [n \in DOMAIN drawings \cup (IF places = {} THEN {Len(drawings) + 1} ELSE {}) |->
         IF n \in places \/ n > Len(drawings) THEN d ELSE drawings[n]]

\* The collection without the drawing of this id; no two have the same.
Without(collection, id) ==
  LET place == CHOOSE n \in DOMAIN collection : collection[n].id = id
  IN  IF id \notin Ids(collection) THEN collection
      ELSE SubSeq(collection, 1, place - 1) \o SubSeq(collection, place + 1, Len(collection))

Saves(d) == SaveState(With(d), d.id)
Keeps == UNCHANGED <<drawings, selected, past, future, stored, private, saves>>

\* The error of an edit that cannot be saved is shown, and all stays as it is.
SavesOrShows(d) == IF Valid(With(d)) THEN Saves(d) ELSE Keeps

\* commit: the anchors make a drawing with an id of its own; a label may be called off.
Commit ==
  /\ lastId < LastId /\ lastId' = lastId + 1
  /\ \E shape \in Shapes : SavesOrShows([id |-> lastId + 1, shape |-> shape])

\* selectDrawTool: the tool's button is a toggle.  A drag goes on.
SelectDrawTool(tool) ==
  LET mode == IF layer.mode = tool THEN "none" ELSE tool
  IN  /\ layer' = [layer EXCEPT !.mode = mode, !.pending = 0]
      /\ selected' = IF mode = "edit" THEN selected ELSE NoId
      /\ UNCHANGED <<drawings, past, future, stored, private, lastId, saves>>

\* The list of saved drawings.
ChooseDrawing(id) ==
  /\ selected' = id
  /\ layer' = [layer EXCEPT !.mode = "edit", !.pending = 0]
  /\ UNCHANGED <<drawings, past, future, stored, private, lastId, saves>>

Escape ==
  /\ layer' = [layer EXCEPT !.mode = "none", !.pending = IF layer.mode = "none" THEN @ ELSE 0]
  /\ layer' # layer
  /\ UNCHANGED <<lastId>> /\ Keeps

\* pointerDown in Select / Edit: what lies under the pointer is held and selected.
Hold(id) ==
  /\ layer.mode = "edit" /\ layer.drag = NoDrag
  /\ layer' = IF id = NoId THEN layer
              ELSE [layer EXCEPT !.drag = [kind |-> "edit", id |-> id, preview |-> {}]]
  /\ selected' = id
  /\ UNCHANGED <<drawings, past, future, stored, private, lastId, saves>>

StartFreehand ==
  /\ layer.mode = "freehand" /\ layer.drag = NoDrag
  /\ layer' = [layer EXCEPT !.pending = 1, !.drag = [NoDrag EXCEPT !.kind = "freehand"]]
  /\ UNCHANGED lastId /\ Keeps

\* A click adds an anchor; the last one completes the drawing.
Click ==
  /\ layer.mode \in DOMAIN Clicks /\ layer.drag = NoDrag
  /\ IF layer.pending + 1 < Clicks[layer.mode]
     THEN /\ layer' = [layer EXCEPT !.pending = @ + 1]
          /\ UNCHANGED lastId /\ Keeps
     ELSE /\ layer' = [layer EXCEPT !.pending = 0]
          /\ Commit \/ (layer.mode = "label" /\ UNCHANGED lastId /\ Keeps)

\* pointerMove: the preview is the drawing as it is now, elsewhere; of a drawing that was
\* deleted meanwhile only the anchors are left.
Drag(shape) ==
  /\ layer.mode # "none"
  /\ \/ /\ layer.drag.kind = "freehand" /\ layer.pending \in 1..(MaxPoints - 1)
        /\ layer' = [layer EXCEPT !.pending = @ + 1]
     \/ /\ layer.drag.kind = "edit"
        /\ LET id == IF layer.drag.id \in Ids(drawings) THEN layer.drag.id ELSE NoId
           IN  layer' = [layer EXCEPT !.drag.preview = {[id |-> id, shape |-> shape]}]
  /\ UNCHANGED lastId /\ Keeps

\* pointerUp and pointercancel, in whatever mode the layer is by now.
Release ==
  /\ layer.drag # NoDrag
  /\ layer' = [layer EXCEPT !.drag = NoDrag, !.pending = IF layer.drag.kind = "freehand" THEN 0 ELSE @]
  /\ IF layer.drag.kind = "freehand" /\ layer.pending > 1 THEN Commit
     ELSE /\ UNCHANGED lastId
          /\ IF layer.drag.preview = {} THEN Keeps
             ELSE \E d \in layer.drag.preview : SavesOrShows(d)

\* The buttons of the selected drawing.
Recolor(shape) ==
  /\ selected # NoId
  /\ SavesOrShows([id |-> selected, shape |-> shape])
  /\ UNCHANGED <<layer, lastId>>

Duplicates == selected # NoId /\ Commit /\ UNCHANGED layer

DeleteDrawing ==
  /\ selected # NoId
  /\ SaveState(Without(drawings, selected), NoId)
  /\ UNCHANGED <<layer, lastId>>

\* eraseSymbol and importDrawings, once they were confirmed.
Replace(collection) ==
  /\ SaveState(collection, NoId)
  /\ UNCHANGED <<layer, lastId>>

\* Variant of UndoDrawing: what was undone is lost.
UndoForgetful ==
  /\ past # <<>>
  /\ drawings' = Top(past) /\ past' = Rest(past)
  /\ selected' = NoId /\ Store
  /\ UNCHANGED <<future, layer, lastId, saves>>

UndoDrawing ==
  /\ past # <<>>
  /\ future' = Append(future, drawings)
  /\ drawings' = Top(past) /\ past' = Rest(past)
  /\ selected' = NoId /\ Store
  /\ UNCHANGED <<layer, lastId, saves>>

RedoDrawing ==
  /\ future # <<>>
  /\ past' = Append(past, drawings)
  /\ drawings' = Top(future) /\ future' = Rest(future)
  /\ selected' = NoId /\ Store
  /\ UNCHANGED <<layer, lastId, saves>>

\* The page is loaded again: what was stored is all there is.
Reload ==
  /\ drawings' = stored /\ selected' = NoId /\ past' = <<>> /\ future' = <<>>
  /\ layer' = Idle
  /\ UNCHANGED <<stored, private, lastId, saves>>

StudioNext ==
  \/ \E tool \in Tools \ {"none"} : SelectDrawTool(tool)
  \/ \E id \in Ids(drawings) : ChooseDrawing(id)
  \/ Escape
  \/ \E id \in Ids(drawings) \cup {NoId} : Hold(id)
  \/ StartFreehand \/ Click \/ Release
  \/ \E shape \in Shapes : Drag(shape) \/ Recolor(shape)
  \/ Duplicates \/ DeleteDrawing
  \/ \E collection \in Foreign \cup {<<>>} : Replace(collection)
  \/ UndoDrawing \/ RedoDrawing \/ Reload

StudioSpec == StudioInit /\ [][StudioNext]_studioVars

-----------------------------------------------------------------------------
\* No collection that is shown, kept or could be brought back is one that a page would
\* refuse to load, and what is selected exists.
StudioTypeOK ==
  /\ layer.mode \in Tools /\ layer.pending \in 0..MaxPoints
  /\ \A collections \in {<<drawings, stored>>, past, future} :
       \A n \in DOMAIN collections : Valid(collections[n])
  /\ selected \in Ids(drawings) \cup {NoId}
  /\ lastId \in 0..LastId

\* The collections in the order in which they were made, those that were undone included.
Timeline == past \o <<drawings>> \o Turned(future)

\* Undo and redo move along the timeline and lose nothing of it; an edit ends it with the
\* new collection, which differs in one drawing unless the whole was replaced, and drops
\* what had been undone and what is too old; a reload starts it anew.  What is stored is
\* what is shown.  All this whatever drag is under way (xmi2-chart-studio.js:135-173).
EditsAreReversible ==
  [][/\ \/ Timeline' = Timeline
        \/ /\ Timeline' = Newest(UndoLimit, Append(past, drawings)) \o <<drawings'>>
           /\ \/ drawings' \in Foreign \cup {<<>>}
              \/ \E id \in Ids(drawings) \cup Ids(drawings') :
                   Without(drawings', id) = Without(drawings, id)
        \/ Timeline' = <<stored>> /\ layer' = Idle
     /\ ~private => stored' = drawings']_studioVars
==============================================================================
