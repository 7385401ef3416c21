--------------------------- MODULE RoomNavigation ---------------------------
(***************************************************************************)
(* useRoomNavigation and useLeaveConfirmation: popstate comes when the     *)
(* browser has already moved, so a traversal away from a room with a draft *)
(* or a shared screen is first undone, then asked about, then done again.  *)
(* history.go is a task of its own, and the user may press Back or Forward *)
(* before it runs.  There is one room, and only a standalone deployment    *)
(* moves within the document.                                              *)
(***************************************************************************)
EXTENDS RoomRefresh

VARIABLE shell
\* entries, at     what the browser has, index None for an entry of an earlier load
\* going           the history.go calls that have not run
\* index, path, pending, approved    useRoomNavigation
\* exit            useLeaveConfirmation, or None without a RoomView

Entry(path, index) == [path |-> path, index |-> index]

\* The entry there is becomes the first of this load.
Loaded(h) ==
  [entries |-> [h.entries EXCEPT ![h.at].index = 0], at |-> h.at, going |-> <<>>, index |-> 0,
   path |-> h.entries[h.at].path, pending |-> None, approved |-> None, exit |-> None]

NewExit == [need |-> FALSE, action |-> None, deciding |-> FALSE, confirmed |-> FALSE]

\* The numbers of the entries tell how far they are from one another.
Numbered(s) ==
  \A i, j \in DOMAIN s.entries :
    s.entries[i].index # None /\ s.entries[j].index # None /\
    s.entries[i].index - s.entries[j].index = i - j

Go(s, delta) == [s EXCEPT !.going = Append(@, delta)]

-----------------------------------------------------------------------------
(* useRoomNavigation                                                       *)

Finish(s) ==
  IF s.pending = None \/ ~s.pending.restored \/ s.pending.accepted = "asked" THEN s
  ELSE LET done == [s EXCEPT !.pending = None]
       IN IF s.pending.accepted = "no" THEN done
          ELSE Go([done EXCEPT !.approved = s.pending.target], s.pending.target - s.index)

\* The promise of the guard; only the traversal that asked listens.
Decided(s, accepted) ==
  IF s.pending = None \/ s.pending.accepted # "asked" THEN s
  ELSE Finish([s EXCEPT !.pending.accepted = accepted])

\* navigate: a traversal that is under way is forgotten.
Navigate(s, path) ==
  [s EXCEPT !.pending = None, !.approved = None, !.index = @ + 1, !.path = path,
            !.entries = Append(SubSeq(@, 1, s.at), Entry(path, s.index + 1)), !.at = @ + 1]

Accept(s, target) ==
  [s EXCEPT !.index = IF target = None THEN @ ELSE target, !.path = s.entries[s.at].path,
            !.approved = None]

\* The traversal is undone; the answer may already be known.
Undo(s, target, accepted) ==
  Go([s EXCEPT !.pending = [target |-> target, restored |-> FALSE, accepted |-> accepted],
               !.approved = None],
     s.index - target)

\* The guard of the RoomView, if there is one.
Ask(s, target) ==
  IF s.exit = None THEN Accept(s, target)
  ELSE IF ~s.exit.need \/ s.exit.confirmed THEN Accept(s, target)
  ELSE IF s.exit.deciding \/ s.exit.action # None THEN Undo(s, target, "no")
  ELSE Undo([s EXCEPT !.exit.deciding = TRUE, !.exit.action = "leave"], target, "asked")

\* Fault: while a decision is awaited, only a return to the room is of interest.
Overlooked(s, target) ==
  IF target = s.index THEN Finish([s EXCEPT !.pending.restored = TRUE])
  ELSE [s EXCEPT !.pending.restored = FALSE]

\* Another popstate while a traversal is pending.
Restore(s, target) ==
  IF target = s.index THEN Finish([s EXCEPT !.pending.restored = TRUE])
  ELSE Go([s EXCEPT !.pending.restored = FALSE], s.index - target)

\* onPopState
Popped(s) ==
  LET entry == s.entries[s.at]
      target == entry.index
  IN CASE s.pending # None /\ target # None -> Restore(s, target)
       [] (s.pending = None \/ target = None) /\
          (target = None \/ target \in {s.approved, s.index} \/ entry.path = s.path) ->
            Accept(s, target)
       [] OTHER -> Ask(s, target)

\* The browser moves, unless there is nothing there.
Moved(s, delta) ==
  IF s.at + delta \in DOMAIN s.entries THEN Popped([s EXCEPT !.at = @ + delta]) ELSE s

-----------------------------------------------------------------------------
(* useLeaveConfirmation                                                    *)

\* The RoomView leaves the page.
Closed(s) == IF s.exit = None THEN s ELSE [Decided(s, "no") EXCEPT !.exit = None]

DialogShown == shell.exit # None /\ shell.exit.action # None

CancelExit ==
  /\ DialogShown
  /\ shell' = Decided([shell EXCEPT !.exit.action = None, !.exit.deciding = FALSE], "no")

\* Writes or sends a message, starts or ends a share.
NeedChanges ==
  /\ shell.exit # None
  /\ shell' = [shell EXCEPT !.exit.need = ~@]

\* confirmExit, for a traversal
ConfirmTraversal ==
  /\ DialogShown /\ shell.exit.deciding
  /\ shell' = Decided([shell EXCEPT !.exit.action = None, !.exit.deciding = FALSE,
                                    !.exit.confirmed = TRUE], "yes")

\* requestExit, if it is to be confirmed
RequestExit(action) ==
  /\ shell.exit # None
  /\ shell.exit.need /\ ~shell.exit.confirmed /\ shell.exit.action = None /\ ~shell.exit.deciding
  /\ shell' = [shell EXCEPT !.exit.action = action]

\* requestExit without need, or confirmExit without a traversal: the room is left.
MayExit(action) ==
  /\ shell.exit # None
  /\ ~shell.exit.confirmed /\ ~shell.exit.deciding
  /\ IF shell.exit.action = None THEN ~shell.exit.need ELSE shell.exit.action = action

=============================================================================
