--------------------------- MODULE RoomPageProofs ---------------------------
(***************************************************************************)
(* Proofs about RoomPage, for any peers, histories and numbers of due      *)
(* grants, losses, entries and moves.  Whoever waits for a grant goes on   *)
(* in the step that answers, one after the other, and each may close the   *)
(* manager, end the session or ask anew, so the invariant is carried along *)
(* the chain of them: it is loosened for those who have not gone on yet,   *)
(* and what each of them keeps is shown once (GoingOnKeeps).               *)
(***************************************************************************)
EXTENDS RoomPage, WellFoundedInduction, TLAPS

-----------------------------------------------------------------------------
(* The invariant of the room                                               *)

PageState ==
  [entry : {"checking", "ready", "asking", "authorized", "room", "refused", "unavailable", "left"},
   startup : {"none", "grant", "turn", "joining", "done", "failed"},
   reuse : {"none", "fresh", "due"}]
Renewal == [peer : Nat, grant : Nat, retries : Nat]
Coordinator ==
  [active : BOOLEAN, told : Nat \cup {None}, connect : Nat \cup {None},
   joined : Nat \cup {None}, wall : {"none", "later", "past"},
   timers : SUBSET {"grant", "turn", "lease"}, retries : Nat,
   turn : [Turns -> {"none", "grant", "load"}], renewals : SUBSET Renewal]
SessionState ==
  [status : {"none", "preparing", "connecting", "active", "lost", "over"}, peer : Nat,
   used : Nat, last : Nat, asked : Nat, missed : BOOLEAN]
WorldState ==
  [grant : Manager \cup {None}, page : PageState, refresh : Coordinator, session : SessionState]

Off == [NewCoordinator EXCEPT !.active = FALSE]

\* What has ended refreshes nothing, and without a manager there is no lease;
\* what is on will refresh the TURN credentials.
Ends(w) ==
  /\ ~w.refresh.active => w.refresh.timers = {}
  /\ w.session.status = "over" \/ w.page.startup \in {"none", "failed"} => ~w.refresh.active
  /\ w.page.startup = "none" => w.session = NewSession /\ w.refresh = Off
  /\ w.page.startup \in {"grant", "turn"} => w.session.status = "none"
  /\ w.grant = None =>
       w.refresh.renewals = {} /\ "lease" \notin w.refresh.timers /\ w.page.entry # "unavailable"
TurnIsOn(w) ==
  w.refresh.active /\ w.page.startup = "done" =>
    "turn" \in w.refresh.timers \/ \E i \in Turns : w.refresh.turn[i] # "none"

\* Who waits for the grant.
Waits(w) ==
  LET g == w.grant
      s == w.page.startup
      e == w.page.entry
  IN /\ g.step = "none" <=> g.waiting = <<>>
     /\ g.closed <=> e \in {"refused", "unavailable", "left"}
     /\ g.closed => g.waiting = <<>>
     /\ e \in {"checking", "asking"} => s = "none"
     /\ s # "none" => e \in {"room", "refused"} /\ g.waiting \in Seq(RoomWaiter)
     /\ s = "none" => g.waiting = CASE e = "checking" -> <<"boundary">>
                                    [] e = "asking" -> <<"entry">>
                                    [] OTHER -> <<>>
     /\ \A i \in DOMAIN g.waiting :
          /\ g.waiting[i] = "connect" => w.session.status = "preparing"
          /\ g.waiting[i] = "startup" => s = "grant"

\* No number of a grant is ahead of the last that was issued.
NoneAhead(w, n) ==
  /\ w.session.used <= n /\ w.session.last <= n /\ w.session.asked <= n
  /\ w.refresh.told \in 0..n \cup {None}
  /\ \A r \in w.refresh.renewals : r.grant <= n

\* The connection and the grants it was made with.
MadeWith(w) ==
  /\ w.session.last = IF w.refresh.joined = None THEN 0 ELSE w.refresh.joined
  /\ w.session.status = "connecting" => w.refresh.connect = w.session.used
IsNew(w) ==
  w.session.status = "connecting" /\ w.refresh.active => w.session.used # w.session.last

\* The newest grant has been dealt with.
Told(w, n) ==
  w.refresh.active =>
    /\ w.page.startup # "grant" => w.refresh.told = n
    /\ w.session.status = "connecting" => w.session.asked = n \/ w.session.missed
    /\ w.session.status = "active" =>
         \/ w.session.asked = n \/ w.session.missed \/ "lease" \in w.refresh.timers
         \/ \E r \in w.refresh.renewals : r.peer = w.session.peer /\ r.grant = n
GrantIsOn(w) ==
  w.refresh.active /\ w.page.startup # "none" => "grant" \in w.refresh.timers \/ w.grant.waiting # <<>>

Loose(w) ==
  /\ w \in WorldState
  /\ Ends(w) /\ TurnIsOn(w)
  /\ w.grant # None =>
       /\ w.grant.fresh => w.grant.issued > 0
       /\ Waits(w) /\ NoneAhead(w, w.grant.issued) /\ MadeWith(w) /\ IsNew(w) /\ Told(w, w.grant.issued)

RoomFits(w) == Loose(w) /\ (w.grant # None => GrantIsOn(w))

ShellFields ==
  {"entries", "at", "going", "index", "path", "pending", "approved", "exit"}
Paths == {"home", "room"}
HistoryEntry == [path : Paths, index : Nat \cup {None}]
ShellState(s) ==
  /\ DOMAIN s = ShellFields
  /\ s.entries \in Seq(HistoryEntry)
  /\ s.at \in DOMAIN s.entries /\ s.index \in Nat /\ s.path \in Paths

\* At home there is no room.
ShellFits ==
  ShellState(shell) /\ (shell.path = "home" => page.entry = "left" /\ page.startup = "none")

PageFits == RoomFits(World) /\ ShellFits

-----------------------------------------------------------------------------
(* Those who waited go on one after the other                              *)

\* Every nonempty set of natural numbers has a smallest.
LEMMA Smallest ==
  ASSUME NEW T \in SUBSET Nat, T # {}
  PROVE  \E n \in T : \A m \in T : n <= m
<1> DEFINE R == {ss \in Nat \X Nat : ss[1] < ss[2]}
<1>1. IsWellFoundedOn(R, Nat)
  <2>1. OpToRel(<, Nat) = R
    BY DEF OpToRel
  <2> QED
    BY Zenon, <2>1, NatLessThanWellFounded
<1>2. \A m, n \in Nat : m < n => <<m, n>> \in R
  OBVIOUS
<1>3. \A m, n \in Nat : ~(m < n) => n <= m
  OBVIOUS
<1> HIDE DEF R
<1>4. \E n \in T : \A m \in T : ~(<<m, n>> \in R)
  BY <1>1, WFMin
<1> QED
  BY <1>2, <1>3, <1>4

\* The recursive function of AllGoOn is the one its definition describes.
LEMMA GoingOn ==
  ASSUME NEW w, NEW waiting \in Seq(Waiter), NEW answer
  PROVE  \E after : /\ after[0] = w
                    /\ \A i \in 1..Len(waiting) :
                         after[i] = Resumed(after[i - 1], waiting[i], answer)
                    /\ AllGoOn(w, waiting, answer) = after[Len(waiting)]
<1> DEFINE Is(g, n) ==
             g = [i \in 0..n |-> IF i = 0 THEN w ELSE Resumed(g[i - 1], waiting[i], answer)]
<1> DEFINE T == {n \in Nat : ~ \E g : Is(g, n)}
<1>1. ASSUME T # {} PROVE FALSE
  <2>1. PICK n \in T : \A m \in T : n <= m
    BY <1>1, Smallest
  <2>2. n # 0
    <3>1. Is([i \in 0..0 |-> w], 0)
      OBVIOUS
    <3> QED
      BY <3>1, <2>1
  <2>3. n - 1 \in Nat /\ n - 1 \notin T
    BY <2>1, <2>2
  <2>4. PICK g : Is(g, n - 1)
    BY <2>3
  <2> DEFINE h == [i \in 0..n |-> IF i <= n - 1 THEN g[i] ELSE Resumed(g[n - 1], waiting[n], answer)]
  <2>5. \A i \in 0..n : h[i] = IF i = 0 THEN w ELSE Resumed(h[i - 1], waiting[i], answer)
    <3> TAKE i \in 0..n
    <3>1. CASE i = 0
      BY <3>1, <2>4, <2>2, <2>3
    <3>2. CASE i # 0 /\ i <= n - 1
      BY <3>2, <2>4, <2>2, <2>3
    <3>3. CASE i = n
      BY <3>3, <2>4, <2>2, <2>3
    <3> QED
      BY <3>1, <3>2, <3>3
  <2>6. Is(h, n)
    BY <2>5
  <2> QED
    BY <2>6, <2>1
<1>2. PICK g : Is(g, Len(waiting))
  BY <1>1
<1> DEFINE after == CHOOSE f : Is(f, Len(waiting))
<1>3. Is(after, Len(waiting))
  BY <1>2
<1>4. AllGoOn(w, waiting, answer) = after[Len(waiting)]
  BY DEF AllGoOn
<1> HIDE DEF after
<1>5. after[0] = w
  BY <1>3
<1>6. \A i \in 1..Len(waiting) : after[i] = Resumed(after[i - 1], waiting[i], answer)
  BY <1>3
<1> QED
  BY <1>4, <1>5, <1>6

\* What holds at first and is preserved by each of them holds after the last.
LEMMA GoingOnKeeps ==
  ASSUME NEW w, NEW waiting \in Seq(Waiter), NEW answer, NEW I,
         <<0, w>> \in I,
         \A i \in 1..Len(waiting) : \A v : <<i - 1, v>> \in I => <<i, Resumed(v, waiting[i], answer)>> \in I
  PROVE  <<Len(waiting), AllGoOn(w, waiting, answer)>> \in I
<1>1. PICK after : /\ after[0] = w
                   /\ \A i \in 1..Len(waiting) :
                        after[i] = Resumed(after[i - 1], waiting[i], answer)
                   /\ AllGoOn(w, waiting, answer) = after[Len(waiting)]
  BY GoingOn
<1> DEFINE T == {n \in 0..Len(waiting) : <<n, after[n]>> \notin I}
<1>2. ASSUME T # {} PROVE FALSE
  <2>1. T \in SUBSET Nat
    OBVIOUS
  <2>2. PICK n \in T : \A m \in T : n <= m
    BY <1>2, <2>1, Smallest
  <2>3. n # 0
    BY <1>1
  <2>4. n \in 1..Len(waiting) /\ n - 1 \in 0..Len(waiting) /\ n - 1 \notin T
    BY <2>2, <2>3
  <2>5. <<n - 1, after[n - 1]>> \in I
    BY <2>4
  <2> QED
    BY <2>5, <2>4, <2>2, <1>1
<1> QED
  BY <1>1, <1>2

-----------------------------------------------------------------------------
(* The operators of the coordinator keep the invariant                     *)

LEMMA WorldHas ==
  World.grant = grant /\ World.page = page /\ World.refresh = refresh /\ World.session = session
BY DEF World

LEMMA WorldIs ==
  /\ World.grant = grant /\ World.page = page /\ World.refresh = refresh /\ World.session = session
  /\ World = [grant |-> grant, page |-> page, refresh |-> refresh, session |-> session]
BY DEF World


LEMMA NoneIsNone == None \notin Nat /\ None \notin Manager /\ None \notin Measure
BY RoomPageAssumption

LEMMA TurnsWait == \A i \in Turns : i \in RoomWaiter /\ i \notin {"connect", "startup"}
BY Zenon DEF RoomWaiter, Turns

LEMMA IdleCoordinators == Off \in Coordinator /\ NewCoordinator \in Coordinator /\ NewSession \in SessionState
BY Zenon, NoneIsNone DEF Off, NewCoordinator, Coordinator, NewSession, SessionState, Turns

\* Another timer is set.
LEMMA SchedulingFits ==
  ASSUME NEW w \in WorldState, NEW timer \in {"grant", "turn", "lease"},
         timer = "lease" => w.grant # None
  PROVE  LET v == Scheduled(w, timer)
         IN /\ v \in WorldState /\ v.grant = w.grant /\ v.page = w.page /\ v.session = w.session
            /\ v.refresh.active = w.refresh.active /\ v.refresh.told = w.refresh.told
            /\ v.refresh.turn = w.refresh.turn
            /\ v.refresh.active => timer \in v.refresh.timers /\ w.refresh.timers \subseteq v.refresh.timers
            /\ Loose(w) => Loose(v)
<1>1. CASE ~CanRefresh(w)
  BY <1>1 DEF Scheduled, CanRefresh
<1>2. CASE CanRefresh(w)
  <2> DEFINE v == [w EXCEPT !.refresh.timers = @ \cup {timer}]
  <2>1. Scheduled(w, timer) = v
    BY <1>2 DEF Scheduled
  <2>2. /\ v \in WorldState /\ v.grant = w.grant /\ v.page = w.page /\ v.session = w.session
        /\ v.refresh = [w.refresh EXCEPT !.timers = @ \cup {timer}]
    BY DEF WorldState, Coordinator
  <2>3. /\ v.refresh.active = w.refresh.active /\ v.refresh.told = w.refresh.told
        /\ v.refresh.connect = w.refresh.connect /\ v.refresh.joined = w.refresh.joined
        /\ v.refresh.turn = w.refresh.turn /\ v.refresh.renewals = w.refresh.renewals
        /\ v.refresh.timers = w.refresh.timers \cup {timer}
    BY <2>2 DEF WorldState, Coordinator
  <2>4. v.refresh.active
    BY <1>2, <2>3 DEF CanRefresh
  <2> HIDE DEF v
  <2>5. ASSUME Loose(w) PROVE Loose(v)
    <3>1. Ends(v)
      BY <2>5, <2>2, <2>3, <2>4, <1>2 DEF Loose, Ends, CanRefresh, Off, NewCoordinator
    <3>2. TurnIsOn(v)
      BY <2>5, <2>2, <2>3 DEF Loose, TurnIsOn
    <3>3. ASSUME w.grant # None
          PROVE  Waits(v) /\ NoneAhead(v, v.grant.issued) /\ MadeWith(v) /\ IsNew(v) /\ Told(v, v.grant.issued)
      BY <3>3, <2>5, <2>2, <2>3 DEF Loose, Waits, NoneAhead, MadeWith, IsNew, Told
    <3> QED
      BY <3>1, <3>2, <3>3, <2>2, <2>5 DEF Loose
  <2> QED
    BY <2>1, <2>2, <2>3, <2>5
<1> QED
  BY <1>1, <1>2

\* The coordinator stops.
LEMMA StoppingFits ==
  ASSUME NEW w \in WorldState
  PROVE  LET v == Stopped(w)
         IN /\ v \in WorldState /\ v.grant = w.grant /\ v.page = w.page /\ v.session = w.session
            /\ ~v.refresh.active /\ v.refresh.timers = {}
            /\ v.refresh.told = w.refresh.told /\ v.refresh.connect = w.refresh.connect
            /\ v.refresh.joined = w.refresh.joined /\ v.refresh.renewals = w.refresh.renewals
            /\ Loose(w) => Loose(v)
<1> DEFINE v == Stopped(w)
<1>1. /\ v \in WorldState /\ v.grant = w.grant /\ v.page = w.page /\ v.session = w.session
      /\ v.refresh = [w.refresh EXCEPT !.active = FALSE, !.timers = {}]
  BY DEF WorldState, Coordinator, Stopped
<1>2. /\ ~v.refresh.active /\ v.refresh.timers = {}
      /\ v.refresh.told = w.refresh.told
      /\ v.refresh.connect = w.refresh.connect /\ v.refresh.joined = w.refresh.joined
      /\ v.refresh.turn = w.refresh.turn /\ v.refresh.renewals = w.refresh.renewals
  BY <1>1 DEF WorldState, Coordinator
<1>3. w.refresh = Off => v.refresh = Off
  BY <1>1 DEF Off, NewCoordinator
<1> HIDE DEF v
<1>4. ASSUME Loose(w) PROVE Loose(v)
  <2>1. Ends(v) /\ TurnIsOn(v)
    BY <1>4, <1>1, <1>2, <1>3 DEF Loose, Ends, TurnIsOn
  <2>2. ASSUME w.grant # None
        PROVE  Waits(v) /\ NoneAhead(v, v.grant.issued) /\ MadeWith(v) /\ IsNew(v) /\ Told(v, v.grant.issued)
    BY <2>2, <1>4, <1>1, <1>2 DEF Loose, Waits, NoneAhead, MadeWith, IsNew, Told
  <2> QED
    BY <2>1, <2>2, <1>1, <1>4 DEF Loose
<1> QED
  BY <1>1, <1>2, <1>4 DEF v

\* All but that the newest grant has been dealt with.
Nearly(w) ==
  /\ w \in WorldState /\ w.grant \in Manager /\ w.grant # None
  /\ Ends(w) /\ TurnIsOn(w)
  /\ w.grant.fresh => w.grant.issued > 0
  /\ Waits(w) /\ NoneAhead(w, w.grant.issued) /\ MadeWith(w) /\ IsNew(w)

\* The rest of the world as it was.
AsBefore(v, w) ==
  /\ v.grant = w.grant /\ v.page = w.page
  /\ v.refresh.active = w.refresh.active
  /\ v.refresh.connect = w.refresh.connect /\ v.refresh.joined = w.refresh.joined
  /\ v.refresh.turn = w.refresh.turn
  /\ v.session.status = w.session.status /\ v.session.peer = w.session.peer
  /\ v.session.used = w.session.used /\ v.session.last = w.session.last
  /\ v.session.asked = w.session.asked

\* The lease of a connection in the room is extended to the newest grant.
LEMMA RenewingFits ==
  ASSUME NEW w, Nearly(w), NEW retries \in Nat, w.refresh.active
  PROVE  LET v == Renewed(w, retries)
         IN /\ Nearly(v) /\ AsBefore(v, w)
            /\ v.refresh.told = w.refresh.told /\ v.refresh.timers = w.refresh.timers
            /\ v.session.status = "active" =>
                 \E r \in v.refresh.renewals : r.peer = v.session.peer /\ r.grant = v.grant.issued
            /\ v.session.status # "active" =>
                 (v.session.missed <=> w.session.missed \/ w.session.used < w.grant.issued)
<1> DEFINE v == Renewed(w, retries)
<1> DEFINE new == [peer |-> w.session.peer, grant |-> w.grant.issued, retries |-> retries]
<1>1. new \in Renewal /\ new.peer = w.session.peer /\ new.grant = w.grant.issued
  BY DEF Nearly, WorldState, SessionState, Manager, Renewal
<1>2. w.page.startup # "none"
  BY DEF Nearly, Ends, Off, NewCoordinator
<1>3. CASE w.session.status # "active"
  <2>0. PICK m \in BOOLEAN : m = (w.session.missed \/ w.session.used < w.grant.issued)
    OBVIOUS
  <2>1. v = [w EXCEPT !.session.missed = m]
    BY <1>3, <2>0 DEF Renewed, CanRefresh
  <2>2. /\ v \in WorldState /\ v.grant = w.grant /\ v.page = w.page /\ v.refresh = w.refresh
        /\ v.session = [w.session EXCEPT !.missed = m]
    <3>1. w \in WorldState
      BY DEF Nearly
    <3> HIDE DEF v
    <3> QED
      BY <3>1, <2>1 DEF WorldState, SessionState
  <2>3. /\ v.session.status = w.session.status /\ v.session.peer = w.session.peer
        /\ v.session.used = w.session.used /\ v.session.last = w.session.last
        /\ v.session.asked = w.session.asked
        /\ v.session.missed = m
    BY <2>2 DEF Nearly, WorldState, SessionState
  <2> HIDE DEF v
  <2>4. Ends(v) /\ TurnIsOn(v)
    BY <1>2, <2>2, <2>3 DEF Nearly, Ends, TurnIsOn
  <2>5. Waits(v) /\ NoneAhead(v, v.grant.issued) /\ MadeWith(v) /\ IsNew(v)
    BY <2>2, <2>3 DEF Nearly, Waits, NoneAhead, MadeWith, IsNew
  <2>6. Nearly(v) /\ AsBefore(v, w)
    BY <2>2, <2>3, <2>4, <2>5 DEF Nearly, AsBefore
  <2> QED
    BY <2>6, <2>0, <2>2, <2>3, <1>3 DEF v
<1>4. CASE w.session.status = "active"
  <2> HIDE DEF new
  <2>1. v = [w EXCEPT !.session.missed = FALSE, !.refresh.renewals = @ \cup {new}]
    BY <1>4 DEF Renewed, CanRefresh, new
  <2>2. /\ v \in WorldState /\ v.grant = w.grant /\ v.page = w.page
        /\ v.refresh = [w.refresh EXCEPT !.renewals = @ \cup {new}]
        /\ v.session = [w.session EXCEPT !.missed = FALSE]
    <3>1. w \in WorldState
      BY DEF Nearly
    <3> HIDE DEF v
    <3> QED
      BY <3>1, <2>1, <1>1 DEF WorldState, SessionState, Coordinator
  <2>3. /\ v.session.status = w.session.status /\ v.session.peer = w.session.peer
        /\ v.session.used = w.session.used /\ v.session.last = w.session.last
        /\ v.session.asked = w.session.asked
    BY <2>2 DEF Nearly, WorldState, SessionState
  <2>4. /\ v.refresh.active = w.refresh.active /\ v.refresh.told = w.refresh.told
        /\ v.refresh.connect = w.refresh.connect /\ v.refresh.joined = w.refresh.joined
        /\ v.refresh.turn = w.refresh.turn /\ v.refresh.timers = w.refresh.timers
        /\ v.refresh.renewals = w.refresh.renewals \cup {new}
    <3>1. w \in WorldState
      BY DEF Nearly
    <3> HIDE DEF v
    <3> QED
      BY <3>1, <2>2 DEF WorldState, Coordinator
  <2> HIDE DEF v
  <2>5. Ends(v) /\ TurnIsOn(v)
    BY <1>2, <2>2, <2>3, <2>4 DEF Nearly, Ends, TurnIsOn
  <2>6. Waits(v)
    BY <2>2, <2>3 DEF Nearly, Waits
  <2>7. NoneAhead(v, v.grant.issued)
    BY <1>1, <2>2, <2>3, <2>4 DEF Nearly, NoneAhead, WorldState, Manager
  <2>8. MadeWith(v) /\ IsNew(v)
    BY <2>2, <2>3, <2>4 DEF Nearly, MadeWith, IsNew
  <2>9. Nearly(v) /\ AsBefore(v, w)
    BY <2>2, <2>3, <2>4, <2>5, <2>6, <2>7, <2>8 DEF Nearly, AsBefore
  <2>10. \E r \in v.refresh.renewals : r.peer = v.session.peer /\ r.grant = v.grant.issued
    BY <1>1, <2>2, <2>3, <2>4
  <2> QED
    BY <2>9, <2>10, <2>3, <2>4, <1>4 DEF v
<1> QED
  BY <1>3, <1>4

\* Granted, up to where the caller goes on.
Informed(w) ==
  LET told == [w EXCEPT !.refresh.told = w.grant.issued]
      next == IF w.grant.issued # w.refresh.told THEN Renewed(told, 0) ELSE w
  IN IF CanRefresh(w) THEN Scheduled(next, "grant") ELSE w

LEMMA InformingFits ==
  ASSUME NEW w, Nearly(w), w.grant # None,
         w.refresh.active /\ w.refresh.told = w.grant.issued => Told(w, w.grant.issued),
         w.refresh.active /\ w.refresh.told # w.grant.issued /\ w.session.status = "connecting" =>
           w.session.used < w.grant.issued
  PROVE  LET v == Informed(w)
         IN /\ Loose(v) /\ AsBefore(v, w) /\ \A who : Granted(w, who) = Proceeds(v, who)
            /\ v.refresh.active => v.refresh.told = v.grant.issued /\ "grant" \in v.refresh.timers
<1> DEFINE n == w.grant.issued
<1> DEFINE v == Informed(w)
<1>1. \A who : Granted(w, who) = Proceeds(v, who)
  BY DEF Granted, Informed
<1>2. w \in WorldState /\ w.grant \in Manager /\ n \in Nat
  BY DEF Nearly, Manager
<1>3. CASE ~w.refresh.active
  <2>1. v = w
    BY <1>3 DEF Informed, CanRefresh
  <2>2. Told(w, n)
    BY <1>3 DEF Told
  <2>3. Loose(w)
    BY <2>2 DEF Nearly, Loose
  <2> QED
    BY <1>1, <1>3, <2>1, <2>3 DEF AsBefore
<1>4. CASE w.refresh.active /\ w.refresh.told = n
  <2>1. v = Scheduled(w, "grant")
    BY <1>4 DEF Informed, CanRefresh
  <2>2. Loose(w)
    BY <1>4 DEF Nearly, Loose
  <2>3. Loose(v)
    BY <2>1, <2>2, <1>2, SchedulingFits
  <2>4. /\ v.grant = w.grant /\ v.refresh.active = w.refresh.active
        /\ v.refresh.told = w.refresh.told /\ "grant" \in v.refresh.timers
    BY Zenon, <2>1, <1>2, <1>4, SchedulingFits
  <2>5. AsBefore(v, w)
    <3>1. v = [w EXCEPT !.refresh.timers = @ \cup {"grant"}]
      BY <2>1, <1>4 DEF Scheduled, CanRefresh
    <3> HIDE DEF v
    <3> QED
      BY <3>1, <1>2 DEF AsBefore, WorldState, Coordinator
  <2> QED
    BY <1>1, <1>4, <2>3, <2>4, <2>5
<1>5. CASE w.refresh.active /\ w.refresh.told # n
  <2> DEFINE told == [w EXCEPT !.refresh.told = n]
  <2> DEFINE next == Renewed(told, 0)
  <2>1. v = Scheduled(next, "grant")
    BY <1>5 DEF Informed, CanRefresh
  <2>2. /\ told \in WorldState /\ told.grant = w.grant /\ told.page = w.page
        /\ told.session = w.session /\ told.refresh = [w.refresh EXCEPT !.told = n]
    BY <1>2 DEF WorldState, Coordinator
  <2>3. /\ told.refresh.active = w.refresh.active /\ told.refresh.told = n
        /\ told.refresh.connect = w.refresh.connect /\ told.refresh.joined = w.refresh.joined
        /\ told.refresh.turn = w.refresh.turn /\ told.refresh.renewals = w.refresh.renewals
        /\ told.refresh.timers = w.refresh.timers
    BY <2>2, <1>2 DEF WorldState, Coordinator
  <2>4. w.page.startup # "none"
    BY <1>5 DEF Nearly, Ends, Off, NewCoordinator
  <2> HIDE DEF told
  <2>5. Nearly(told)
    <3>1. Ends(told) /\ TurnIsOn(told)
      BY <1>5, <2>2, <2>3, <2>4 DEF Nearly, Ends, TurnIsOn
    <3>2. Waits(told) /\ MadeWith(told) /\ IsNew(told)
      BY <2>2, <2>3 DEF Nearly, Waits, MadeWith, IsNew
    <3>3. NoneAhead(told, n)
      BY <1>2, <2>2, <2>3 DEF Nearly, NoneAhead
    <3> QED
      BY <3>1, <3>2, <3>3, <2>2, <1>2 DEF Nearly
  <2>6. told.refresh.active
    BY <1>5, <2>3
  <2>7. /\ Nearly(next) /\ AsBefore(next, told)
        /\ next.refresh.told = told.refresh.told
        /\ next.session.status = "active" =>
             \E r \in next.refresh.renewals : r.peer = next.session.peer /\ r.grant = next.grant.issued
        /\ next.session.status # "active" =>
             (next.session.missed <=> told.session.missed \/ told.session.used < told.grant.issued)
    <3> HIDE DEF next, v
    <3>1. 0 \in Nat
      OBVIOUS
    <3> QED
      BY <2>5, <2>6, <3>1, RenewingFits DEF next
  <2> HIDE DEF next
  <2>8. next.grant.issued = n /\ next.refresh.active /\ next.refresh.told = n /\ next \in WorldState
    BY <2>7, <2>6, <2>2, <2>3 DEF AsBefore, Nearly
  <2>9. Told(next, n)
    BY <1>5, <2>7, <2>8, <2>2 DEF Told, AsBefore
  <2>10. Loose(next)
    BY <2>7, <2>8, <2>9 DEF Nearly, Loose
  <2>11. /\ Loose(v) /\ v.grant = next.grant /\ v.refresh.active = next.refresh.active
         /\ v.refresh.told = next.refresh.told /\ "grant" \in v.refresh.timers
    BY Zenon, <2>1, <2>8, <2>10, SchedulingFits
  <2>12. AsBefore(v, next)
    <3>1. v = [next EXCEPT !.refresh.timers = @ \cup {"grant"}]
      BY <2>1, <2>8 DEF Scheduled, CanRefresh
    <3> HIDE DEF v
    <3> QED
      BY <3>1, <2>8 DEF AsBefore, WorldState, Coordinator
  <2>13. AsBefore(v, w)
    BY <2>12, <2>7, <2>2, <2>3 DEF AsBefore
  <2> QED
    BY <1>1, <2>8, <2>11, <2>13
<1> QED
  BY <1>3, <1>4, <1>5

\* What the caller of a grant does not change.
Moves(v, w) ==
  /\ v.grant = w.grant /\ v.page.entry = w.page.entry /\ v.page.startup # "none"
  /\ v.refresh.active = w.refresh.active /\ v.refresh.told = w.refresh.told
  /\ w.refresh.timers \subseteq v.refresh.timers
  /\ v.session.last = w.session.last
  /\ \/ v.session.status = w.session.status /\ v.session.used = w.session.used
     \/ /\ w.session.status = "preparing" /\ v.session.status = "connecting"
        /\ v.session.used = w.grant.issued

Lacks(w, who) == \A i \in DOMAIN w.grant.waiting : w.grant.waiting[i] # who

\* TURN credentials that are overdue are asked for.
LEMMA OverdueFits ==
  ASSUME NEW w, Loose(w)
  PROVE  LET v == Overdue(w)
         IN /\ Loose(v) /\ v.grant = w.grant /\ v.page = w.page /\ v.session = w.session
            /\ v.refresh.active = w.refresh.active /\ v.refresh.told = w.refresh.told
            /\ v.refresh.connect = w.refresh.connect /\ v.refresh.joined = w.refresh.joined
            /\ w.refresh.timers \subseteq v.refresh.timers
            /\ GrantIsOn(w) => GrantIsOn(v)
<1> DEFINE v == Overdue(w)
<1>1. CASE ~(w.refresh.wall = "past" /\ CanRefresh(w))
  BY <1>1 DEF Overdue
<1>2. CASE w.refresh.wall = "past" /\ CanRefresh(w)
  <2> DEFINE u == [w EXCEPT !.refresh.wall = "none"]
  <2>1. w \in WorldState
    BY DEF Loose
  <2>2. /\ u \in WorldState /\ u.grant = w.grant /\ u.page = w.page /\ u.session = w.session
        /\ u.refresh = [w.refresh EXCEPT !.wall = "none"]
    BY <2>1 DEF WorldState, Coordinator
  <2>3. /\ u.refresh.active = w.refresh.active /\ u.refresh.told = w.refresh.told
        /\ u.refresh.connect = w.refresh.connect /\ u.refresh.joined = w.refresh.joined
        /\ u.refresh.turn = w.refresh.turn /\ u.refresh.renewals = w.refresh.renewals
        /\ u.refresh.timers = w.refresh.timers
    BY <2>2, <2>1 DEF WorldState, Coordinator
  <2>4. w.page.startup # "none"
    BY <1>2 DEF Loose, Ends, Off, NewCoordinator, CanRefresh
  <2>5. v = [u EXCEPT !.refresh.timers = @ \cup {"turn"}] /\ v = Scheduled(u, "turn")
    BY <1>2, <2>3 DEF Overdue, Scheduled, CanRefresh
  <2> HIDE DEF u
  <2>6. Loose(u)
    <3>1. Ends(u) /\ TurnIsOn(u)
      BY <2>2, <2>3, <2>4 DEF Loose, Ends, TurnIsOn
    <3>2. ASSUME w.grant # None
          PROVE  Waits(u) /\ NoneAhead(u, u.grant.issued) /\ MadeWith(u) /\ IsNew(u) /\ Told(u, u.grant.issued)
      BY <3>2, <2>2, <2>3 DEF Loose, Waits, NoneAhead, MadeWith, IsNew, Told
    <3> QED
      BY <3>1, <3>2, <2>2 DEF Loose
  <2>7. Loose(v)
    BY <2>2, <2>5, <2>6, SchedulingFits
  <2>8. /\ v.grant = u.grant /\ v.page = u.page /\ v.session = u.session
        /\ v.refresh = [u.refresh EXCEPT !.timers = @ \cup {"turn"}]
    <3> HIDE DEF v
    <3> QED
      BY <2>2, <2>5 DEF WorldState
  <2>9. /\ v.refresh.active = u.refresh.active /\ v.refresh.told = u.refresh.told
        /\ v.refresh.connect = u.refresh.connect /\ v.refresh.joined = u.refresh.joined
        /\ u.refresh.timers \subseteq v.refresh.timers
    <3> HIDE DEF v
    <3> QED
      BY <2>2, <2>8 DEF WorldState, Coordinator
  <2> HIDE DEF v
  <2>10. GrantIsOn(w) => GrantIsOn(v)
    BY <2>2, <2>3, <2>8, <2>9 DEF GrantIsOn
  <2> QED
    BY <2>2, <2>3, <2>7, <2>8, <2>9, <2>10 DEF v
<1> QED
  BY <1>1, <1>2

\* A socket is made with the grant there is.
LEMMA ConnectingFits ==
  ASSUME NEW w, Loose(w), w.grant # None, w.page.startup # "none", Lacks(w, "connect"),
         w.refresh.active /\ w.session.status = "preparing" => w.session.last # w.grant.issued,
         w.session.status = "connecting" => w.session.used = w.grant.issued
  PROVE  Loose(Connects(w)) /\ Moves(Connects(w), w)
<1> DEFINE n == w.grant.issued
<1> DEFINE made == [w.session EXCEPT !.status = "connecting", !.used = n, !.asked = n, !.missed = FALSE]
<1> DEFINE set == [w EXCEPT !.refresh.connect = n]
<1> DEFINE ses == IF w.session.status = "preparing" THEN made ELSE w.session
<1> DEFINE both == [set EXCEPT !.session = ses]
<1>1. w \in WorldState /\ w.grant \in Manager /\ n \in Nat
  BY DEF Loose, WorldState, Manager
<1>2. /\ ses \in SessionState /\ ses.last = w.session.last /\ ses.peer = w.session.peer
      /\ w.session.status = "preparing" =>
           ses.status = "connecting" /\ ses.used = n /\ ses.asked = n
      /\ w.session.status # "preparing" => ses = w.session
  BY <1>1 DEF WorldState, SessionState
<1> HIDE DEF ses
<1>3. /\ set \in WorldState /\ set.grant = w.grant /\ set.page = w.page /\ set.session = w.session
      /\ set.refresh = [w.refresh EXCEPT !.connect = n]
  BY <1>1 DEF WorldState, Coordinator
<1>4. /\ both \in WorldState /\ both.grant = w.grant /\ both.page = w.page /\ both.session = ses
      /\ both.refresh = set.refresh
  BY <1>1, <1>2, <1>3 DEF WorldState
<1>5. /\ both.refresh.active = w.refresh.active /\ both.refresh.told = w.refresh.told
      /\ both.refresh.connect = n /\ both.refresh.joined = w.refresh.joined
      /\ both.refresh.turn = w.refresh.turn /\ both.refresh.renewals = w.refresh.renewals
      /\ both.refresh.timers = w.refresh.timers /\ both.refresh.wall = w.refresh.wall
  BY <1>1, <1>3, <1>4 DEF WorldState, Coordinator
<1>6. Connects(w) = Overdue(both)
  <2>1. Connects(w) = [Overdue(set) EXCEPT !.session = ses]
    <3>1. (IF w.session.status = "preparing" THEN made ELSE set.session) = ses
      BY <1>3 DEF ses
    <3>2. Overdue(set).session = set.session
      <4>1. CASE ~(set.refresh.wall = "past" /\ CanRefresh(set))
        BY <4>1 DEF Overdue
      <4>2. CASE set.refresh.wall = "past" /\ CanRefresh(set)
        <5> DEFINE u == [set EXCEPT !.refresh.wall = "none"]
        <5>1. u \in WorldState /\ u.session = set.session
          BY <1>3 DEF WorldState, Coordinator
        <5>2. Overdue(set) = Scheduled(u, "turn")
          BY <4>2 DEF Overdue
        <5> HIDE DEF u, set
        <5> QED
          BY <5>1, <5>2, SchedulingFits
      <4> QED
        BY <4>1, <4>2
    <3> QED
      BY <3>1, <3>2 DEF Connects, ses
  <2>2. both.refresh = set.refresh /\ CanRefresh(both) = CanRefresh(set)
    BY <1>4 DEF CanRefresh
  <2>3. [Overdue(set) EXCEPT !.session = ses] = Overdue(both)
    <3>1. CASE ~(set.refresh.wall = "past" /\ CanRefresh(set))
      BY <3>1, <2>2 DEF Overdue
    <3>2. CASE set.refresh.wall = "past" /\ CanRefresh(set)
      <4> DEFINE s1 == [set EXCEPT !.refresh.wall = "none"]
      <4> DEFINE b1 == [both EXCEPT !.refresh.wall = "none"]
      <4>1. CanRefresh(s1) /\ CanRefresh(b1)
        BY <3>2, <2>2, <1>3, <1>4 DEF CanRefresh, WorldState, Coordinator
      <4>2. Overdue(set) = [s1 EXCEPT !.refresh.timers = @ \cup {"turn"}]
        BY <3>2, <4>1 DEF Overdue, Scheduled
      <4>3. Overdue(both) = [b1 EXCEPT !.refresh.timers = @ \cup {"turn"}]
        BY <3>2, <2>2, <4>1 DEF Overdue, Scheduled
      <4>4. PICK r : r = [set.refresh EXCEPT !.wall = "none"]
        OBVIOUS
      <4>5. PICK q : q = [r EXCEPT !.timers = @ \cup {"turn"}]
        OBVIOUS
      <4>6. Overdue(set) = [set EXCEPT !.refresh = q]
        BY <4>2, <4>4, <4>5, <1>3 DEF WorldState
      <4>7. Overdue(both) = [both EXCEPT !.refresh = q]
        BY <4>3, <4>4, <4>5, <1>4, <2>2 DEF WorldState
      <4> HIDE DEF set
      <4> QED
        BY <4>6, <4>7, <1>3 DEF WorldState
    <3> QED
      BY <3>1, <3>2
  <2> QED
    BY <2>1, <2>3
<1> HIDE DEF both, set
<1>7. Loose(both)
  <2>1. Ends(both)
    BY <1>2, <1>4, <1>5 DEF Loose, Ends
  <2>2. TurnIsOn(both)
    BY <1>4, <1>5 DEF Loose, TurnIsOn
  <2>3. Waits(both)
    BY <1>2, <1>4 DEF Loose, Waits, Lacks
  <2>4. NoneAhead(both, n)
    BY <1>1, <1>2, <1>4, <1>5 DEF Loose, NoneAhead
  <2>5. MadeWith(both) /\ IsNew(both)
    BY <1>2, <1>4, <1>5 DEF Loose, MadeWith, IsNew
  <2>6. Told(both, n)
    BY <1>2, <1>4, <1>5 DEF Loose, Told
  <2> QED
    BY <2>1, <2>2, <2>3, <2>4, <2>5, <2>6, <1>4 DEF Loose
<1>8. Moves(Connects(w), w)
  BY <1>2, <1>4, <1>5, <1>6, <1>7, OverdueFits DEF Moves
<1> QED
  BY <1>6, <1>7, <1>8, OverdueFits

\* Only the startup, a TURN request or a session changes.
LEMMA StartupMoves ==
  ASSUME NEW w, Loose(w), w.page.startup # "none",
         NEW stage \in {"turn", "joining"}, stage = "turn" => w.session.status = "none",
         w.grant # None => Lacks(w, "startup"),
         w.refresh.active /\ w.grant # None => w.refresh.told = w.grant.issued
  PROVE  LET v == [w EXCEPT !.page.startup = stage]
         IN Loose(v) /\ Moves(v, w) /\ v.refresh = w.refresh /\ v.session = w.session
<1> DEFINE v == [w EXCEPT !.page.startup = stage]
<1>1. w \in WorldState
  BY DEF Loose
<1>2. /\ v \in WorldState /\ v.grant = w.grant /\ v.refresh = w.refresh /\ v.session = w.session
      /\ v.page = [w.page EXCEPT !.startup = stage]
  BY <1>1 DEF WorldState, PageState
<1>3. v.page.entry = w.page.entry /\ v.page.startup = stage
  BY <1>1, <1>2 DEF WorldState, PageState
<1> HIDE DEF v
<1>4. Ends(v) /\ TurnIsOn(v)
  BY <1>2, <1>3 DEF Loose, Ends, TurnIsOn
<1>5. ASSUME w.grant # None
      PROVE  Waits(v) /\ NoneAhead(v, v.grant.issued) /\ MadeWith(v) /\ IsNew(v) /\ Told(v, v.grant.issued)
  <2>1. v.grant = w.grant /\ v.refresh = w.refresh /\ v.session = w.session
    BY <1>2
  <2>2. Waits(v)
    BY <1>5, <2>1, <1>3 DEF Loose, Waits, Lacks
  <2> QED
    BY <1>5, <2>1, <2>2, <1>3 DEF Loose, NoneAhead, MadeWith, IsNew, Told
<1> QED
  BY <1>2, <1>3, <1>4, <1>5 DEF Loose, Moves, v

LEMMA TurnMoves ==
  ASSUME NEW w, Loose(w), w.page.startup # "none", NEW i \in Turns, NEW at \in {"none", "load"},
         w.refresh.active => at = "load" \/ "turn" \in w.refresh.timers
  PROVE  LET v == [w EXCEPT !.refresh.turn[i] = at] IN Loose(v) /\ Moves(v, w)
<1> DEFINE v == [w EXCEPT !.refresh.turn[i] = at]
<1>1. w \in WorldState
  BY DEF Loose
<1>2. PICK t : t = [w.refresh.turn EXCEPT ![i] = at]
  OBVIOUS
<1>3. t \in [Turns -> {"none", "grant", "load"}] /\ t[i] = at
  BY <1>1, <1>2 DEF WorldState, Coordinator
<1>4. v = [w EXCEPT !.refresh.turn = t]
  BY <1>2
<1> HIDE DEF v
<1>5. /\ v \in WorldState /\ v.grant = w.grant /\ v.page = w.page /\ v.session = w.session
      /\ v.refresh = [w.refresh EXCEPT !.turn = t]
  BY <1>1, <1>3, <1>4 DEF WorldState, Coordinator
<1>6. /\ v.refresh.active = w.refresh.active /\ v.refresh.told = w.refresh.told
      /\ v.refresh.connect = w.refresh.connect /\ v.refresh.joined = w.refresh.joined
      /\ v.refresh.turn = t /\ v.refresh.renewals = w.refresh.renewals
      /\ v.refresh.timers = w.refresh.timers
  BY <1>1, <1>5 DEF WorldState, Coordinator
<1>7. Ends(v)
  BY <1>5, <1>6 DEF Loose, Ends
<1>8. TurnIsOn(v)
  BY <1>3, <1>5, <1>6 DEF Loose, TurnIsOn
<1>9. ASSUME w.grant # None
      PROVE  Waits(v) /\ NoneAhead(v, v.grant.issued) /\ MadeWith(v) /\ IsNew(v) /\ Told(v, v.grant.issued)
  BY <1>9, <1>5, <1>6 DEF Loose, Waits, NoneAhead, MadeWith, IsNew, Told
<1> QED
  BY <1>5, <1>6, <1>7, <1>8, <1>9 DEF Loose, Moves, v

\* The caller goes on with a grant.
LEMMA ProceedingFits ==
  ASSUME NEW w, Loose(w), w.page.startup # "none", NEW who \in RoomWaiter,
         w.refresh.active /\ w.grant # None => w.refresh.told = w.grant.issued,
         who = "startup" => w.session.status = "none" /\ (w.grant # None => Lacks(w, "startup")),
         who = "connect" =>
           /\ w.grant # None /\ Lacks(w, "connect")
           /\ w.refresh.active /\ w.session.status = "preparing" => w.session.last # w.grant.issued
           /\ w.session.status = "connecting" => w.session.used = w.grant.issued
  PROVE  Loose(Proceeds(w, who)) /\ Moves(Proceeds(w, who), w)
<1>1. CASE who = "startup"
  <2>1. Proceeds(w, who) = [w EXCEPT !.page.startup = "turn"]
    BY <1>1 DEF Proceeds, Turns
  <2>2. Loose([w EXCEPT !.page.startup = "turn"]) /\ Moves([w EXCEPT !.page.startup = "turn"], w)
    BY <1>1, StartupMoves
  <2> QED
    BY <2>1, <2>2, Zenon
<1>2. CASE who = "connect"
  <2>1. Proceeds(w, who) = Connects(w)
    BY <1>2, Zenon DEF Proceeds, Turns
  <2> QED
    BY <2>1, <1>2, ConnectingFits
<1>3. CASE who \in {"timer", "device"}
  <2>1. Proceeds(w, who) = w
    BY <1>3, Zenon DEF Proceeds, Turns
  <2> QED
    BY <2>1 DEF Moves
<1>4. CASE who \in Turns
  <2> DEFINE at == IF CanRefresh(w) THEN "load" ELSE "none"
  <2>1. who \notin {"startup", "connect", "timer", "device"}
    BY Zenon, <1>4 DEF Turns
  <2>2. Proceeds(w, who) = [w EXCEPT !.refresh.turn[who] = at]
    BY <2>1, <1>4 DEF Proceeds
  <2>3. at \in {"none", "load"} /\ (w.refresh.active => at = "load")
    BY DEF CanRefresh
  <2> HIDE DEF at
  <2>4. Loose([w EXCEPT !.refresh.turn[who] = at]) /\ Moves([w EXCEPT !.refresh.turn[who] = at], w)
    BY <2>3, <1>4, TurnMoves
  <2> QED
    BY <2>2, <2>4, Zenon
<1> QED
  BY <1>1, <1>2, <1>3, <1>4 DEF RoomWaiter

\* A room that refreshes nothing any more.
LEMMA EndingFits ==
  ASSUME NEW w, Loose(w), NEW v \in WorldState,
         v.page.startup # "none", ~v.refresh.active, v.refresh.timers = {},
         v.refresh.told = w.refresh.told, v.refresh.connect = w.refresh.connect,
         v.refresh.joined = w.refresh.joined, v.refresh.renewals = w.refresh.renewals,
         v.session.used = w.session.used, v.session.last = w.session.last,
         v.session.asked = w.session.asked,
         v.session.status = "connecting" => w.session.status = "connecting",
         v.page.startup \in {"grant", "turn"} => v.session.status = "none",
         v.grant = None => w.grant = None /\ v.page.entry = w.page.entry,
         v.grant # None => /\ w.grant # None /\ v.grant.issued = w.grant.issued
                           /\ v.grant.fresh = w.grant.fresh /\ Waits(v)
  PROVE  Loose(v)
<1>1. Ends(v) /\ TurnIsOn(v)
  BY DEF Loose, Ends, TurnIsOn
<1>2. ASSUME v.grant # None
      PROVE  NoneAhead(v, v.grant.issued) /\ MadeWith(v) /\ IsNew(v) /\ Told(v, v.grant.issued)
  BY <1>2 DEF Loose, NoneAhead, MadeWith, IsNew, Told
<1> QED
  BY <1>1, <1>2 DEF Loose

LEMMA TwoFields ==
  ASSUME NEW r \in Coordinator, NEW t
  PROVE  [[r EXCEPT !.timers = @ \cup {"turn"}] EXCEPT !.turn = t]
           = [[r EXCEPT !.turn = t] EXCEPT !.timers = @ \cup {"turn"}]
BY DEF Coordinator

LEMMA LastRefresh ==
  ASSUME NEW w \in WorldState, NEW r, NEW q
  PROVE  [[w EXCEPT !.refresh = r] EXCEPT !.refresh = q] = [w EXCEPT !.refresh = q]
BY DEF WorldState

\* What the caller of a grant that fails does not change.
FailsOnly(v, w) ==
  /\ v.grant = w.grant /\ v.page.entry = w.page.entry /\ v.page.startup # "none"
  /\ v.refresh.active => w.refresh.active /\ w.refresh.timers \subseteq v.refresh.timers

\* A request for TURN credentials fails, or the grant for it does.
LEMMA TurnFailingFits ==
  ASSUME NEW w, Loose(w), w.page.startup # "none", NEW i \in Turns
  PROVE  LET v == Scheduled([w EXCEPT !.refresh.turn[i] = "none"], "turn")
         IN Loose(v) /\ FailsOnly(v, w)
<1>0. w \in WorldState
  BY DEF Loose
<1> DEFINE u == [w EXCEPT !.refresh.turn[i] = "none"]
<1>3. CanRefresh(u) = w.refresh.active
  BY <1>0 DEF CanRefresh, WorldState, Coordinator
<1>4. CASE ~w.refresh.active
  <2>1. Scheduled(u, "turn") = u
    BY <1>3, <1>4 DEF Scheduled
  <2>2. Loose(u) /\ Moves(u, w)
    BY <1>4, TurnMoves
  <2>3. FailsOnly(u, w)
    <3> HIDE DEF u
    <3> QED
      BY <2>2, <1>4 DEF FailsOnly, Moves
  <2> QED
    BY <2>1, <2>2, <2>3, Zenon
<1>5. CASE w.refresh.active
  <2> DEFINE s == Scheduled(w, "turn")
  <2>1. /\ s \in WorldState /\ s.grant = w.grant /\ s.page = w.page /\ s.session = w.session
        /\ s.refresh.active /\ s.refresh.told = w.refresh.told
        /\ "turn" \in s.refresh.timers /\ w.refresh.timers \subseteq s.refresh.timers /\ Loose(s)
    BY <1>0, <1>5, SchedulingFits
  <2>2. [s EXCEPT !.refresh.turn[i] = "none"] = Scheduled(u, "turn")
    <3>1. PICK t : t = [w.refresh.turn EXCEPT ![i] = "none"]
      OBVIOUS
    <3>2. u = [w EXCEPT !.refresh.turn = t] /\ u.refresh = [w.refresh EXCEPT !.turn = t]
      BY <3>1, <1>0 DEF WorldState
    <3>3. s = [w EXCEPT !.refresh.timers = @ \cup {"turn"}]
      BY <1>5 DEF Scheduled, CanRefresh
    <3>4. s.refresh = [w.refresh EXCEPT !.timers = @ \cup {"turn"}]
      BY <3>3, <1>0 DEF WorldState
    <3>5. s.refresh.turn = w.refresh.turn
      BY <3>4, <1>0 DEF WorldState, Coordinator
    <3>6. Scheduled(u, "turn") = [u EXCEPT !.refresh.timers = @ \cup {"turn"}]
      BY <1>3, <1>5 DEF Scheduled
    <3>7. [s EXCEPT !.refresh.turn[i] = "none"] = [s EXCEPT !.refresh.turn = t]
      BY <3>1, <3>5
    <3>8. [s EXCEPT !.refresh.turn = t] = [w EXCEPT !.refresh = [s.refresh EXCEPT !.turn = t]]
      BY <3>3, <1>0 DEF WorldState
    <3>9. [u EXCEPT !.refresh.timers = @ \cup {"turn"}]
            = [w EXCEPT !.refresh = [u.refresh EXCEPT !.timers = @ \cup {"turn"}]]
      <4> HIDE DEF s, u
      <4>1. PICK q : q = [u.refresh EXCEPT !.timers = @ \cup {"turn"}]
        OBVIOUS
      <4>2. PICK r : r = [w.refresh EXCEPT !.turn = t]
        OBVIOUS
      <4>3. [u EXCEPT !.refresh = q] = [w EXCEPT !.refresh = q]
        <5>1. u = [w EXCEPT !.refresh = r]
          BY <3>2, <4>2
        <5>2. [[w EXCEPT !.refresh = r] EXCEPT !.refresh = q] = [w EXCEPT !.refresh = q]
          BY Zenon, <1>0, LastRefresh
        <5> QED
          BY <5>1, <5>2, Zenon
      <4> QED
        BY <4>1, <4>3, Zenon
    <3>10. [s.refresh EXCEPT !.turn = t] = [u.refresh EXCEPT !.timers = @ \cup {"turn"}]
      <4>1. w.refresh \in Coordinator
        BY <1>0 DEF WorldState
      <4> HIDE DEF s, u
      <4>2. [[w.refresh EXCEPT !.timers = @ \cup {"turn"}] EXCEPT !.turn = t]
              = [[w.refresh EXCEPT !.turn = t] EXCEPT !.timers = @ \cup {"turn"}]
        BY Zenon, <4>1, TwoFields
      <4>3. u.refresh = [w.refresh EXCEPT !.turn = t]
        BY <3>2
      <4>4. u.refresh.timers = [w.refresh EXCEPT !.turn = t].timers
        BY <4>3, Zenon
      <4> QED
        BY <4>2, <4>3, <4>4, <3>4, Zenon
    <3> HIDE DEF s, u
    <3> QED
      BY <3>6, <3>7, <3>8, <3>9, <3>10, Zenon
  <2> DEFINE v == [s EXCEPT !.refresh.turn[i] = "none"]
  <2> HIDE DEF s
  <2>3. Loose(v) /\ Moves(v, s)
    BY <2>1, TurnMoves
  <2> HIDE DEF v
  <2>4. Scheduled(u, "turn") = v
    BY <2>2 DEF v
  <2>5. FailsOnly(v, w)
    BY <2>1, <2>3, <1>5 DEF FailsOnly, Moves
  <2> QED
    BY <2>3, <2>4, <2>5
<1> QED
  BY <1>4, <1>5

LEMMA FailingFits ==
  ASSUME NEW w, Loose(w), w.page.startup # "none", NEW who \in RoomWaiter,
         w.grant # None => w.grant.waiting = <<>>
  PROVE  Loose(Fails(w, who)) /\ FailsOnly(Fails(w, who), w)
<1>0. w \in WorldState
  BY DEF Loose
<1> DEFINE failed == [w EXCEPT !.page.startup = "failed"]
<1>1. /\ failed \in WorldState /\ failed.grant = w.grant /\ failed.session = w.session
      /\ failed.refresh = w.refresh
      /\ failed.page = [w.page EXCEPT !.startup = "failed"]
  BY <1>0 DEF WorldState, PageState
<1>2. failed.page.entry = w.page.entry /\ failed.page.startup = "failed"
  BY <1>0, <1>1 DEF WorldState, PageState
<1>3. CASE who = "startup"
  <2>1. Fails(w, who) = Stopped(failed)
    BY <1>3, Zenon DEF Fails, StartupFails, Turns
  <2> DEFINE v == Stopped(failed)
  <2> HIDE DEF failed
  <2>2. /\ v \in WorldState /\ v.grant = w.grant /\ v.session = w.session /\ v.page = failed.page
        /\ ~v.refresh.active /\ v.refresh.timers = {}
        /\ v.refresh.told = w.refresh.told /\ v.refresh.connect = w.refresh.connect
        /\ v.refresh.joined = w.refresh.joined /\ v.refresh.renewals = w.refresh.renewals
    BY <1>1, StoppingFits
  <2> HIDE DEF v
  <2>3. w.grant # None => Waits(v)
    BY <1>2, <2>2 DEF Loose, Waits
  <2>4. Loose(v)
    BY <2>2, <2>3, <1>2, EndingFits
  <2> QED
    BY <2>1, <2>2, <2>4, <1>2 DEF FailsOnly, v
<1>4. CASE who = "connect"
  <2>1. CASE w.session.status # "preparing"
    <3>1. Fails(w, who) = w
      BY <1>4, <2>1, Zenon DEF Fails, Turns
    <3> QED
      BY <3>1 DEF FailsOnly
  <2>2. CASE w.session.status = "preparing" /\ w.page.startup = "joining"
    <3> DEFINE over == [failed EXCEPT !.session.status = "over"]
    <3> DEFINE v == Stopped(over)
    <3>1. Fails(w, who) = v
      BY <1>4, <2>2, Zenon DEF Fails, SessionOver, Turns
    <3> HIDE DEF failed
    <3>2. /\ over \in WorldState /\ over.grant = w.grant /\ over.page = failed.page
          /\ over.refresh = w.refresh
          /\ over.session = [w.session EXCEPT !.status = "over"]
      BY <1>0, <1>1 DEF WorldState, SessionState
    <3>3. /\ over.session.status = "over" /\ over.session.used = w.session.used
          /\ over.session.last = w.session.last /\ over.session.asked = w.session.asked
      BY <1>0, <3>2 DEF WorldState, SessionState
    <3> HIDE DEF over
    <3>4. /\ v \in WorldState /\ v.grant = w.grant /\ v.session = over.session /\ v.page = failed.page
          /\ ~v.refresh.active /\ v.refresh.timers = {}
          /\ v.refresh.told = w.refresh.told /\ v.refresh.connect = w.refresh.connect
          /\ v.refresh.joined = w.refresh.joined /\ v.refresh.renewals = w.refresh.renewals
      BY <3>2, StoppingFits
    <3> HIDE DEF v
    <3>5. w.grant # None => Waits(v)
      BY <1>2, <3>4 DEF Loose, Waits
    <3>6. Loose(v)
      BY <3>3, <3>4, <3>5, <1>2, EndingFits
    <3> QED
      BY <3>1, <3>4, <3>6, <1>2 DEF FailsOnly
  <2>3. CASE w.session.status = "preparing" /\ w.page.startup # "joining"
    <3> DEFINE v == [w EXCEPT !.session.status = "lost"]
    <3>1. Fails(w, who) = v
      BY <1>4, <2>3, Zenon DEF Fails, Turns
    <3>2. /\ v \in WorldState /\ v.grant = w.grant /\ v.page = w.page /\ v.refresh = w.refresh
          /\ v.session = [w.session EXCEPT !.status = "lost"]
      BY <1>0 DEF WorldState, SessionState
    <3>3. /\ v.session.status = "lost" /\ v.session.used = w.session.used
          /\ v.session.last = w.session.last /\ v.session.asked = w.session.asked
      BY <1>0, <3>2 DEF WorldState, SessionState
    <3> HIDE DEF v
    <3>4. Ends(v) /\ TurnIsOn(v)
      BY <2>3, <3>2, <3>3 DEF Loose, Ends, TurnIsOn
    <3>5. ASSUME w.grant # None
          PROVE  Waits(v) /\ NoneAhead(v, v.grant.issued) /\ MadeWith(v) /\ IsNew(v) /\ Told(v, v.grant.issued)
      BY <3>5, <3>2, <3>3 DEF Loose, Waits, NoneAhead, MadeWith, IsNew, Told
    <3>6. Loose(v)
      BY <3>2, <3>4, <3>5 DEF Loose
    <3> QED
      BY <3>1, <3>2, <3>6 DEF FailsOnly
  <2> QED
    BY <2>1, <2>2, <2>3
<1>5. CASE who \in {"timer", "device"}
  <2>1. Fails(w, who) = w
    BY <1>5, Zenon DEF Fails, Turns
  <2> QED
    BY <2>1 DEF FailsOnly
<1>6. CASE who \in Turns
  <2> DEFINE u == [w EXCEPT !.refresh.turn[who] = "none"]
  <2>1. who \notin {"startup", "connect", "timer", "device"}
    BY Zenon, <1>6 DEF Turns
  <2>2. Fails(w, who) = Scheduled(u, "turn")
    BY <2>1, <1>6 DEF Fails
  <2>3. Loose(Scheduled(u, "turn")) /\ FailsOnly(Scheduled(u, "turn"), w)
    BY <1>6, TurnFailingFits
  <2> QED
    BY <2>2, <2>3, Zenon
<1> QED
  BY <1>3, <1>4, <1>5, <1>6 DEF RoomWaiter

\* One more waits for the grant.
LEMMA AskingFits ==
  ASSUME NEW w, Loose(w), w.grant # None, ~w.grant.closed, w.page.startup # "none",
         NEW who \in RoomWaiter, who = "connect" => w.session.status = "preparing",
         who = "startup" => w.page.startup = "grant"
  PROVE  RoomFits([w EXCEPT !.grant = Asks(@, who)])
<1> DEFINE g == w.grant
<1> DEFINE v == [w EXCEPT !.grant = Asks(@, who)]
<1>1. w \in WorldState /\ g \in Manager
  BY DEF Loose, WorldState
<1>2. PICK waiting : waiting = Append(g.waiting, who)
  OBVIOUS
<1>3. PICK step : step = IF g.step = "none" THEN "session" ELSE g.step
  OBVIOUS
<1>4. g.waiting \in Seq(RoomWaiter)
  BY DEF Loose, Waits
<1>5. waiting \in Seq(RoomWaiter) /\ waiting \in Seq(Waiter) /\ waiting # <<>>
  BY <1>2, <1>4 DEF Waiter
<1>6. step \in {"session", "lease"}
  BY <1>1, <1>3 DEF Manager
<1>7. PICK h : h = [g EXCEPT !.waiting = waiting, !.step = step]
  OBVIOUS
<1>8. /\ h \in Manager /\ h.waiting = waiting /\ h.step = step /\ h.issued = g.issued
      /\ h.fresh = g.fresh /\ h.closed = g.closed
  BY <1>1, <1>5, <1>6, <1>7 DEF Manager
<1>9. v = [w EXCEPT !.grant = h]
  BY <1>2, <1>3, <1>7 DEF Asks
<1> HIDE DEF v
<1>10. /\ v \in WorldState /\ v.grant = h /\ v.page = w.page /\ v.refresh = w.refresh
       /\ v.session = w.session /\ h # None
  BY <1>1, <1>8, <1>9, NoneIsNone DEF WorldState
<1>11. Waits(v)
  <2>1. ASSUME NEW i \in DOMAIN waiting
        PROVE  /\ waiting[i] = "connect" => w.session.status = "preparing"
               /\ waiting[i] = "startup" => w.page.startup = "grant"
    <3>1. CASE i \in DOMAIN g.waiting
      BY <3>1, <1>2, <1>4 DEF Loose, Waits
    <3>2. CASE i \notin DOMAIN g.waiting
      BY <3>2, <1>2, <1>4
    <3> QED
      BY <3>1, <3>2
  <2> QED
    BY <2>1, <1>5, <1>6, <1>8, <1>10 DEF Loose, Waits
<1>12. Ends(v) /\ TurnIsOn(v)
  BY <1>10 DEF Loose, Ends, TurnIsOn
<1>13. NoneAhead(v, v.grant.issued) /\ MadeWith(v) /\ IsNew(v) /\ Told(v, v.grant.issued)
  BY <1>8, <1>10 DEF Loose, NoneAhead, MadeWith, IsNew, Told
<1>14. v.grant.fresh => v.grant.issued > 0
  BY <1>8, <1>10 DEF Loose
<1>15. GrantIsOn(v)
  BY <1>5, <1>8, <1>10 DEF GrantIsOn
<1> QED
  BY <1>10, <1>11, <1>12, <1>13, <1>14, <1>15 DEF RoomFits, Loose, v

\* Whoever needs a grant that is fresh.
LEMMA EnsuringFits ==
  ASSUME NEW w, Loose(w), w.page.startup # "none", NEW who \in RoomWaiter, NEW force \in BOOLEAN,
         who = "startup" =>
           /\ w.page.startup = "grant" /\ w.session.status = "none"
           /\ w.grant # None => Lacks(w, "startup"),
         who = "connect" =>
           /\ w.grant # None /\ Lacks(w, "connect") /\ w.session.status = "preparing"
           /\ ~force /\ w.grant.fresh => w.session.last # w.grant.issued
  PROVE  RoomFits(EnsureFresh(w, who, force))
<1> DEFINE v == EnsureFresh(w, who, force)
<1>1. CASE w.grant = None \/ ~CanRefresh(w)
  <2>1. v = Proceeds(w, who)
    BY <1>1 DEF EnsureFresh
  <2>2. w.grant = None \/ ~w.refresh.active
    BY <1>1 DEF CanRefresh
  <2>3. Loose(v) /\ Moves(v, w)
    <3> HIDE DEF v
    <3> QED
      BY <2>1, <2>2, ProceedingFits
  <2> HIDE DEF v
  <2> QED
    BY <2>2, <2>3 DEF RoomFits, GrantIsOn, Moves, v
<1>2. CASE w.grant # None /\ CanRefresh(w) /\ w.grant.closed
  <2>1. v = Fails(Scheduled(w, "grant"), who)
    BY <1>2 DEF EnsureFresh, Failed
  <2> DEFINE s == Scheduled(w, "grant")
  <2>2. w \in WorldState
    BY DEF Loose
  <2>3. /\ Loose(s) /\ s.grant = w.grant /\ s.page = w.page /\ "grant" \in s.refresh.timers
    BY <1>2, <2>2, SchedulingFits DEF CanRefresh
  <2>4. s.grant.waiting = <<>>
    BY <1>2, <2>3 DEF Loose, Waits
  <2> HIDE DEF s
  <2>5. Loose(Fails(s, who)) /\ FailsOnly(Fails(s, who), s)
    BY <2>3, <2>4, FailingFits
  <2>6. v = Fails(s, who)
    BY <2>1 DEF s
  <2> HIDE DEF v
  <2>7. Loose(v) /\ FailsOnly(v, s)
    BY <2>5, <2>6, Zenon
  <2>8. GrantIsOn(v)
    BY <2>3, <2>7 DEF GrantIsOn, FailsOnly
  <2> QED
    BY <2>7, <2>8 DEF RoomFits, v
<1>3. CASE w.grant # None /\ CanRefresh(w) /\ ~w.grant.closed /\ IsFresh(w.grant, force)
  <2> DEFINE u == Informed(w)
  <2>1. v = Granted(w, who)
    BY <1>3 DEF EnsureFresh
  <2>2. Nearly(w) /\ Told(w, w.grant.issued)
    BY <1>3, NoneIsNone DEF Loose, Nearly, WorldState
  <2>3. w.refresh.active /\ w.refresh.told # w.grant.issued => w.session.status # "connecting"
    BY <2>2 DEF Told, Loose, Ends
  <2>4. /\ Loose(u) /\ AsBefore(u, w) /\ Granted(w, who) = Proceeds(u, who)
        /\ u.refresh.active => u.refresh.told = u.grant.issued /\ "grant" \in u.refresh.timers
    BY <1>3, <2>2, <2>3, InformingFits
  <2> HIDE DEF u, v
  <2>5. ~force /\ w.grant.fresh
    BY <1>3 DEF IsFresh
  <2>6. Loose(Proceeds(u, who)) /\ Moves(Proceeds(u, who), u)
    <3>1. who = "connect" =>
            /\ u.grant # None /\ Lacks(u, "connect")
            /\ u.refresh.active /\ u.session.status = "preparing" => u.session.last # u.grant.issued
            /\ u.session.status = "connecting" => u.session.used = u.grant.issued
      BY <2>4, <2>5 DEF AsBefore, Lacks
    <3>2. u.page.startup # "none" /\ (who = "startup" => u.session.status = "none" /\ (u.grant # None => Lacks(u, "startup")))
      BY <2>4 DEF AsBefore, Lacks
    <3> QED
      BY <3>1, <3>2, <2>4, ProceedingFits
  <2>7. Loose(v) /\ Moves(v, u)
    BY <2>1, <2>4, <2>6, Zenon
  <2> QED
    BY <2>4, <2>7 DEF RoomFits, GrantIsOn, Moves, v
<1>4. CASE w.grant # None /\ CanRefresh(w) /\ ~w.grant.closed /\ ~IsFresh(w.grant, force)
  <2>1. v = [w EXCEPT !.grant = Asks(@, who)]
    BY <1>4 DEF EnsureFresh
  <2>2. RoomFits([w EXCEPT !.grant = Asks(@, who)])
    BY <1>4, AskingFits
  <2> QED
    BY <2>1, <2>2, Zenon
<1> QED
  BY <1>1, <1>2, <1>3, <1>4

-----------------------------------------------------------------------------
(* The timers, requests and answers                                        *)

LEMMA BecomingFits ==
  ASSUME NEW v, RoomFits(v), Becomes(v)
  PROVE  World' = v /\ RoomFits(World')
<1>1. v \in WorldState
  BY DEF RoomFits, Loose
<1>2. v = [grant |-> v.grant, page |-> v.page, refresh |-> v.refresh, session |-> v.session]
  BY <1>1 DEF WorldState
<1>3. World' = v
  BY <1>2 DEF World, Becomes
<1> QED
  BY <1>3, Zenon

\* A timer that was set fires.
LEMMA FiringFits ==
  ASSUME RoomFits(World), NEW timer \in refresh.timers
  PROVE  LET u == Fired(timer)
         IN /\ u \in WorldState /\ u.grant = grant /\ u.page = page /\ u.session = session
            /\ u.refresh = [refresh EXCEPT !.timers = @ \ {timer}]
            /\ u.refresh.active /\ u.page.startup # "none" /\ refresh.active
            /\ u.refresh.told = refresh.told /\ u.refresh.turn = refresh.turn
            /\ u.refresh.connect = refresh.connect /\ u.refresh.joined = refresh.joined
            /\ u.refresh.renewals = refresh.renewals
            /\ u.refresh.timers = refresh.timers \ {timer}
            /\ Ends(u)
            /\ timer # "turn" => TurnIsOn(u)
            /\ grant # None => Waits(u) /\ NoneAhead(u, grant.issued) /\ MadeWith(u) /\ IsNew(u)
            /\ grant # None /\ timer # "lease" => Told(u, grant.issued)
            /\ timer = "lease" => grant # None
            /\ grant # None /\ timer # "grant" => GrantIsOn(u)
<1> DEFINE u == Fired(timer)
<1>1. World \in WorldState /\ Loose(World)
  BY DEF RoomFits, Loose
<1>2. /\ u \in WorldState /\ u.grant = grant /\ u.page = page /\ u.session = session
      /\ u.refresh = [refresh EXCEPT !.timers = @ \ {timer}]
  BY <1>1, WorldIs DEF Fired, WorldState, Coordinator
<1>3. /\ u.refresh.active = refresh.active /\ u.refresh.told = refresh.told
      /\ u.refresh.turn = refresh.turn
      /\ u.refresh.connect = refresh.connect /\ u.refresh.joined = refresh.joined
      /\ u.refresh.renewals = refresh.renewals
      /\ u.refresh.timers = refresh.timers \ {timer}
  BY <1>1, <1>2, WorldIs DEF WorldState, Coordinator
<1>4. refresh.active /\ page.startup # "none"
  BY <1>1, WorldIs DEF Loose, Ends, Off, NewCoordinator
<1> HIDE DEF u
<1>5. Ends(u) /\ (timer = "lease" => grant # None)
  BY <1>1, <1>2, <1>3, <1>4, WorldIs DEF Loose, Ends
<1>6. timer # "turn" => TurnIsOn(u)
  BY <1>1, <1>2, <1>3, WorldIs DEF Loose, TurnIsOn
<1>7. grant # None => Waits(u) /\ NoneAhead(u, grant.issued) /\ MadeWith(u) /\ IsNew(u)
  BY <1>1, <1>2, <1>3, WorldIs DEF Loose, Waits, NoneAhead, MadeWith, IsNew
<1>8. grant # None /\ timer # "lease" => Told(u, grant.issued)
  BY <1>1, <1>2, <1>3, WorldIs DEF Loose, Told
<1>9. grant # None /\ timer # "grant" => GrantIsOn(u)
  BY <1>2, <1>3, WorldIs DEF RoomFits, GrantIsOn
<1> QED
  BY <1>2, <1>3, <1>4, <1>5, <1>6, <1>7, <1>8, <1>9 DEF u
LEMMA GrantTimerFits ==
  ASSUME RoomFits(World), GrantTimer
  PROVE  RoomFits(World')
<1> DEFINE u == Fired("grant")
<1> DEFINE v == EnsureFresh(u, "timer", FALSE)
<1>1. "grant" \in refresh.timers /\ Becomes(v)
  BY DEF GrantTimer
<1>2. Loose(u) /\ u.page.startup # "none"
  <2> DEFINE t == "grant"
  <2>1. /\ u \in WorldState /\ u.grant = grant /\ u.page.startup # "none"
        /\ Ends(u) /\ TurnIsOn(u)
        /\ grant # None => /\ Waits(u) /\ NoneAhead(u, grant.issued) /\ MadeWith(u) /\ IsNew(u)
                           /\ Told(u, grant.issued)
    BY <1>1, FiringFits
  <2>2. grant # None => (grant.fresh => grant.issued > 0)
    BY WorldIs DEF RoomFits, Loose
  <2> HIDE DEF u
  <2> QED
    BY <2>1, <2>2 DEF Loose
<1> HIDE DEF u
<1>4. RoomFits(v)
  BY <1>2, EnsuringFits DEF RoomWaiter
<1> HIDE DEF v
<1> QED
  BY <1>1, <1>4, BecomingFits

LEMMA TurnTimerFits ==
  ASSUME RoomFits(World), NEW i \in Turns, TurnTimer(i)
  PROVE  RoomFits(World')
<1> DEFINE f == Fired("turn")
<1> DEFINE u == [f EXCEPT !.refresh.turn[i] = "grant"]
<1> DEFINE v == EnsureFresh(u, i, FALSE)
<1>1. "turn" \in refresh.timers /\ Becomes(v)
  BY DEF TurnTimer
<1>2. /\ f \in WorldState /\ f.grant = grant /\ f.page = page /\ f.session = session
      /\ f.page.startup # "none" /\ Ends(f)
      /\ grant # None => /\ Waits(f) /\ NoneAhead(f, grant.issued) /\ MadeWith(f) /\ IsNew(f)
                         /\ Told(f, grant.issued)
  BY <1>1, FiringFits
<1>3. grant # None => (grant.fresh => grant.issued > 0)
  BY WorldIs DEF RoomFits, Loose
<1>4. PICK t : t = [f.refresh.turn EXCEPT ![i] = "grant"]
  OBVIOUS
<1> HIDE DEF f
<1>5. t \in [Turns -> {"none", "grant", "load"}] /\ t[i] = "grant"
  BY <1>2, <1>4 DEF WorldState, Coordinator
<1>6. u = [f EXCEPT !.refresh.turn = t]
  BY <1>4
<1> HIDE DEF u
<1>7. /\ u \in WorldState /\ u.grant = f.grant /\ u.page = f.page /\ u.session = f.session
      /\ u.refresh = [f.refresh EXCEPT !.turn = t]
  BY <1>2, <1>5, <1>6 DEF WorldState, Coordinator
<1>8. /\ u.refresh.active = f.refresh.active /\ u.refresh.told = f.refresh.told
      /\ u.refresh.connect = f.refresh.connect /\ u.refresh.joined = f.refresh.joined
      /\ u.refresh.turn = t /\ u.refresh.renewals = f.refresh.renewals
      /\ u.refresh.timers = f.refresh.timers
  BY <1>2, <1>7 DEF WorldState, Coordinator
<1>9. Ends(u)
  BY <1>2, <1>7, <1>8 DEF Ends
<1>10. TurnIsOn(u)
  BY <1>5, <1>8 DEF TurnIsOn
<1>11. ASSUME u.grant # None
       PROVE  Waits(u) /\ NoneAhead(u, u.grant.issued) /\ MadeWith(u) /\ IsNew(u) /\ Told(u, u.grant.issued)
  BY <1>11, <1>2, <1>7, <1>8 DEF Waits, NoneAhead, MadeWith, IsNew, Told
<1>12. Loose(u) /\ u.page.startup # "none"
  BY <1>2, <1>3, <1>7, <1>9, <1>10, <1>11 DEF Loose
<1>14. i \in RoomWaiter /\ i \notin {"connect", "startup"}
  BY TurnsWait
<1>15. RoomFits(v)
  BY <1>12, <1>14, EnsuringFits
<1> HIDE DEF v
<1> QED
  BY <1>1, <1>15, BecomingFits

LEMMA LeaseTimerFits ==
  ASSUME RoomFits(World), LeaseTimer
  PROVE  RoomFits(World')
<1> DEFINE u == Fired("lease")
<1> DEFINE v == Renewed(u, refresh.retries)
<1>1. "lease" \in refresh.timers /\ Becomes(v)
  BY DEF LeaseTimer
<1>2. /\ u \in WorldState /\ u.grant = grant /\ u.page = page /\ u.session = session
      /\ u.refresh.active /\ u.refresh.told = refresh.told /\ grant # None
      /\ Ends(u) /\ TurnIsOn(u) /\ GrantIsOn(u)
      /\ Waits(u) /\ NoneAhead(u, grant.issued) /\ MadeWith(u) /\ IsNew(u)
  BY <1>1, FiringFits
<1>3. (grant.fresh => grant.issued > 0) /\ Told(World, grant.issued) /\ refresh.retries \in Nat
  BY <1>2, WorldIs DEF RoomFits, Loose, WorldState, Coordinator
<1> HIDE DEF u
<1>4. Nearly(u)
  BY <1>2, <1>3 DEF Nearly, WorldState
<1>5. /\ Nearly(v) /\ AsBefore(v, u)
      /\ v.refresh.told = u.refresh.told /\ v.refresh.timers = u.refresh.timers
      /\ v.session.status = "active" =>
           \E r \in v.refresh.renewals : r.peer = v.session.peer /\ r.grant = v.grant.issued
      /\ v.session.status # "active" =>
           (v.session.missed <=> u.session.missed \/ u.session.used < u.grant.issued)
  BY <1>2, <1>3, <1>4, RenewingFits
<1> HIDE DEF v
<1>6. Told(v, v.grant.issued)
  <2>1. v.refresh.active /\ refresh.active
    BY <1>1, <1>2, <1>5, WorldIs DEF AsBefore, RoomFits, Loose, Ends
  <2>2. v.page.startup # "grant" => v.refresh.told = v.grant.issued
    BY <1>2, <1>3, <1>5, <2>1, WorldIs DEF AsBefore, Told
  <2>3. v.session.status = "connecting" => v.session.asked = v.grant.issued \/ v.session.missed
    BY <1>2, <1>3, <1>5, <2>1, WorldIs DEF AsBefore, Told
  <2> QED
    BY <2>2, <2>3, <1>5 DEF Told
<1>7. GrantIsOn(v)
  BY <1>2, <1>5 DEF GrantIsOn, AsBefore
<1>8. RoomFits(v)
  BY <1>5, <1>6, <1>7 DEF RoomFits, Loose, Nearly
<1> QED
  BY <1>1, <1>8, BecomingFits
\* The requests for TURN credentials, the clock and further timers change.
LEMMA SettingFits ==
  ASSUME NEW w, Loose(w), NEW v \in WorldState,
         v.grant = w.grant, v.page = w.page, v.session = w.session, w.page.startup # "none",
         v.refresh.active = w.refresh.active, v.refresh.told = w.refresh.told,
         v.refresh.connect = w.refresh.connect, v.refresh.joined = w.refresh.joined,
         v.refresh.renewals = w.refresh.renewals,
         w.refresh.timers \subseteq v.refresh.timers,
         v.refresh.timers \subseteq w.refresh.timers \cup {"turn"},
         ~v.refresh.active => v.refresh.timers = {},
         TurnIsOn(v)
  PROVE  Loose(v) /\ (GrantIsOn(w) => GrantIsOn(v))
<1>1. Ends(v)
  BY DEF Loose, Ends
<1>2. ASSUME v.grant # None
      PROVE  Waits(v) /\ NoneAhead(v, v.grant.issued) /\ MadeWith(v) /\ IsNew(v) /\ Told(v, v.grant.issued)
  BY <1>2 DEF Loose, Waits, NoneAhead, MadeWith, IsNew, Told
<1>3. GrantIsOn(w) => GrantIsOn(v)
  BY DEF GrantIsOn
<1> QED
  BY <1>1, <1>2, <1>3 DEF Loose

LEMMA TurnSettled ==
  ASSUME RoomFits(World), NEW i \in Turns, refresh.turn[i] = "load"
  PROVE  LET u == [World EXCEPT !.refresh.turn[i] = "none"]
         IN /\ u \in WorldState /\ u.grant = grant /\ u.page = page /\ u.session = session
            /\ u.refresh.active = refresh.active /\ u.refresh.told = refresh.told
            /\ u.refresh.connect = refresh.connect /\ u.refresh.joined = refresh.joined
            /\ u.refresh.renewals = refresh.renewals
            /\ u.refresh.timers = refresh.timers /\ page.startup # "none"
<1> DEFINE u == [World EXCEPT !.refresh.turn[i] = "none"]
<1>1. World \in WorldState /\ Loose(World)
  BY DEF RoomFits, Loose
<1>2. page.startup # "none"
  <2>1. refresh # Off
    BY DEF Off, NewCoordinator
  <2> QED
    BY <2>1, <1>1, WorldIs DEF Loose, Ends
<1>3. PICK t : t = [refresh.turn EXCEPT ![i] = "none"]
  OBVIOUS
<1>4. t \in [Turns -> {"none", "grant", "load"}]
  BY <1>1, <1>3, WorldIs DEF WorldState, Coordinator
<1>5. u = [World EXCEPT !.refresh.turn = t]
  BY <1>3, WorldIs
<1> HIDE DEF u
<1>6. /\ u \in WorldState /\ u.grant = grant /\ u.page = page /\ u.session = session
      /\ u.refresh = [refresh EXCEPT !.turn = t]
  BY <1>1, <1>4, <1>5, WorldIs DEF WorldState, Coordinator
<1>7. /\ u.refresh.active = refresh.active /\ u.refresh.told = refresh.told
      /\ u.refresh.connect = refresh.connect /\ u.refresh.joined = refresh.joined
      /\ u.refresh.renewals = refresh.renewals /\ u.refresh.timers = refresh.timers
  BY <1>1, <1>6, WorldIs DEF WorldState, Coordinator
<1> QED
  BY <1>2, <1>6, <1>7 DEF u

\* A request for TURN credentials is over.
LEMMA TurnLoadedFits ==
  ASSUME RoomFits(World), NEW i \in Turns, TurnLoaded(i)
  PROVE  RoomFits(World')
<1> DEFINE u == [World EXCEPT !.refresh.turn[i] = "none"]
<1> DEFINE l == [u EXCEPT !.refresh.wall = "later"]
<1> DEFINE v == Configured(u)
<1>1. refresh.turn[i] = "load" /\ Becomes(v)
  BY DEF TurnLoaded
<1>2. /\ u \in WorldState /\ u.grant = grant /\ u.page = page /\ u.session = session
      /\ u.refresh.active = refresh.active /\ u.refresh.told = refresh.told
      /\ u.refresh.connect = refresh.connect /\ u.refresh.joined = refresh.joined
      /\ u.refresh.renewals = refresh.renewals
      /\ u.refresh.timers = refresh.timers /\ page.startup # "none"
  BY <1>1, TurnSettled
<1> HIDE DEF u
<1>3. Loose(World) /\ (grant # None => GrantIsOn(World)) /\ (~refresh.active => refresh.timers = {})
  BY WorldIs DEF RoomFits, Loose, Ends
<1>4. CASE ~refresh.active
  <2>1. v = u
    BY <1>2, <1>4 DEF Configured, CanRefresh
  <2>2. TurnIsOn(u)
    BY <1>2, <1>4 DEF TurnIsOn
  <2>3. RoomFits(u)
    BY <1>2, <1>3, <2>2, SettingFits, WorldIs DEF RoomFits
  <2> HIDE DEF v
  <2> QED
    BY <1>1, <2>1, <2>3, BecomingFits
<1>5. CASE refresh.active
  <2>1. v = [l EXCEPT !.refresh.timers = @ \cup {"turn"}]
    BY <1>2, <1>5 DEF Configured, CanRefresh, Scheduled, WorldState, Coordinator
  <2>2. /\ l \in WorldState /\ l.grant = u.grant /\ l.page = u.page /\ l.session = u.session
        /\ l.refresh = [u.refresh EXCEPT !.wall = "later"]
    BY <1>2 DEF WorldState, Coordinator
  <2>3. /\ l.refresh.active = u.refresh.active /\ l.refresh.told = u.refresh.told
        /\ l.refresh.connect = u.refresh.connect /\ l.refresh.joined = u.refresh.joined
        /\ l.refresh.renewals = u.refresh.renewals /\ l.refresh.timers = u.refresh.timers
    BY <1>2, <2>2 DEF WorldState, Coordinator
  <2> HIDE DEF l, v
  <2>4. /\ v \in WorldState /\ v.grant = l.grant /\ v.page = l.page /\ v.session = l.session
        /\ v.refresh = [l.refresh EXCEPT !.timers = @ \cup {"turn"}]
    BY <2>1, <2>2 DEF WorldState, Coordinator
  <2>5. /\ v.refresh.active = l.refresh.active /\ v.refresh.told = l.refresh.told
        /\ v.refresh.connect = l.refresh.connect /\ v.refresh.joined = l.refresh.joined
        /\ v.refresh.renewals = l.refresh.renewals
        /\ v.refresh.timers = l.refresh.timers \cup {"turn"}
    BY <2>2, <2>4 DEF WorldState, Coordinator
  <2>6. TurnIsOn(v)
    BY <2>5 DEF TurnIsOn
  <2>7. /\ v.grant = grant /\ v.page = page /\ v.session = session
        /\ v.refresh.active = refresh.active /\ v.refresh.told = refresh.told
        /\ v.refresh.connect = refresh.connect /\ v.refresh.joined = refresh.joined
        /\ v.refresh.renewals = refresh.renewals
        /\ v.refresh.timers = refresh.timers \cup {"turn"}
    BY <1>2, <2>2, <2>3, <2>4, <2>5
  <2>8. RoomFits(v)
    BY ZenonT(40), <1>2, <1>3, <1>5, <2>4, <2>6, <2>7, SettingFits, WorldIs DEF RoomFits
  <2> QED
    BY <1>1, <2>8, BecomingFits
<1> QED
  BY <1>4, <1>5

LEMMA TurnFailsFits ==
  ASSUME RoomFits(World), NEW i \in Turns, TurnFails(i)
  PROVE  RoomFits(World')
<1> DEFINE v == Scheduled([World EXCEPT !.refresh.turn[i] = "none"], "turn")
<1>1. refresh.turn[i] = "load" /\ Becomes(v)
  BY DEF TurnFails
<1>2. page.startup # "none"
  BY <1>1, TurnSettled
<1>3. Loose(World) /\ (grant # None => GrantIsOn(World))
  BY WorldIs DEF RoomFits
<1>4. Loose(v) /\ FailsOnly(v, World)
  <2> HIDE DEF v
  <2> QED
    BY <1>2, <1>3, TurnFailingFits, WorldIs DEF v
<1> HIDE DEF v
<1>5. RoomFits(v)
  BY <1>2, <1>3, <1>4, WorldIs DEF RoomFits, FailsOnly, GrantIsOn
<1> QED
  BY <1>1, <1>5, BecomingFits

LEMMA WakeFits ==
  ASSUME RoomFits(World), Wake
  PROVE  RoomFits(World')
<1> DEFINE v == Overdue(World)
<1>1. Becomes(v)
  BY DEF Wake
<1>2. Loose(v) /\ v.grant = grant /\ (GrantIsOn(World) => GrantIsOn(v))
  BY OverdueFits, WorldIs DEF RoomFits
<1> HIDE DEF v
<1>3. RoomFits(v)
  BY <1>2, WorldIs DEF RoomFits
<1> QED
  BY <1>1, <1>3, BecomingFits

LEMMA WallPassesFits ==
  ASSUME RoomFits(World), WallPasses
  PROVE  RoomFits(World')
<1> DEFINE v == [World EXCEPT !.refresh.wall = "past"]
<1>1. refresh.wall = "later" /\ Becomes(v)
  BY DEF WallPasses
<1>2. World \in WorldState /\ Loose(World) /\ (grant # None => GrantIsOn(World))
  BY WorldIs DEF RoomFits, Loose
<1>3. page.startup # "none"
  <2>1. refresh # Off
    BY <1>1 DEF Off, NewCoordinator
  <2> QED
    BY <2>1, <1>2, WorldIs DEF Loose, Ends
<1>4. /\ v \in WorldState /\ v.grant = grant /\ v.page = page /\ v.session = session
      /\ v.refresh = [refresh EXCEPT !.wall = "past"]
  BY <1>2, WorldIs DEF WorldState, Coordinator
<1>5. /\ v.refresh.active = refresh.active /\ v.refresh.told = refresh.told
      /\ v.refresh.connect = refresh.connect /\ v.refresh.joined = refresh.joined
      /\ v.refresh.renewals = refresh.renewals
      /\ v.refresh.timers = refresh.timers /\ v.refresh.turn = refresh.turn
  BY <1>2, <1>4, WorldIs DEF WorldState, Coordinator
<1> HIDE DEF v
<1>6. TurnIsOn(v) /\ (~v.refresh.active => v.refresh.timers = {})
  BY <1>2, <1>4, <1>5, WorldIs DEF Loose, TurnIsOn, Ends
<1>7. v \in WorldState /\ v.grant = grant /\ v.page = page /\ v.session = session
  BY <1>4
<1>8. Loose(v) /\ (GrantIsOn(World) => GrantIsOn(v))
  BY <1>2, <1>3, <1>5, <1>6, <1>7, SettingFits, WorldIs
<1>9. RoomFits(v)
  BY <1>2, <1>7, <1>8 DEF RoomFits
<1> QED
  BY <1>1, <1>9, BecomingFits
-----------------------------------------------------------------------------
(* The lease and the session                                               *)

\* A request to extend the lease is over.
LEMMA RenewalGone ==
  ASSUME RoomFits(World), NEW r \in refresh.renewals
  PROVE  /\ World \in WorldState /\ Loose(World) /\ grant # None /\ grant \in Manager
         /\ page.startup # "none" /\ r.grant <= grant.issued /\ r \in Renewal
<1>1. World \in WorldState /\ Loose(World)
  BY DEF RoomFits, Loose
<1>2. grant # None
  BY <1>1, WorldIs DEF Loose, Ends
<1>3. page.startup # "none"
  <2>1. refresh # Off
    BY DEF Off, NewCoordinator
  <2> QED
    BY <2>1, <1>1, WorldIs DEF Loose, Ends
<1>4. r \in Renewal
  BY <1>1, WorldIs DEF WorldState, Coordinator
<1> QED
  BY <1>1, <1>2, <1>3, <1>4, WorldIs DEF Loose, NoneAhead, WorldState

LEMMA SettlingFits ==
  ASSUME RoomFits(World), NEW r \in refresh.renewals
  PROVE  RoomFits(Settled(r))
<1> DEFINE n == grant.issued
<1> DEFINE v == Settled(r)
<1>1. /\ World \in WorldState /\ Loose(World) /\ grant # None /\ grant \in Manager
      /\ page.startup # "none" /\ r.grant <= n /\ r \in Renewal
  BY RenewalGone
<1>2. PICK asked : asked = IF r.peer = session.peer /\ r.grant > session.asked THEN r.grant ELSE session.asked
  OBVIOUS
<1>3. n \in Nat /\ session.asked \in Nat /\ r.grant \in Nat /\ session.asked <= n
  BY <1>1, WorldIs DEF WorldState, SessionState, Renewal, Manager, Loose, NoneAhead
<1>4. asked \in Nat /\ asked <= n /\ asked >= session.asked
  BY <1>1, <1>2, <1>3
<1>5. v = [World EXCEPT !.refresh.renewals = @ \ {r}, !.session.asked = asked]
  BY <1>2, WorldIs DEF Settled
<1> HIDE DEF v
<1>6. /\ v \in WorldState /\ v.grant = grant /\ v.page = page
      /\ v.refresh = [refresh EXCEPT !.renewals = @ \ {r}]
      /\ v.session = [session EXCEPT !.asked = asked]
  BY <1>1, <1>4, <1>5, WorldIs DEF WorldState, Coordinator, SessionState
<1>7. /\ v.refresh.active = refresh.active /\ v.refresh.told = refresh.told
      /\ v.refresh.connect = refresh.connect /\ v.refresh.joined = refresh.joined
      /\ v.refresh.renewals = refresh.renewals \ {r} /\ v.refresh.turn = refresh.turn
      /\ v.refresh.timers = refresh.timers
  BY <1>1, <1>6, WorldIs DEF WorldState, Coordinator
<1>8. /\ v.session.status = session.status /\ v.session.peer = session.peer
      /\ v.session.used = session.used /\ v.session.last = session.last
      /\ v.session.asked = asked /\ v.session.missed = session.missed
  BY <1>1, <1>6, WorldIs DEF WorldState, SessionState
<1>9. Ends(v) /\ TurnIsOn(v)
  BY <1>1, <1>6, <1>7, <1>8, WorldIs DEF Loose, Ends, TurnIsOn
<1>10. Waits(v) /\ MadeWith(v) /\ IsNew(v)
  BY <1>1, <1>6, <1>7, <1>8, WorldIs DEF Loose, Waits, MadeWith, IsNew
<1>11. NoneAhead(v, n)
  BY <1>1, <1>4, <1>6, <1>7, <1>8, WorldIs DEF Loose, NoneAhead
<1>12. Told(v, n)
  <2>1. Told(World, n)
    BY <1>1, WorldIs DEF Loose
  <2>2. session.asked = n => asked = n
    BY <1>3, <1>4
  <2>3. r.peer = session.peer /\ r.grant = n => asked = n
    BY <1>2, <1>3
  <2>4. \A q \in refresh.renewals : q \in v.refresh.renewals \/ q = r
    BY <1>7
  <2> QED
    BY <2>1, <2>2, <2>3, <2>4, <1>6, <1>7, <1>8, WorldIs DEF Told
<1>13. GrantIsOn(v)
  BY <1>1, <1>6, <1>7, WorldIs DEF RoomFits, GrantIsOn
<1> QED
  BY <1>1, <1>6, <1>9, <1>10, <1>11, <1>12, <1>13, WorldIs DEF RoomFits, Loose, v

LEMMA RenewalAnsweredFits ==
  ASSUME RoomFits(World), NEW r \in refresh.renewals, RenewalAnswered(r)
  PROVE  RoomFits(World')
<1>1. Becomes(Settled(r))
  BY DEF RenewalAnswered
<1> QED
  BY <1>1, SettlingFits, BecomingFits

LEMMA RenewalFailsFits ==
  ASSUME RoomFits(World), NEW r \in refresh.renewals, RenewalFails(r)
  PROVE  RoomFits(World')
<1>1. CASE r.retries = MaxLeaseRetries \/ ~CanRefresh(World)
  <2>1. Becomes(Settled(r))
    BY <1>1 DEF RenewalFails
  <2> QED
    BY <2>1, SettlingFits, BecomingFits
<1>2. CASE ~(r.retries = MaxLeaseRetries \/ ~CanRefresh(World))
  <2> DEFINE n == grant.issued
  <2> DEFINE u == [World EXCEPT !.refresh.renewals = @ \ {r}, !.refresh.retries = r.retries + 1]
  <2> DEFINE v == Scheduled(u, "lease")
  <2>1. Becomes(v)
    BY <1>2 DEF RenewalFails
  <2>2. /\ World \in WorldState /\ Loose(World) /\ grant # None /\ grant \in Manager
        /\ page.startup # "none" /\ r \in Renewal
    BY RenewalGone
  <2>3. r.retries + 1 \in Nat
    BY <2>2 DEF Renewal
  <2>4. /\ u \in WorldState /\ u.grant = grant /\ u.page = page /\ u.session = session
        /\ u.refresh = [refresh EXCEPT !.renewals = @ \ {r}, !.retries = r.retries + 1]
    BY <2>2, <2>3, WorldIs DEF WorldState, Coordinator
  <2>5. /\ u.refresh.active = refresh.active /\ u.refresh.told = refresh.told
        /\ u.refresh.connect = refresh.connect /\ u.refresh.joined = refresh.joined
        /\ u.refresh.renewals = refresh.renewals \ {r} /\ u.refresh.turn = refresh.turn
        /\ u.refresh.timers = refresh.timers
    BY <2>2, <2>4, WorldIs DEF WorldState, Coordinator
  <2>6. refresh.active
    BY <1>2, WorldIs DEF CanRefresh
  <2> HIDE DEF u
  <2>7. v = [u EXCEPT !.refresh.timers = @ \cup {"lease"}]
    BY <2>5, <2>6 DEF Scheduled, CanRefresh
  <2> HIDE DEF v
  <2>8. /\ v \in WorldState /\ v.grant = grant /\ v.page = page /\ v.session = session
        /\ v.refresh = [u.refresh EXCEPT !.timers = @ \cup {"lease"}]
    BY <2>4, <2>7 DEF WorldState, Coordinator
  <2>9. /\ v.refresh.active = refresh.active /\ v.refresh.told = refresh.told
        /\ v.refresh.connect = refresh.connect /\ v.refresh.joined = refresh.joined
        /\ v.refresh.renewals = refresh.renewals \ {r} /\ v.refresh.turn = refresh.turn
        /\ v.refresh.timers = refresh.timers \cup {"lease"}
    BY <2>4, <2>5, <2>8 DEF WorldState, Coordinator
  <2>10. Ends(v) /\ TurnIsOn(v)
    <3>1. v.grant = grant /\ v.page = page /\ v.session = session
      BY <2>8
    <3> QED
      BY <3>1, <2>2, <2>6, <2>9, WorldHas DEF Loose, Ends, TurnIsOn
  <2>11. Waits(v) /\ NoneAhead(v, n) /\ MadeWith(v) /\ IsNew(v)
    BY <2>2, <2>8, <2>9, WorldIs DEF Loose, Waits, NoneAhead, MadeWith, IsNew
  <2>12. Told(v, n)
    BY <2>2, <2>8, <2>9, WorldIs DEF Loose, Told
  <2>13. GrantIsOn(v)
    <3>1. GrantIsOn(World) /\ v.grant = grant /\ v.page = page
      BY <2>2, <2>8, WorldIs DEF RoomFits
    <3> QED
      BY <3>1, <2>9, WorldIs DEF GrantIsOn
  <2>14. RoomFits(v)
    BY <2>2, <2>8, <2>10, <2>11, <2>12, <2>13, WorldIs DEF RoomFits, Loose
  <2> QED
    BY <2>1, <2>14, BecomingFits
<1> QED
  BY <1>1, <1>2
\* The session ends, before or after startup, when no connection is prepared.
LEMMA OverFits ==
  ASSUME NEW w, Loose(w), w.page.startup # "none", w.session.status \notin {"none", "preparing"}
  PROVE  /\ RoomFits(SessionOver(w)) /\ RoomFits(SessionOver([w EXCEPT !.page.startup = "failed"]))
<1>0. w.page.startup \notin {"grant", "turn"}
  BY DEF Loose, Ends
<1>1. ASSUME NEW u \in WorldState, u.grant = w.grant, u.refresh = w.refresh, u.session = w.session,
             u.page.startup # "none", u.page.entry = w.page.entry,
             u.page.startup \in {w.page.startup, "failed"}
      PROVE  RoomFits(SessionOver(u))
  <2> DEFINE o == [u EXCEPT !.session.status = "over"]
  <2> DEFINE v == Stopped(o)
  <2>1. SessionOver(u) = v
    BY DEF SessionOver
  <2>2. /\ o \in WorldState /\ o.grant = w.grant /\ o.page = u.page /\ o.refresh = w.refresh
        /\ o.session = [w.session EXCEPT !.status = "over"]
    BY <1>1 DEF WorldState, SessionState
  <2>3. /\ o.session.status = "over" /\ o.session.used = w.session.used
        /\ o.session.last = w.session.last /\ o.session.asked = w.session.asked
    BY <1>1, <2>2 DEF WorldState, SessionState
  <2> HIDE DEF o
  <2>4. /\ v \in WorldState /\ v.grant = w.grant /\ v.session = o.session /\ v.page = u.page
        /\ ~v.refresh.active /\ v.refresh.timers = {}
        /\ v.refresh.told = w.refresh.told /\ v.refresh.connect = w.refresh.connect
        /\ v.refresh.joined = w.refresh.joined /\ v.refresh.renewals = w.refresh.renewals
    BY <2>2, StoppingFits
  <2> HIDE DEF v
  <2>5. w.grant # None => Waits(v)
    BY <1>1, <1>0, <2>4 DEF Loose, Waits
  <2>6. v.page.startup \notin {"grant", "turn"}
    BY <1>1, <2>4 DEF Loose, Ends
  <2>7. Loose(v)
    BY <1>1, <2>3, <2>4, <2>5, <2>6, EndingFits
  <2> QED
    BY <2>1, <2>4, <2>7 DEF RoomFits, GrantIsOn
<1>2. RoomFits(SessionOver(w))
  BY <1>1 DEF Loose
<1>3. RoomFits(SessionOver([w EXCEPT !.page.startup = "failed"]))
  <2> DEFINE f == [w EXCEPT !.page.startup = "failed"]
  <2>1. w \in WorldState
    BY DEF Loose
  <2>2. /\ f \in WorldState /\ f.grant = w.grant /\ f.refresh = w.refresh /\ f.session = w.session
        /\ f.page = [w.page EXCEPT !.startup = "failed"]
    BY <2>1 DEF WorldState, PageState
  <2>3. f.page.startup = "failed" /\ f.page.entry = w.page.entry
    BY <2>1, <2>2 DEF WorldState, PageState
  <2> HIDE DEF f
  <2>4. f \in WorldState /\ f.grant = w.grant /\ f.refresh = w.refresh /\ f.session = w.session
    BY <2>2
  <2>5. RoomFits(SessionOver(f))
    BY <2>3, <2>4, <1>1
  <2> QED
    BY <2>5 DEF f
<1> QED
  BY <1>2, <1>3

\* A connection is prepared, when there is none.
LEMMA PreparingFits ==
  ASSUME NEW w, Loose(w), w.grant # None => GrantIsOn(w), w.page.startup \notin {"none", "grant", "turn"},
         w.session.status \in {"none", "lost"}
  PROVE  RoomFits(Prepares(w))
<1>1. w \in WorldState /\ w.session.status # "over"
  BY DEF Loose
<1>2. CASE w.grant = None
  <2> DEFINE v == [w EXCEPT !.session.status = "connecting"]
  <2>1. Prepares(w) = v
    BY <1>2 DEF Prepares
  <2>2. /\ v \in WorldState /\ v.grant = None /\ v.page = w.page /\ v.refresh = w.refresh
        /\ v.session = [w.session EXCEPT !.status = "connecting"]
    BY <1>1, <1>2 DEF WorldState, SessionState
  <2>3. v.session.status = "connecting"
    BY <1>1, <2>2 DEF WorldState, SessionState
  <2> HIDE DEF v
  <2>4. Ends(v) /\ TurnIsOn(v)
    BY <1>2, <2>2, <2>3 DEF Loose, Ends, TurnIsOn
  <2> QED
    BY <2>1, <2>2, <2>4 DEF RoomFits, Loose
<1>3. CASE w.grant # None
  <2> DEFINE v == [w EXCEPT !.session.status = "preparing"]
  <2>1. PICK force \in BOOLEAN : /\ force = (w.grant.issued = w.refresh.joined)
                                 /\ force <=> w.grant.issued = w.refresh.joined
    OBVIOUS
  <2>2. Prepares(w) = EnsureFresh(v, "connect", force)
    BY <1>3, <2>1 DEF Prepares
  <2>3. /\ v \in WorldState /\ v.grant = w.grant /\ v.page = w.page /\ v.refresh = w.refresh
        /\ v.session = [w.session EXCEPT !.status = "preparing"]
    BY <1>1 DEF WorldState, SessionState
  <2>4. /\ v.session.status = "preparing" /\ v.session.used = w.session.used
        /\ v.session.last = w.session.last /\ v.session.asked = w.session.asked
        /\ v.session.missed = w.session.missed /\ v.session.peer = w.session.peer
    BY <1>1, <2>3 DEF WorldState, SessionState
  <2> HIDE DEF v
  <2>5. \A i \in DOMAIN w.grant.waiting : w.grant.waiting[i] # "connect"
    BY <1>3 DEF Loose, Waits
  <2>7. Ends(v) /\ TurnIsOn(v)
    BY <1>3, <2>3, <2>4 DEF Loose, Ends, TurnIsOn
  <2>8. Waits(v)
    <3>1. v.grant = w.grant /\ v.page = w.page
      BY <2>3
    <3> QED
      BY <1>3, <3>1, <2>4, <2>5 DEF Loose, Waits
  <2>9. NoneAhead(v, v.grant.issued) /\ MadeWith(v) /\ IsNew(v) /\ Told(v, v.grant.issued)
    BY <1>3, <2>3, <2>4 DEF Loose, NoneAhead, MadeWith, IsNew, Told
  <2>10. Loose(v)
    BY <1>3, <2>3, <2>7, <2>8, <2>9 DEF Loose
  <2>11. ~force /\ v.grant.fresh => v.session.last # v.grant.issued
    <3>1. v.grant = w.grant /\ v.refresh = w.refresh
      BY <2>3
    <3>2. w.grant.issued \in Nat /\ (w.grant.fresh => w.grant.issued > 0)
      BY <1>1, <1>3 DEF Loose, WorldState, Manager
    <3>3. v.session.last = IF w.refresh.joined = None THEN 0 ELSE w.refresh.joined
      BY <3>1, <2>9 DEF MadeWith
    <3> QED
      BY <2>1, <3>1, <3>2, <3>3
  <2>12. RoomFits(EnsureFresh(v, "connect", force))
    BY ZenonT(40), <1>3, <2>3, <2>4, <2>5, <2>10, <2>11, EnsuringFits DEF RoomWaiter, Lacks
  <2> QED
    BY <2>2, <2>12, Zenon
<1> QED
  BY <1>2, <1>3
LEMMA ReconnectsFits ==
  ASSUME RoomFits(World), Reconnects
  PROVE  RoomFits(World')
<1>1. session.status = "lost" /\ Becomes(Prepares(World))
  BY DEF Reconnects
<1>2. Loose(World) /\ (grant # None => GrantIsOn(World))
  BY WorldHas DEF RoomFits
<1>3. page.startup \notin {"none", "grant", "turn"}
  BY <1>1, <1>2, WorldHas DEF Loose, Ends, NewSession
<1>4. RoomFits(Prepares(World))
  BY <1>1, <1>2, <1>3, PreparingFits, WorldHas
<1> QED
  BY <1>1, <1>4, BecomingFits

\* The connection is in the room.
LEMMA JoinsFits ==
  ASSUME RoomFits(World), Joins
  PROVE  RoomFits(World')
<1> DEFINE joined == [session EXCEPT !.status = "active", !.last = session.used, !.peer = @ + 1]
<1> DEFINE in == [World EXCEPT !.session = joined, !.refresh.joined = JoinedGrant(World)]
<1> DEFINE first == [in EXCEPT !.page.startup = "done",
                               !.refresh.wall = IF CanRefresh(World) THEN "later" ELSE @]
<1> DEFINE v == IF page.startup = "joining" THEN Scheduled(first, "turn") ELSE in
<1>1. session.status = "connecting" /\ Becomes(v)
  BY DEF Joins
<1>2. World \in WorldState /\ Loose(World) /\ (grant # None => GrantIsOn(World))
  BY WorldHas DEF RoomFits, Loose
<1>3. page.startup \notin {"none", "grant", "turn"}
  BY <1>1, <1>2, WorldHas DEF Loose, Ends, NewSession
<1>4. /\ in \in WorldState /\ in.grant = grant /\ in.page = page
      /\ in.refresh = [refresh EXCEPT !.joined = refresh.connect]
      /\ in.session = [session EXCEPT !.status = "active", !.last = session.used, !.peer = @ + 1]
  <2>1. session \in SessionState /\ refresh \in Coordinator
    BY <1>2, WorldHas DEF WorldState
  <2>2. joined \in SessionState
    <3>1. PICK last, peer : last = session.used /\ peer = session.peer + 1
      OBVIOUS
    <3>2. last \in Nat /\ peer \in Nat
      BY <2>1, <3>1 DEF SessionState
    <3>3. [session EXCEPT !.status = "active", !.last = last, !.peer = peer] \in SessionState
      BY <2>1, <3>2 DEF SessionState
    <3> QED
      BY <3>1, <3>3
  <2> HIDE DEF joined
  <2>3. in = [World EXCEPT !.session = joined, !.refresh.joined = refresh.connect]
    BY WorldHas DEF JoinedGrant
  <2> HIDE DEF in
  <2>4. /\ in \in WorldState /\ in.grant = grant /\ in.page = page
        /\ in.refresh = [refresh EXCEPT !.joined = refresh.connect] /\ in.session = joined
    BY <2>1, <2>2, <2>3, <1>2, WorldHas DEF WorldState, Coordinator
  <2> QED
    BY <2>4 DEF joined
<1>5. /\ in.refresh.active = refresh.active /\ in.refresh.told = refresh.told
      /\ in.refresh.joined = refresh.connect
      /\ in.refresh.renewals = refresh.renewals /\ in.refresh.turn = refresh.turn
      /\ in.refresh.timers = refresh.timers
  BY <1>2, <1>4, WorldHas DEF WorldState, Coordinator
<1>6. /\ in.session.status = "active" /\ in.session.peer = session.peer + 1
      /\ in.session.used = session.used /\ in.session.last = session.used
      /\ in.session.asked = session.asked /\ in.session.missed = session.missed
  BY <1>2, <1>4, WorldHas DEF WorldState, SessionState
<1>7. in.grant = grant /\ in.page = page
  BY <1>4
<1> HIDE DEF in
<1>8. ASSUME NEW u \in WorldState, u.grant = grant, u.session = in.session,
             u.page.entry = page.entry,
             u.refresh.active = refresh.active, u.refresh.told = refresh.told,
             u.refresh.joined = refresh.connect,
             u.refresh.renewals = refresh.renewals, u.refresh.turn = refresh.turn,
             \/ u.page.startup = page.startup /\ u.refresh.timers = refresh.timers
             \/ /\ u.page.startup = "done"
                /\ u.refresh.timers = IF refresh.active THEN refresh.timers \cup {"turn"} ELSE refresh.timers
      PROVE  RoomFits(u)
  <2>1. u.page.startup \notin {"none", "grant", "turn"}
    BY <1>8, <1>3
  <2>2. Ends(u)
    BY <1>8, <2>1, <1>2, <1>6, WorldHas DEF Loose, Ends
  <2>3. TurnIsOn(u)
    BY <1>8, <1>2, WorldHas DEF Loose, TurnIsOn
  <2>4. grant # None => Waits(u)
    BY <1>8, <2>1, <1>1, <1>2, <1>3, WorldHas DEF Loose, Waits
  <2>5. grant # None => NoneAhead(u, grant.issued) /\ MadeWith(u) /\ IsNew(u)
    BY <1>8, <1>1, <1>2, <1>6, WorldHas, NoneIsNone DEF Loose, NoneAhead, MadeWith, IsNew, WorldState, SessionState
  <2>6. grant # None => Told(u, grant.issued)
    BY <1>8, <2>1, <1>1, <1>2, <1>3, <1>6, WorldHas DEF Loose, Told
  <2>7. grant # None => GrantIsOn(u)
    BY <1>8, <1>2, <1>3, WorldHas DEF GrantIsOn
  <2> QED
    BY <1>8, <2>2, <2>3, <2>4, <2>5, <2>6, <2>7, <1>2, WorldHas DEF RoomFits, Loose
<1>9. CASE page.startup # "joining"
  <2>1. v = in
    BY <1>9
  <2>2. RoomFits(in)
    BY <1>8, <1>4, <1>5, <1>7
  <2> HIDE DEF v
  <2> QED
    BY <1>1, <2>1, <2>2, BecomingFits
<1>10. CASE page.startup = "joining"
  <2>1. v = Scheduled(first, "turn") /\ CanRefresh(World) = refresh.active
    BY <1>10, WorldHas DEF CanRefresh
  <2>2. PICK wall \in {"none", "later", "past"} :
          wall = IF CanRefresh(World) THEN "later" ELSE in.refresh.wall
    BY <1>4 DEF WorldState, Coordinator
  <2>3. first = [in EXCEPT !.page.startup = "done", !.refresh.wall = wall]
    BY <2>2
  <2> HIDE DEF v, first
  <2>4. /\ first \in WorldState /\ first.grant = in.grant /\ first.session = in.session
        /\ first.page = [in.page EXCEPT !.startup = "done"]
        /\ first.refresh = [in.refresh EXCEPT !.wall = wall]
    BY ZenonT(40), <2>2, <2>3, <1>4 DEF WorldState, Coordinator, PageState
  <2>5. first.page.startup = "done" /\ first.page.entry = in.page.entry
    BY <2>4, <1>4 DEF WorldState, PageState
  <2>6. /\ first.refresh.active = in.refresh.active /\ first.refresh.told = in.refresh.told
        /\ first.refresh.joined = in.refresh.joined /\ first.refresh.renewals = in.refresh.renewals
        /\ first.refresh.turn = in.refresh.turn /\ first.refresh.timers = in.refresh.timers
    BY <2>4, <1>4 DEF WorldState, Coordinator
  <2>7. CASE ~refresh.active
    <3>1. v = first
      BY <2>1, <2>6, <2>7, <1>5 DEF Scheduled, CanRefresh
    <3>2. RoomFits(first)
      BY <1>8, <1>5, <1>7, <2>4, <2>5, <2>6, <2>7
    <3> QED
      BY <1>1, <3>1, <3>2, BecomingFits
  <2>8. CASE refresh.active
    <3>1. v = [first EXCEPT !.refresh.timers = @ \cup {"turn"}]
      BY <2>1, <2>6, <2>8, <1>5 DEF Scheduled, CanRefresh
    <3>2. /\ v \in WorldState /\ v.grant = first.grant /\ v.session = first.session
          /\ v.page = first.page
          /\ v.refresh = [first.refresh EXCEPT !.timers = @ \cup {"turn"}]
      BY <3>1, <2>4 DEF WorldState, Coordinator
    <3>3. /\ v.refresh.active = first.refresh.active /\ v.refresh.told = first.refresh.told
          /\ v.refresh.joined = first.refresh.joined /\ v.refresh.renewals = first.refresh.renewals
          /\ v.refresh.turn = first.refresh.turn
          /\ v.refresh.timers = first.refresh.timers \cup {"turn"}
      BY <3>2, <2>4 DEF WorldState, Coordinator
    <3>4. v.grant = grant /\ v.session = in.session /\ v.page.entry = page.entry /\ v.page.startup = "done"
      BY <1>7, <2>4, <2>5, <3>2
    <3>5. RoomFits(v)
      BY ZenonT(40), <1>8, <1>5, <2>6, <2>8, <3>2, <3>3, <3>4
    <3> QED
      BY <1>1, <3>5, BecomingFits
  <2> QED
    BY <2>7, <2>8
<1> QED
  BY <1>9, <1>10
LEMMA ConnectionFailsFits ==
  ASSUME RoomFits(World), ConnectionFails
  PROVE  RoomFits(World')
<1>1. World \in WorldState /\ Loose(World) /\ (grant # None => GrantIsOn(World))
  BY WorldHas DEF RoomFits, Loose
<1>2. session.status = "connecting" /\ page.startup \notin {"none", "grant", "turn"}
  BY <1>1, WorldHas DEF ConnectionFails, Loose, Ends, NewSession
<1>3. CASE page.startup = "joining"
  <2>1. Becomes(SessionOver([World EXCEPT !.page.startup = "failed"]))
    BY <1>3 DEF ConnectionFails
  <2>2. RoomFits(SessionOver([World EXCEPT !.page.startup = "failed"]))
    BY <1>1, <1>2, OverFits, WorldHas
  <2> QED
    BY <2>1, <2>2, BecomingFits
<1>4. CASE page.startup # "joining"
  <2> DEFINE v == [World EXCEPT !.session.status = "lost"]
  <2>1. Becomes(v)
    BY <1>4 DEF ConnectionFails
  <2>2. /\ v \in WorldState /\ v.grant = grant /\ v.page = page /\ v.refresh = refresh
        /\ v.session = [session EXCEPT !.status = "lost"]
    BY <1>1, WorldHas DEF WorldState, SessionState
  <2>3. /\ v.session.status = "lost" /\ v.session.used = session.used
        /\ v.session.last = session.last /\ v.session.asked = session.asked
    BY <1>1, <2>2, WorldHas DEF WorldState, SessionState
  <2>4. v.grant = grant /\ v.page = page /\ v.refresh = refresh /\ v \in WorldState
    BY <2>2
  <2> HIDE DEF v
  <2>5. Ends(v) /\ TurnIsOn(v)
    BY <1>1, <1>2, <2>3, <2>4, WorldHas DEF Loose, Ends, TurnIsOn
  <2>6. grant # None => Waits(v) /\ NoneAhead(v, grant.issued) /\ MadeWith(v) /\ IsNew(v) /\ Told(v, grant.issued)
    BY <1>1, <1>2, <2>3, <2>4, WorldHas DEF Loose, Waits, NoneAhead, MadeWith, IsNew, Told
  <2>7. grant # None => GrantIsOn(v)
    BY <1>1, <2>4, WorldHas DEF GrantIsOn
  <2>8. RoomFits(v)
    BY <1>1, <2>4, <2>5, <2>6, <2>7, WorldHas DEF RoomFits, Loose
  <2> QED
    BY <2>1, <2>8, BecomingFits
<1> QED
  BY <1>3, <1>4

LEMMA SessionEndsFits ==
  ASSUME RoomFits(World), SessionEnds
  PROVE  RoomFits(World')
<1>1. Loose(World) /\ Becomes(SessionOver(World))
  BY DEF RoomFits, SessionEnds
<1>2. session.status \notin {"none", "preparing"} /\ page.startup # "none"
  BY DEF SessionEnds
<1>3. RoomFits(SessionOver(World))
  BY <1>1, <1>2, OverFits, WorldHas
<1> QED
  BY <1>1, <1>3, BecomingFits

LEMMA LoseFits ==
  ASSUME RoomFits(World), Lose
  PROVE  RoomFits(World')
<1> DEFINE v == [World EXCEPT !.session.status = "lost"]
<1>1. World \in WorldState /\ Loose(World) /\ (grant # None => GrantIsOn(World))
  BY WorldHas DEF RoomFits, Loose
<1>2. session.status = "active" /\ Becomes(v) /\ page.startup \notin {"none", "grant", "turn"}
  BY <1>1, WorldHas DEF Lose, Loose, Ends, NewSession
<1>3. /\ v \in WorldState /\ v.grant = grant /\ v.page = page /\ v.refresh = refresh
      /\ v.session = [session EXCEPT !.status = "lost"]
  BY <1>1, WorldHas DEF WorldState, SessionState
<1>4. /\ v.session.status = "lost" /\ v.session.used = session.used
      /\ v.session.last = session.last /\ v.session.asked = session.asked
  BY <1>1, <1>3, WorldHas DEF WorldState, SessionState
<1>5. v.grant = grant /\ v.page = page /\ v.refresh = refresh /\ v \in WorldState
  BY <1>3
<1> HIDE DEF v
<1>6. Ends(v) /\ TurnIsOn(v)
  BY <1>1, <1>2, <1>4, <1>5, WorldHas DEF Loose, Ends, TurnIsOn
<1>7. grant # None => Waits(v) /\ NoneAhead(v, grant.issued) /\ MadeWith(v) /\ IsNew(v) /\ Told(v, grant.issued)
  BY <1>1, <1>2, <1>4, <1>5, WorldHas DEF Loose, Waits, NoneAhead, MadeWith, IsNew, Told
<1>8. grant # None => GrantIsOn(v)
  BY <1>1, <1>5, WorldHas DEF GrantIsOn
<1>9. RoomFits(v)
  BY <1>1, <1>5, <1>6, <1>7, <1>8, WorldHas DEF RoomFits, Loose
<1> QED
  BY <1>2, <1>9, BecomingFits
-----------------------------------------------------------------------------
(* The page                                                                *)

\* Something else is shown, or the manager waits or is closed.
LEMMA ShowingFits ==
  ASSUME NEW w, RoomFits(w), NEW v \in WorldState,
         v.refresh = w.refresh, v.session = w.session, v.page.startup = w.page.startup,
         v.grant = None <=> w.grant = None,
         v.grant = None => v.page.entry \in {w.page.entry, "ready", "authorized"},
         v.grant # None => /\ v.grant.issued = w.grant.issued /\ (v.grant.fresh => w.grant.fresh)
                           /\ Waits(v)
                           /\ w.grant.waiting # <<>> => v.grant.waiting # <<>>
  PROVE  RoomFits(v)
<1>1. Loose(w) /\ (w.grant # None => GrantIsOn(w))
  BY DEF RoomFits
<1>2. Ends(v) /\ TurnIsOn(v)
  BY <1>1 DEF Loose, Ends, TurnIsOn
<1>3. ASSUME v.grant # None
      PROVE  /\ NoneAhead(v, v.grant.issued) /\ MadeWith(v) /\ IsNew(v) /\ Told(v, v.grant.issued)
             /\ v.grant.fresh => v.grant.issued > 0
             /\ GrantIsOn(v)
  BY <1>1, <1>3 DEF Loose, NoneAhead, MadeWith, IsNew, Told, GrantIsOn
<1> QED
  BY <1>2, <1>3 DEF RoomFits, Loose

\* There is no room.
LEMMA NoRoomFits ==
  ASSUME NEW v \in WorldState, v.page.startup = "none", v.session = NewSession, v.refresh = Off,
         v.grant = None => v.page.entry # "unavailable",
         v.grant # None => Waits(v) /\ (v.grant.fresh => v.grant.issued > 0)
  PROVE  RoomFits(v)
<1>1. /\ ~v.refresh.active /\ v.refresh.timers = {} /\ v.refresh.renewals = {}
      /\ v.refresh.told = None /\ v.refresh.joined = None
  BY DEF Off, NewCoordinator
<1>2. /\ v.session.status = "none" /\ v.session.used = 0 /\ v.session.last = 0
      /\ v.session.asked = 0
  BY DEF NewSession
<1>3. Ends(v) /\ TurnIsOn(v)
  BY <1>1, <1>2 DEF Ends, TurnIsOn
<1>4. v.grant # None => v.grant.issued \in Nat
  BY DEF WorldState, Manager
<1>5. ASSUME v.grant # None
      PROVE  /\ NoneAhead(v, v.grant.issued) /\ MadeWith(v) /\ IsNew(v) /\ Told(v, v.grant.issued)
             /\ GrantIsOn(v)
  BY <1>1, <1>2, <1>4, <1>5 DEF NoneAhead, MadeWith, IsNew, Told, GrantIsOn
<1> QED
  BY <1>3, <1>5 DEF RoomFits, Loose

\* Whether there is one, as the page shows it.
LEMMA RoomsAreShown ==
  ASSUME RoomFits(World)
  PROVE  /\ World \in WorldState /\ Loose(World)
         /\ grant \in Manager \cup {None} /\ page \in PageState
         /\ refresh \in Coordinator /\ session \in SessionState
         /\ page.startup = "none" => session = NewSession /\ refresh = Off
         /\ grant # None => /\ Waits(World) /\ (grant.fresh => grant.issued > 0)
                            /\ page.entry \notin {"room", "refused"} => page.startup = "none"
                            /\ page.entry \in {"ready", "authorized"} =>
                                 grant.waiting = <<>> /\ grant.step = "none" /\ ~grant.closed
<1>1. World \in WorldState /\ Loose(World)
  BY DEF RoomFits, Loose
<1>2. /\ grant \in Manager \cup {None} /\ page \in PageState
      /\ refresh \in Coordinator /\ session \in SessionState
  BY <1>1, WorldHas DEF WorldState
<1>3. page.startup = "none" => session = NewSession /\ refresh = Off
  BY <1>1, WorldHas DEF Loose, Ends
<1>4. grant # None => Waits(World) /\ (grant.fresh => grant.issued > 0)
  BY <1>1, WorldHas DEF Loose
<1>5. grant # None => (page.entry \notin {"room", "refused"} => page.startup = "none")
  BY <1>4, WorldHas DEF Waits
<1>6. grant # None => /\ page.entry \in {"ready", "authorized"} =>
                           grant.waiting = <<>> /\ grant.step = "none" /\ ~grant.closed
  BY <1>4, <1>5, WorldHas DEF Waits
<1> QED
  BY <1>1, <1>2, <1>3, <1>4, <1>5, <1>6

LEMMA SessionLoadedFits ==
  ASSUME RoomFits(World), SessionLoaded
  PROVE  RoomFits(World')
<1> DEFINE v == [World EXCEPT !.grant.step = "lease"]
<1>1. grant # None /\ grant.step = "session" /\ Becomes(v)
  BY DEF SessionLoaded, Asking
<1>2. World \in WorldState /\ grant \in Manager /\ Waits(World)
  BY <1>1, RoomsAreShown
<1>3. PICK g : g = [grant EXCEPT !.step = "lease"]
  OBVIOUS
<1>4. /\ g \in Manager /\ g # None /\ g.step = "lease" /\ g.waiting = grant.waiting
      /\ g.closed = grant.closed /\ g.issued = grant.issued /\ g.fresh = grant.fresh
  BY <1>2, <1>3, NoneIsNone DEF Manager
<1>5. v = [World EXCEPT !.grant = g]
  BY <1>3, WorldHas
<1> HIDE DEF v
<1>6. /\ v \in WorldState /\ v.grant = g /\ v.page = page /\ v.refresh = refresh /\ v.session = session
  BY <1>2, <1>4, <1>5, WorldHas DEF WorldState
<1>7. Waits(v)
  BY <1>1, <1>2, <1>4, <1>6, WorldHas DEF Waits
<1>8. RoomFits(v)
  BY <1>1, <1>4, <1>6, <1>7, WorldHas, ShowingFits
<1> QED
  BY <1>1, <1>8, BecomingFits

LEMMA GrantDueFits ==
  ASSUME RoomFits(World), GrantDue
  PROVE  RoomFits(World')
<1> DEFINE v == [World EXCEPT !.grant.fresh = FALSE]
<1>1. grant # None /\ Becomes(v)
  BY DEF GrantDue
<1>2. World \in WorldState /\ grant \in Manager /\ Waits(World)
  BY <1>1, RoomsAreShown
<1>3. PICK g : g = [grant EXCEPT !.fresh = FALSE]
  OBVIOUS
<1>4. /\ g \in Manager /\ g # None /\ g.step = grant.step /\ g.waiting = grant.waiting
      /\ g.closed = grant.closed /\ g.issued = grant.issued /\ ~g.fresh
  BY <1>2, <1>3, NoneIsNone DEF Manager
<1>5. v = [World EXCEPT !.grant = g]
  BY <1>3, WorldHas
<1> HIDE DEF v
<1>6. /\ v \in WorldState /\ v.grant = g /\ v.page = page /\ v.refresh = refresh /\ v.session = session
  BY <1>2, <1>4, <1>5, WorldHas DEF WorldState
<1>7. Waits(v)
  BY <1>1, <1>2, <1>4, <1>6, WorldHas DEF Waits
<1>8. RoomFits(v)
  BY <1>1, <1>4, <1>6, <1>7, WorldHas, ShowingFits
<1> QED
  BY <1>1, <1>8, BecomingFits
\* Another screen before the room, while nobody waits.
LEMMA EnteringFits ==
  ASSUME RoomFits(World), NEW e \in {"ready", "authorized"}, page.entry \in {"ready", "authorized"}
  PROVE  RoomFits([World EXCEPT !.page.entry = e])
<1> DEFINE v == [World EXCEPT !.page.entry = e]
<1>1. /\ World \in WorldState /\ page \in PageState
      /\ grant # None => /\ Waits(World) /\ page.startup = "none"
                         /\ grant.waiting = <<>> /\ ~grant.closed
  BY RoomsAreShown
<1>2. /\ v \in WorldState /\ v.grant = grant /\ v.refresh = refresh /\ v.session = session
      /\ v.page = [page EXCEPT !.entry = e]
  BY <1>1, WorldHas DEF WorldState, PageState
<1>3. v.page.entry = e /\ v.page.startup = page.startup
  BY <1>1, <1>2 DEF PageState
<1>4. v \in WorldState /\ v.grant = grant /\ v.refresh = refresh /\ v.session = session
  BY <1>2
<1> HIDE DEF v
<1>5. grant # None => Waits(v)
  BY <1>1, <1>3, <1>4, WorldHas DEF Waits
<1> QED
  BY <1>3, <1>4, <1>5, WorldHas, ShowingFits DEF v

LEMMA EntryActionFits ==
  ASSUME RoomFits(World), EntryAction
  PROVE  RoomFits(World')
<1>0. page.entry = "ready"
  BY DEF EntryAction
<1>1. CASE grant = None \/ IsFresh(grant, FALSE)
  <2>1. Becomes([World EXCEPT !.page.entry = "authorized"])
    BY <1>1 DEF EntryAction
  <2>2. RoomFits([World EXCEPT !.page.entry = "authorized"])
    BY <1>0, EnteringFits
  <2> QED
    BY <2>1, <2>2, BecomingFits
<1>2. CASE ~(grant = None \/ IsFresh(grant, FALSE))
  <2> DEFINE v == [World EXCEPT !.page.entry = "asking", !.grant = Asks(@, "entry")]
  <2>1. grant # None /\ Becomes(v)
    BY <1>2 DEF EntryAction
  <2>2. /\ World \in WorldState /\ page \in PageState /\ grant \in Manager
        /\ Waits(World) /\ page.startup = "none"
        /\ grant.waiting = <<>> /\ grant.step = "none" /\ ~grant.closed
    BY <1>0, <2>1, RoomsAreShown
  <2>3. PICK g : g = [grant EXCEPT !.waiting = <<"entry">>, !.step = "session"]
    OBVIOUS
  <2>4. <<"entry">> \in Seq(Waiter) /\ <<"entry">> # <<>>
    BY DEF Waiter
  <2>5. /\ g \in Manager /\ g # None /\ g.step = "session" /\ g.waiting = <<"entry">>
        /\ ~g.closed /\ g.issued = grant.issued /\ g.fresh = grant.fresh
    BY <2>2, <2>3, <2>4, NoneIsNone DEF Manager
  <2>6. Append(grant.waiting, "entry") = <<"entry">>
    BY <2>2
  <2>7. Asks(grant, "entry") = g
    BY <2>2, <2>3, <2>6 DEF Asks
  <2>8. v = [World EXCEPT !.page.entry = "asking", !.grant = g]
    BY <2>7, WorldHas
  <2> HIDE DEF v
  <2>9. /\ v \in WorldState /\ v.grant = g /\ v.refresh = refresh /\ v.session = session
        /\ v.page = [page EXCEPT !.entry = "asking"]
    BY <2>2, <2>5, <2>8, WorldHas DEF WorldState, PageState
  <2>10. v.page.entry = "asking" /\ v.page.startup = "none"
    BY <2>2, <2>9 DEF PageState
  <2>11. v \in WorldState /\ v.grant = g /\ v.refresh = refresh /\ v.session = session
    BY <2>9
  <2>12. Waits(v)
    BY <2>2, <2>5, <2>10, <2>11 DEF Waits
  <2>13. RoomFits(v)
    BY <2>1, <2>2, <2>5, <2>10, <2>11, <2>12, WorldHas, ShowingFits
  <2> QED
    BY <2>1, <2>13, BecomingFits
<1> QED
  BY Zenon, <1>1, <1>2

LEMMA StaysOutsideFits ==
  ASSUME RoomFits(World), StaysOutside
  PROVE  RoomFits(World')
<1>1. page.entry = "authorized" /\ Becomes([World EXCEPT !.page.entry = "ready"])
  BY DEF StaysOutside
<1>2. RoomFits([World EXCEPT !.page.entry = "ready"])
  BY <1>1, EnteringFits
<1> QED
  BY <1>1, <1>2, BecomingFits

LEMMA ReuseDueFits ==
  ASSUME RoomFits(World), ReuseDue
  PROVE  RoomFits(World')
<1> DEFINE v == [World EXCEPT !.page.reuse = "due"]
<1>1. Becomes(v)
  BY DEF ReuseDue
<1>2. /\ World \in WorldState /\ page \in PageState /\ (grant # None => Waits(World))
  BY RoomsAreShown
<1>3. /\ v \in WorldState /\ v.grant = grant /\ v.refresh = refresh /\ v.session = session
      /\ v.page = [page EXCEPT !.reuse = "due"]
  BY <1>2, WorldHas DEF WorldState, PageState
<1>4. v.page.entry = page.entry /\ v.page.startup = page.startup
  BY <1>2, <1>3 DEF PageState
<1>5. v \in WorldState /\ v.grant = grant /\ v.refresh = refresh /\ v.session = session
  BY <1>3
<1> HIDE DEF v
<1>6. grant # None => Waits(v)
  BY <1>2, <1>4, <1>5, WorldHas DEF Waits
<1>7. RoomFits(v)
  BY <1>4, <1>5, <1>6, WorldHas, ShowingFits
<1> QED
  BY <1>1, <1>7, BecomingFits

\* The user enters: a coordinator is made, and the startup asks for the grant.
LEMMA EnterRoomFits ==
  ASSUME RoomFits(World), EnterRoom
  PROVE  RoomFits(World')
<1> DEFINE room == [World EXCEPT !.page.entry = "room"]
<1> DEFINE u == [room EXCEPT !.page.startup = "grant", !.refresh = NewCoordinator,
                             !.session = NewSession]
<1> DEFINE v == EnsureFresh(u, "startup", FALSE)
<1>1. page.entry = "authorized" /\ Becomes(v)
  BY DEF EnterRoom, SessionStarts
<1>2. /\ World \in WorldState /\ page \in PageState
      /\ grant # None => /\ Waits(World) /\ page.startup = "none" /\ (grant.fresh => grant.issued > 0)
                         /\ grant.waiting = <<>> /\ ~grant.closed /\ grant.step = "none"
                         /\ grant \in Manager
  BY <1>1, RoomsAreShown
<1>3. /\ room \in WorldState /\ room.grant = grant /\ room.page = [page EXCEPT !.entry = "room"]
  BY <1>2, WorldHas DEF WorldState, PageState
<1> HIDE DEF room
<1>4. /\ u \in WorldState /\ u.grant = grant /\ u.refresh = NewCoordinator /\ u.session = NewSession
      /\ u.page = [room.page EXCEPT !.startup = "grant"]
  BY <1>3, IdleCoordinators DEF WorldState, PageState
<1>5. u.page.entry = "room" /\ u.page.startup = "grant"
  BY ZenonT(40), <1>2, <1>3, <1>4 DEF PageState
<1>6. u \in WorldState /\ u.grant = grant /\ u.refresh = NewCoordinator /\ u.session = NewSession
  BY <1>4
<1>7. /\ u.refresh.active /\ u.refresh.timers = {} /\ u.refresh.renewals = {}
      /\ u.refresh.told = None /\ u.refresh.joined = None
  BY <1>6 DEF NewCoordinator
<1>8. /\ u.session.status = "none" /\ u.session.used = 0 /\ u.session.last = 0
      /\ u.session.asked = 0
  BY <1>6 DEF NewSession
<1> HIDE DEF u
<1>9. Ends(u) /\ TurnIsOn(u)
  BY <1>5, <1>7, <1>8 DEF Ends, TurnIsOn
<1>10. ASSUME grant # None
       PROVE  Waits(u) /\ NoneAhead(u, grant.issued) /\ MadeWith(u) /\ IsNew(u) /\ Told(u, grant.issued)
  <2>1. grant.issued \in Nat
    BY <1>2, <1>10 DEF Manager
  <2>2. Waits(u)
    <3>1. u.grant.waiting = <<>> /\ ~u.grant.closed /\ u.grant.step = "none"
      BY <1>2, <1>6, <1>10
    <3>2. u.grant.waiting \in Seq(RoomWaiter) /\ DOMAIN u.grant.waiting = {}
      BY <3>1
    <3> QED
      BY <3>1, <3>2, <1>5 DEF Waits
  <2> QED
    BY <2>1, <2>2, <1>5, <1>7, <1>8 DEF NoneAhead, MadeWith, IsNew, Told
<1>11. Loose(u)
  BY <1>2, <1>6, <1>9, <1>10 DEF Loose
<1>12. grant # None => Lacks(u, "startup")
  BY <1>2, <1>6 DEF Lacks
<1>13. RoomFits(v)
  BY <1>5, <1>6, <1>8, <1>11, <1>12, EnsuringFits DEF RoomWaiter
<1> HIDE DEF v
<1> QED
  BY <1>1, <1>13, BecomingFits
\* TURN credentials are there, and the session is made.
LEMMA ConfigurationLoadedFits ==
  ASSUME RoomFits(World), ConfigurationLoaded
  PROVE  RoomFits(World')
<1> DEFINE used == [World EXCEPT !.page.reuse = "fresh"]
<1> DEFINE w == [used EXCEPT !.page.startup = "joining"]
<1>1. page.startup = "turn" /\ Becomes(Prepares(w))
  BY DEF ConfigurationLoaded, SessionJoins
<1>2. World \in WorldState /\ Loose(World) /\ page \in PageState /\ (grant # None => GrantIsOn(World))
  BY RoomsAreShown, WorldHas DEF RoomFits
<1>3. /\ used \in WorldState /\ used.grant = grant /\ used.refresh = refresh
      /\ used.session = session /\ used.page = [page EXCEPT !.reuse = "fresh"]
  BY <1>2, WorldHas DEF WorldState, PageState
<1> HIDE DEF used
<1>4. /\ w \in WorldState /\ w.grant = grant /\ w.refresh = refresh /\ w.session = session
      /\ w.page = [used.page EXCEPT !.startup = "joining"]
  BY <1>3 DEF WorldState, PageState
<1>5. w.page.entry = page.entry /\ w.page.startup = "joining"
  BY <1>2, <1>3, <1>4 DEF PageState
<1>6. w \in WorldState /\ w.grant = grant /\ w.refresh = refresh /\ w.session = session
  BY <1>4
<1> HIDE DEF w
<1>7. session.status = "none"
  BY <1>1, <1>2, WorldHas DEF Loose, Ends
<1>8. Ends(w) /\ TurnIsOn(w)
  BY <1>1, <1>2, <1>5, <1>6, <1>7, WorldHas DEF Loose, Ends, TurnIsOn
<1>9. grant # None => Waits(w)
  BY <1>1, <1>2, <1>5, <1>6, WorldHas DEF Loose, Waits
<1>10. grant # None => NoneAhead(w, grant.issued) /\ MadeWith(w) /\ IsNew(w) /\ Told(w, grant.issued)
  BY <1>1, <1>2, <1>5, <1>6, <1>7, WorldHas DEF Loose, NoneAhead, MadeWith, IsNew, Told
<1>11. grant # None => GrantIsOn(w) /\ (grant.fresh => grant.issued > 0)
  BY <1>1, <1>2, <1>5, <1>6, WorldHas DEF Loose, GrantIsOn
<1>12. Loose(w)
  BY <1>6, <1>8, <1>9, <1>10, <1>11 DEF Loose
<1>13. RoomFits(Prepares(w))
  BY <1>5, <1>6, <1>7, <1>11, <1>12, PreparingFits
<1> QED
  BY <1>1, <1>13, BecomingFits

LEMMA ConfigurationFailsFits ==
  ASSUME RoomFits(World), ConfigurationFails
  PROVE  RoomFits(World')
<1> DEFINE u == [World EXCEPT !.page.startup = "failed"]
<1> DEFINE v == Stopped(u)
<1>1. page.startup = "turn" /\ Becomes(v)
  BY DEF ConfigurationFails, StartupFails
<1>2. World \in WorldState /\ Loose(World) /\ page \in PageState
  BY RoomsAreShown
<1>3. /\ u \in WorldState /\ u.grant = grant /\ u.refresh = refresh
      /\ u.session = session /\ u.page = [page EXCEPT !.startup = "failed"]
  BY <1>2, WorldHas DEF WorldState, PageState
<1>4. u.page.entry = page.entry /\ u.page.startup = "failed"
  BY <1>2, <1>3 DEF PageState
<1> HIDE DEF u
<1>5. /\ v \in WorldState /\ v.grant = grant /\ v.page = u.page /\ v.session = session
      /\ ~v.refresh.active /\ v.refresh.timers = {}
      /\ v.refresh.told = refresh.told /\ v.refresh.connect = refresh.connect
      /\ v.refresh.joined = refresh.joined /\ v.refresh.renewals = refresh.renewals
  BY <1>3, StoppingFits
<1> HIDE DEF v
<1>6. grant # None => Waits(v)
  BY <1>1, <1>2, <1>4, <1>5, WorldHas DEF Loose, Waits
<1>7. Loose(v)
  BY <1>2, <1>4, <1>5, <1>6, WorldHas, EndingFits
<1>8. RoomFits(v)
  BY <1>5, <1>7 DEF RoomFits, GrantIsOn
<1> QED
  BY <1>1, <1>8, BecomingFits

LEMMA ChooseDeviceFits ==
  ASSUME RoomFits(World), ChooseDevice
  PROVE  RoomFits(World')
<1> DEFINE v == EnsureFresh(World, "device", FALSE)
<1>1. session.status = "active" /\ Becomes(v)
  BY DEF ChooseDevice
<1>2. Loose(World) /\ page.startup # "none"
  BY <1>1, RoomsAreShown DEF NewSession
<1>3. RoomFits(v)
  BY <1>2, WorldHas, EnsuringFits DEF RoomWaiter
<1> HIDE DEF v
<1> QED
  BY <1>1, <1>3, BecomingFits

\* A new manager that was asked by the boundary.
LEMMA BoundariesAsk ==
  LET g == Asks(NewManager, "boundary")
  IN /\ g \in Manager /\ g.step = "session" /\ g.waiting = <<"boundary">>
     /\ ~g.closed /\ ~g.fresh /\ g.issued = 0
<1>1. PICK q : q = <<"boundary">>
  OBVIOUS
<1>2. q \in Seq(Waiter) /\ q = Append(<<>>, "boundary")
  BY <1>1 DEF Waiter
<1>3. PICK m : m = NewManager
  OBVIOUS
<1>4. /\ m \in Manager /\ m.waiting = <<>> /\ m.step = "none"
      /\ ~m.closed /\ ~m.fresh /\ m.issued = 0
  <2>1. <<>> \in Seq(Waiter)
    OBVIOUS
  <2> QED
    BY <1>3, <2>1 DEF NewManager, Manager
<1>5. PICK g : g = [m EXCEPT !.waiting = q, !.step = "session"]
  OBVIOUS
<1>6. g \in Manager /\ g.step = "session" /\ g.waiting = q /\ ~g.closed /\ ~g.fresh /\ g.issued = 0
  BY <1>2, <1>4, <1>5 DEF Manager
<1>7. Asks(m, "boundary") = g
  BY <1>2, <1>4, <1>5 DEF Asks
<1> QED
  BY <1>1, <1>3, <1>6, <1>7

\* The boundary asks anew, when there is no room.
LEMMA BoundaryFits ==
  ASSUME NEW w \in WorldState, w.page.startup = "none", w.session = NewSession, w.refresh = Off
  PROVE  RoomFits(Boundary(w))
<1> DEFINE v == Boundary(w)
<1>1. CASE w.grant = None
  <2>1. v = [w EXCEPT !.page.entry = "ready"]
    BY <1>1 DEF Boundary
  <2>2. /\ v \in WorldState /\ v.grant = None /\ v.refresh = w.refresh /\ v.session = w.session
        /\ v.page = [w.page EXCEPT !.entry = "ready"]
    <3> HIDE DEF v
    <3> QED
      BY <1>1, <2>1 DEF WorldState, PageState
  <2>3. v.page.startup = "none" /\ v.page.entry = "ready"
    <3> HIDE DEF v
    <3> QED
      BY <2>2 DEF WorldState, PageState
  <2> HIDE DEF v
  <2> QED
    BY <2>2, <2>3, NoRoomFits DEF v
<1>2. CASE w.grant # None
  <2> DEFINE g == Asks(NewManager, "boundary")
  <2>3. /\ g \in Manager /\ g # None /\ g.step = "session" /\ g.waiting = <<"boundary">>
        /\ ~g.closed /\ ~g.fresh
    BY BoundariesAsk, NoneIsNone
  <2> HIDE DEF g
  <2>5. v = [w EXCEPT !.grant = g, !.page.entry = "checking"]
    BY <1>2 DEF Boundary, g
  <2> HIDE DEF v
  <2>6. /\ v \in WorldState /\ v.grant = g /\ v.refresh = w.refresh /\ v.session = w.session
        /\ v.page = [w.page EXCEPT !.entry = "checking"]
    BY <2>3, <2>5 DEF WorldState, PageState
  <2>7. v.page.startup = "none" /\ v.page.entry = "checking"
    BY <2>6 DEF WorldState, PageState
  <2>8. v.grant = g /\ v.refresh = Off /\ v.session = NewSession /\ v \in WorldState
    BY <2>6
  <2>9. Waits(v)
    <3>1. \A i \in DOMAIN g.waiting : g.waiting[i] \notin {"connect", "startup"}
      BY <2>3
    <3>2. g.waiting # <<>>
      BY <2>3
    <3> QED
      BY <2>3, <2>7, <2>8, <3>1, <3>2 DEF Waits
  <2>10. RoomFits(v)
    BY <2>3, <2>7, <2>8, <2>9, NoRoomFits
  <2> QED
    BY <2>10 DEF v
<1> QED
  BY <1>1, <1>2

LEMMA AskAgainFits ==
  ASSUME RoomFits(World), AskAgain
  PROVE  RoomFits(World')
<1>1. page.entry = "unavailable" /\ Becomes(Boundary(World))
  BY DEF AskAgain
<1>2. World \in WorldState
  BY RoomsAreShown
<1>3. page.startup = "none"
  BY <1>1, RoomsAreShown, WorldHas DEF Loose, Ends
<1>4. RoomFits(Boundary(World))
  BY <1>2, <1>3, RoomsAreShown, BoundaryFits, WorldHas
<1> QED
  BY <1>1, <1>4, BecomingFits
-----------------------------------------------------------------------------
(* Leaving                                                                 *)

\* A manager that is closed waits for nothing.
LEMMA ClosedWaits ==
  ASSUME NEW v, v.page.startup = "none", v.page.entry \in {"refused", "left"},
         v.grant.closed, v.grant.step = "none", v.grant.waiting = <<>>
  PROVE  Waits(v)
<1>1. DOMAIN v.grant.waiting = {}
  OBVIOUS
<1> QED
  BY <1>1 DEF Waits

LEMMA UnmountedIs ==
  ASSUME NEW w \in WorldState
  PROVE  LET v == Unmounted(w)
         IN /\ v \in WorldState /\ v.grant = w.grant /\ v.refresh = Off /\ v.session = NewSession
            /\ v.page.startup = "none" /\ v.page.entry = w.page.entry
<1> DEFINE v == Unmounted(w)
<1>1. v = [w EXCEPT !.page.startup = "none", !.refresh = Off, !.session = NewSession]
  BY DEF Unmounted, Off
<1> HIDE DEF v
<1>2. /\ v \in WorldState /\ v.grant = w.grant /\ v.refresh = Off /\ v.session = NewSession
      /\ v.page = [w.page EXCEPT !.startup = "none"]
  BY <1>1, IdleCoordinators DEF WorldState, PageState
<1>3. v.page.startup = "none" /\ v.page.entry = w.page.entry
  BY <1>2 DEF WorldState, PageState
<1> QED
  BY <1>2, <1>3 DEF v

LEMMA UnmountFits ==
  ASSUME RoomFits(World), Unmount
  PROVE  RoomFits(World')
<1> DEFINE v == Unmounted(World)
<1>1. page.entry = "refused" /\ Becomes(v)
  BY DEF Unmount
<1>2. World \in WorldState /\ (grant # None => Waits(World) /\ (grant.fresh => grant.issued > 0))
  BY RoomsAreShown
<1>3. /\ v \in WorldState /\ v.grant = grant /\ v.refresh = Off /\ v.session = NewSession
      /\ v.page.startup = "none" /\ v.page.entry = "refused"
  BY <1>1, <1>2, UnmountedIs, WorldHas
<1> HIDE DEF v
<1>4. grant # None => grant.closed /\ grant.step = "none" /\ grant.waiting = <<>>
  BY <1>1, <1>2, WorldHas DEF Waits
<1>5. grant # None => Waits(v)
  BY <1>3, <1>4, ClosedWaits
<1>6. RoomFits(v)
  BY <1>2, <1>3, <1>5, NoRoomFits
<1> QED
  BY <1>1, <1>6, BecomingFits

\* The page is left.
LEMMA GoneFits ==
  ASSUME RoomFits(World)
  PROVE  LET v == Gone(World)
         IN RoomFits(v) /\ v.page.entry = "left" /\ v.page.startup = "none" /\ (v.grant = None <=> grant = None)
<1> DEFINE stopped == IF grant = None THEN None ELSE Unanswered(grant)
<1> DEFINE c == CloseManager(stopped)
<1> DEFINE u == [World EXCEPT !.page.entry = "left", !.grant = c]
<1> DEFINE v == Unmounted(u)
<1>1. World \in WorldState /\ (grant # None => grant \in Manager /\ (grant.fresh => grant.issued > 0))
  BY RoomsAreShown
<1>2. Gone(World) = v
  BY WorldHas DEF Gone
<1>3. /\ c \in Manager \cup {None} /\ (c = None <=> grant = None)
      /\ grant # None => /\ c \in Manager /\ c.closed /\ c.step = "none" /\ c.waiting = <<>>
                         /\ c.issued = grant.issued /\ c.fresh = grant.fresh
  <2>1. CASE grant = None
    BY <2>1 DEF CloseManager
  <2>2. CASE grant # None
    <3>1. <<>> \in Seq(Waiter)
      OBVIOUS
    <3>2. PICK s : s = [grant EXCEPT !.step = "none", !.waiting = <<>>]
      OBVIOUS
    <3>3. /\ s \in Manager /\ s # None /\ s.step = "none" /\ s.waiting = <<>>
          /\ s.issued = grant.issued /\ s.fresh = grant.fresh
      BY <1>1, <2>2, <3>1, <3>2, NoneIsNone DEF Manager
    <3>4. PICK q : q = [s EXCEPT !.closed = TRUE]
      OBVIOUS
    <3>5. /\ q \in Manager /\ q # None /\ q.step = "none" /\ q.waiting = <<>> /\ q.closed
          /\ q.issued = grant.issued /\ q.fresh = grant.fresh
      BY <3>3, <3>4, NoneIsNone DEF Manager
    <3>6. c = q
      BY <2>2, <3>2, <3>3, <3>4 DEF CloseManager, Unanswered
    <3> QED
      BY <2>2, <3>5, <3>6
  <2> QED
    BY <2>1, <2>2
<1> HIDE DEF c
<1>4. /\ u \in WorldState /\ u.grant = c /\ u.page = [page EXCEPT !.entry = "left"]
  BY <1>1, <1>3, WorldHas DEF WorldState, PageState
<1>5. u.page.entry = "left"
  BY <1>1, <1>4, WorldHas DEF WorldState, PageState
<1> HIDE DEF u
<1>6. /\ v \in WorldState /\ v.grant = c /\ v.refresh = Off /\ v.session = NewSession
      /\ v.page.startup = "none" /\ v.page.entry = "left"
  BY <1>4, <1>5, UnmountedIs
<1> HIDE DEF v
<1>7. grant # None => Waits(v)
  BY <1>3, <1>6, ClosedWaits
<1>8. RoomFits(v)
  BY <1>1, <1>3, <1>6, <1>7, NoRoomFits
<1> QED
  BY <1>2, <1>3, <1>6, <1>8

\* The room is entered anew.
LEMMA AnewFits ==
  ASSUME RoomFits(World)
  PROVE  RoomFits(Boundary(Unmounted(World)))
<1> DEFINE u == Unmounted(World)
<1>1. World \in WorldState
  BY RoomsAreShown
<1>2. u \in WorldState /\ u.refresh = Off /\ u.session = NewSession /\ u.page.startup = "none"
  BY <1>1, UnmountedIs
<1> HIDE DEF u
<1>3. RoomFits(Boundary(u))
  BY <1>2, BoundaryFits
<1> QED
  BY <1>3 DEF u

-----------------------------------------------------------------------------
(* The grant is there, or is not                                           *)

\* Whoever waits asks before the room, or in it.
LEMMA WhoeverWaits ==
  ASSUME RoomFits(World), Asking
  PROVE  /\ World \in WorldState /\ Loose(World) /\ grant \in Manager /\ grant # None
         /\ ~grant.closed /\ grant.waiting \in Seq(Waiter) /\ grant.waiting # <<>>
         /\ page.startup = "none" =>
              \/ grant.waiting = <<"boundary">> /\ page.entry = "checking"
              \/ grant.waiting = <<"entry">> /\ page.entry = "asking"
         /\ page.startup # "none" => grant.waiting \in Seq(RoomWaiter)
         /\ grant.issued \in Nat /\ (grant.fresh => grant.issued > 0)
<1>1. /\ World \in WorldState /\ Loose(World) /\ Waits(World) /\ grant \in Manager /\ grant # None
      /\ (grant.fresh => grant.issued > 0)
  BY RoomsAreShown DEF Asking
<1>2. grant.waiting # <<>> /\ ~grant.closed
  BY <1>1, WorldHas DEF Asking, Waits
<1>3. grant.waiting \in Seq(Waiter) /\ grant.issued \in Nat
  BY <1>1 DEF Manager
<1>4. page.startup = "none" =>
        \/ grant.waiting = <<"boundary">> /\ page.entry = "checking"
        \/ grant.waiting = <<"entry">> /\ page.entry = "asking"
  BY <1>1, <1>2, WorldHas DEF Waits
<1>5. page.startup # "none" => grant.waiting \in Seq(RoomWaiter)
  BY <1>1, WorldHas DEF Waits
<1> QED
  BY <1>1, <1>2, <1>3, <1>4, <1>5

\* One alone goes on.
LEMMA OneGoesOn ==
  ASSUME NEW w, NEW who \in Waiter, NEW answer
  PROVE  AllGoOn(w, <<who>>, answer) = Resumed(w, who, answer)
<1>1. PICK waiting : waiting = <<who>>
  OBVIOUS
<1>2. waiting \in Seq(Waiter) /\ Len(waiting) = 1 /\ waiting[1] = who
  BY <1>1
<1>3. PICK after : /\ after[0] = w
                   /\ \A i \in 1..Len(waiting) :
                        after[i] = Resumed(after[i - 1], waiting[i], answer)
                   /\ AllGoOn(w, waiting, answer) = after[Len(waiting)]
  BY <1>2, GoingOn
<1>4. after[1] = Resumed(after[1 - 1], waiting[1], answer)
  BY <1>2, <1>3
<1>5. 1 - 1 = 0
  OBVIOUS
<1>6. after[1] = Resumed(w, who, answer)
  BY <1>2, <1>3, <1>4, <1>5, Zenon
<1> QED
  BY <1>1, <1>2, <1>3, <1>6, Zenon

\* Nobody waits for the manager any more.
LEMMA ManagersAnswer ==
  ASSUME RoomFits(World), Asking
  PROVE  /\ LET b == [World EXCEPT !.grant = Issued(@)]
            IN /\ b \in WorldState /\ b.page = page /\ b.refresh = refresh /\ b.session = session
               /\ b.grant \in Manager /\ b.grant # None
               /\ ~b.grant.closed /\ b.grant.step = "none" /\ b.grant.waiting = <<>>
               /\ b.grant.issued = grant.issued + 1 /\ b.grant.fresh
         /\ LET b == [World EXCEPT !.grant = Unanswered(@)]
            IN /\ b \in WorldState /\ b.page = page /\ b.refresh = refresh /\ b.session = session
               /\ b.grant \in Manager /\ b.grant # None
               /\ ~b.grant.closed /\ b.grant.step = "none" /\ b.grant.waiting = <<>>
               /\ b.grant.issued = grant.issued /\ b.grant.fresh = grant.fresh
<1>1. World \in WorldState /\ grant \in Manager /\ ~grant.closed /\ grant.issued \in Nat
  BY WhoeverWaits
<1>2. <<>> \in Seq(Waiter)
  OBVIOUS
<1>0. PICK n \in Nat : n = grant.issued + 1
  BY <1>1
<1>3. PICK g : g = [grant EXCEPT !.step = "none", !.waiting = <<>>, !.issued = n, !.fresh = TRUE]
  OBVIOUS
<1>4. /\ g \in Manager /\ g # None /\ ~g.closed /\ g.step = "none" /\ g.waiting = <<>>
      /\ g.issued = grant.issued + 1 /\ g.fresh
  BY <1>0, <1>1, <1>2, <1>3, NoneIsNone DEF Manager
<1>5. PICK h : h = Unanswered(grant)
  OBVIOUS
<1>6. /\ h \in Manager /\ h # None /\ ~h.closed /\ h.step = "none" /\ h.waiting = <<>>
      /\ h.issued = grant.issued /\ h.fresh = grant.fresh
  BY <1>1, <1>2, <1>5, NoneIsNone DEF Unanswered, Manager
<1>7. PICK b : b = [World EXCEPT !.grant = g]
  OBVIOUS
<1>8. b \in WorldState /\ b.grant = g /\ b.page = page /\ b.refresh = refresh /\ b.session = session
  BY <1>1, <1>4, <1>7, WorldHas DEF WorldState
<1>9. PICK c : c = [World EXCEPT !.grant = h]
  OBVIOUS
<1>10. c \in WorldState /\ c.grant = h /\ c.page = page /\ c.refresh = refresh /\ c.session = session
  BY <1>1, <1>6, <1>9, WorldHas DEF WorldState
<1>11. [World EXCEPT !.grant = Issued(@)] = b /\ [World EXCEPT !.grant = Unanswered(@)] = c
  BY <1>0, <1>3, <1>5, <1>7, <1>9, WorldHas DEF Issued
<1>12. /\ b \in WorldState /\ b.page = page /\ b.refresh = refresh /\ b.session = session
       /\ b.grant \in Manager /\ b.grant # None
       /\ ~b.grant.closed /\ b.grant.step = "none" /\ b.grant.waiting = <<>>
       /\ b.grant.issued = grant.issued + 1 /\ b.grant.fresh
  BY <1>4, <1>8
<1>13. /\ c \in WorldState /\ c.page = page /\ c.refresh = refresh /\ c.session = session
       /\ c.grant \in Manager /\ c.grant # None
       /\ ~c.grant.closed /\ c.grant.step = "none" /\ c.grant.waiting = <<>>
       /\ c.grant.issued = grant.issued /\ c.grant.fresh = grant.fresh
  BY <1>6, <1>10
<1> QED
  BY <1>11, <1>12, <1>13, Zenon

\* The boundary or the preparation goes on, with the manager as it was or closed.
LEMMA ScreenFits ==
  ASSUME NEW b \in WorldState, b.page.startup = "none", b.refresh = Off, b.session = NewSession,
         b.grant \in Manager, b.grant # None, ~b.grant.closed,
         b.grant.step = "none", b.grant.waiting = <<>>, b.grant.fresh => b.grant.issued > 0
  PROVE  /\ \A e \in {"ready", "authorized"} : RoomFits([b EXCEPT !.page.entry = e])
         /\ \A e \in {"refused", "unavailable"} :
              RoomFits([b EXCEPT !.grant = CloseManager(@), !.page.entry = e])
<1>1. DOMAIN b.grant.waiting = {}
  OBVIOUS
<1>2. ASSUME NEW e \in {"ready", "authorized"}
      PROVE  RoomFits([b EXCEPT !.page.entry = e])
  <2> DEFINE v == [b EXCEPT !.page.entry = e]
  <2>1. /\ v \in WorldState /\ v.grant = b.grant /\ v.refresh = b.refresh /\ v.session = b.session
        /\ v.page = [b.page EXCEPT !.entry = e]
    BY DEF WorldState, PageState
  <2>2. v.page.entry = e /\ v.page.startup = "none"
    <3> HIDE DEF v
    <3> QED
      BY <2>1 DEF WorldState, PageState
  <2>3. v \in WorldState /\ v.grant = b.grant /\ v.refresh = Off /\ v.session = NewSession
    BY <2>1
  <2> HIDE DEF v
  <2>4. Waits(v)
    BY <1>1, <2>2, <2>3 DEF Waits
  <2> QED
    BY <2>2, <2>3, <2>4, NoRoomFits DEF v
<1>3. ASSUME NEW e \in {"refused", "unavailable"}
      PROVE  RoomFits([b EXCEPT !.grant = CloseManager(@), !.page.entry = e])
  <2>0. PICK g : g = [b.grant EXCEPT !.closed = TRUE]
    OBVIOUS
  <2>1. /\ g \in Manager /\ g # None /\ g.closed /\ g.step = "none" /\ g.waiting = <<>>
        /\ g.issued = b.grant.issued /\ g.fresh = b.grant.fresh
    BY <2>0, NoneIsNone DEF Manager
  <2> DEFINE v == [b EXCEPT !.grant = g, !.page.entry = e]
  <2>2. [b EXCEPT !.grant = CloseManager(@), !.page.entry = e] = v
    BY <2>0 DEF CloseManager
  <2>3. /\ v \in WorldState /\ v.grant = g /\ v.refresh = b.refresh /\ v.session = b.session
        /\ v.page = [b.page EXCEPT !.entry = e]
    BY <2>1 DEF WorldState, PageState
  <2>4. v.page.entry = e /\ v.page.startup = "none"
    <3> HIDE DEF v
    <3> QED
      BY <2>3 DEF WorldState, PageState
  <2>5. v \in WorldState /\ v.grant = g /\ v.refresh = Off /\ v.session = NewSession
    BY <2>3
  <2> HIDE DEF v
  <2>6. Waits(v)
    BY <1>1, <2>1, <2>4, <2>5 DEF Waits
  <2> QED
    BY <2>1, <2>2, <2>4, <2>5, <2>6, NoRoomFits
<1> QED
  BY <1>2, <1>3

\* The room, while those who waited for grant n go on one after the other.
Answering(v, n, waiting) ==
  /\ Nearly(v) /\ v.grant.issued = n /\ v.grant.waiting = <<>> /\ v.page.startup # "none"
  /\ v.session.last # n
  /\ \A j \in DOMAIN waiting :
       /\ waiting[j] = "connect" =>
            \/ v.session.status = "preparing"
            \/ v.session.status = "connecting" /\ v.session.used = n
       /\ waiting[j] = "startup" => v.session.status = "none"
\* Nobody has told the coordinator, or somebody has.
Untold(v, n) ==
  v.refresh.active => v.refresh.told # n /\ (v.session.status = "connecting" => v.session.used < n)
Dealt(v, n) ==
  Loose(v) /\ (v.refresh.active => v.refresh.told = n /\ "grant" \in v.refresh.timers)

LEMMA GoingOnWithGrant ==
  ASSUME NEW v, NEW n, NEW waiting, Answering(v, n, waiting), Untold(v, n) \/ Dealt(v, n),
         NEW j \in DOMAIN waiting, waiting[j] \in RoomWaiter
  PROVE  LET u == Granted(v, waiting[j]) IN Answering(u, n, waiting) /\ Dealt(u, n)
<1> DEFINE who == waiting[j]
<1> DEFINE i == Informed(v)
<1> DEFINE u == Proceeds(i, who)
<1>1. Nearly(v) /\ v.grant # None /\ v.grant.issued = n
  BY DEF Answering, Nearly
<1>2. v.refresh.active /\ v.refresh.told = v.grant.issued => Told(v, v.grant.issued)
  BY <1>1 DEF Untold, Dealt, Loose
<1>3. v.refresh.active /\ v.refresh.told # v.grant.issued /\ v.session.status = "connecting" =>
        v.session.used < v.grant.issued
  BY <1>1 DEF Untold, Dealt
<1>4. /\ Loose(i) /\ AsBefore(i, v) /\ Granted(v, who) = u
      /\ i.refresh.active => i.refresh.told = i.grant.issued /\ "grant" \in i.refresh.timers
  BY <1>1, <1>2, <1>3, InformingFits
<1> HIDE DEF i
<1>5. /\ i.grant = v.grant /\ i.page = v.page /\ i.refresh.active = v.refresh.active
      /\ i.session.status = v.session.status /\ i.session.used = v.session.used
      /\ i.session.last = v.session.last
  BY <1>4 DEF AsBefore
<1>6. \A k : Lacks(i, k)
  <2>1. DOMAIN i.grant.waiting = {}
    BY <1>5 DEF Answering
  <2> QED
    BY <2>1 DEF Lacks
<1>7. /\ i.page.startup # "none" /\ i.grant # None
      /\ who = "startup" => i.session.status = "none"
      /\ who = "connect" =>
           /\ i.session.last # i.grant.issued
           /\ i.session.status = "connecting" => i.session.used = i.grant.issued
  BY <1>1, <1>5 DEF Answering
<1>8. Loose(u) /\ Moves(u, i)
  <2> HIDE DEF u, who
  <2>1. who \in RoomWaiter
    BY DEF who
  <2> QED
    BY <1>4, <1>6, <1>7, <2>1, ProceedingFits DEF u
<1> HIDE DEF u
<1>9. Dealt(u, n)
  BY <1>1, <1>4, <1>5, <1>8 DEF Moves, Dealt
<1>10. Nearly(u)
  BY <1>1, <1>5, <1>8 DEF Loose, Nearly, Moves
<1>11. Answering(u, n, waiting)
  BY <1>1, <1>5, <1>8, <1>10 DEF Answering, Moves
<1> QED
  BY <1>4, <1>9, <1>11

\* The base from which they go on.
LEMMA GrantsComeFirst ==
  ASSUME RoomFits(World), Asking, page.startup # "none"
  PROVE  LET b == [World EXCEPT !.grant = Issued(@)]
         IN /\ Answering(b, grant.issued + 1, grant.waiting) /\ Untold(b, grant.issued + 1)
            /\ b \in WorldState
<1> DEFINE b == [World EXCEPT !.grant = Issued(@)]
<1> DEFINE n == grant.issued + 1
<1>1. /\ b \in WorldState /\ b.page = page /\ b.refresh = refresh /\ b.session = session
      /\ b.grant \in Manager /\ b.grant # None
      /\ ~b.grant.closed /\ b.grant.step = "none" /\ b.grant.waiting = <<>>
      /\ b.grant.issued = n /\ b.grant.fresh
  BY ManagersAnswer
<1> HIDE DEF b
<1>2. grant.issued \in Nat /\ Loose(World) /\ grant # None /\ ~grant.closed
  BY WhoeverWaits
<1>3. /\ Ends(World) /\ TurnIsOn(World) /\ Waits(World) /\ NoneAhead(World, grant.issued)
      /\ MadeWith(World) /\ IsNew(World) /\ World \in WorldState
  BY <1>2, WorldHas DEF Loose
<1>4. session \in SessionState /\ refresh \in Coordinator
  BY <1>3, WorldHas DEF WorldState
<1>5. Ends(b) /\ TurnIsOn(b) /\ MadeWith(b) /\ IsNew(b)
  BY <1>1, <1>2, <1>3, WorldHas DEF Ends, TurnIsOn, MadeWith, IsNew
<1>6. NoneAhead(b, n)
  BY <1>1, <1>2, <1>3, <1>4, WorldHas DEF NoneAhead, SessionState, Coordinator, Renewal
<1>7. Waits(b)
  <2>1. DOMAIN b.grant.waiting = {}
    BY <1>1
  <2>2. <<>> \in Seq(RoomWaiter)
    OBVIOUS
  <2> QED
    BY <1>1, <1>2, <1>3, <2>1, <2>2, WorldHas DEF Waits
<1>8. Nearly(b)
  BY <1>1, <1>2, <1>5, <1>6, <1>7 DEF Nearly
<1>9. session.last # n /\ session.used < n /\ refresh.told # n
  BY <1>2, <1>3, <1>4, NoneIsNone, WorldHas DEF NoneAhead, SessionState
<1>10. \A j \in DOMAIN grant.waiting :
         /\ grant.waiting[j] = "connect" => session.status = "preparing"
         /\ grant.waiting[j] = "startup" => session.status = "none"
  BY <1>3, WorldHas DEF Waits, Ends
<1>11. Answering(b, n, grant.waiting)
  BY <1>1, <1>8, <1>9, <1>10 DEF Answering
<1>12. Untold(b, n)
  BY <1>1, <1>9 DEF Untold
<1> QED
  BY <1>1, <1>11, <1>12 DEF b

LEMMA GrantIssuedFits ==
  ASSUME RoomFits(World), GrantIssued
  PROVE  RoomFits(World')
<1> DEFINE b == [World EXCEPT !.grant = Issued(@)]
<1> DEFINE v == AllGoOn(b, grant.waiting, "issued")
<1>1. Asking /\ Becomes(v)
  BY DEF GrantIssued
<1>2. /\ grant.waiting \in Seq(Waiter) /\ grant.waiting # <<>>
      /\ page.startup = "none" =>
           \/ grant.waiting = <<"boundary">> /\ page.entry = "checking"
           \/ grant.waiting = <<"entry">> /\ page.entry = "asking"
      /\ page.startup # "none" => grant.waiting \in Seq(RoomWaiter)
      /\ grant.issued \in Nat
  BY <1>1, WhoeverWaits
<1>3. CASE page.startup = "none"
  <2>1. /\ b \in WorldState /\ b.page.startup = "none" /\ b.refresh = Off /\ b.session = NewSession
        /\ b.grant \in Manager /\ b.grant # None /\ ~b.grant.closed
        /\ b.grant.step = "none" /\ b.grant.waiting = <<>> /\ b.grant.issued > 0
    <3>1. refresh = Off /\ session = NewSession
      BY <1>3, RoomsAreShown
    <3>2. /\ b \in WorldState /\ b.page = page /\ b.refresh = refresh /\ b.session = session
          /\ b.grant \in Manager /\ b.grant # None /\ ~b.grant.closed
          /\ b.grant.step = "none" /\ b.grant.waiting = <<>> /\ b.grant.issued = grant.issued + 1
      BY <1>1, ManagersAnswer
    <3> HIDE DEF b
    <3> QED
      BY <1>2, <1>3, <3>1, <3>2
  <2> HIDE DEF b
  <2>2. \A e \in {"ready", "authorized"} : RoomFits([b EXCEPT !.page.entry = e])
    BY Zenon, <2>1, ScreenFits
  <2>3. CASE grant.waiting = <<"boundary">>
    <3>1. v = Resumed(b, "boundary", "issued")
      BY <2>3, OneGoesOn DEF Waiter
    <3>2. v = [b EXCEPT !.page.entry = "ready"]
      BY <3>1, Zenon DEF Resumed, GoesOn
    <3>3. RoomFits(v)
      BY <2>2, <3>2
    <3> QED
      BY <1>1, <3>3, BecomingFits
  <2>4. CASE grant.waiting = <<"entry">>
    <3>1. v = Resumed(b, "entry", "issued")
      BY <2>4, OneGoesOn DEF Waiter
    <3>2. v = [b EXCEPT !.page.entry = "authorized"]
      BY <3>1, Zenon DEF Resumed, GoesOn
    <3>3. RoomFits(v)
      BY <2>2, <3>2
    <3> QED
      BY <1>1, <3>3, BecomingFits
  <2> QED
    BY <1>2, <1>3, <2>3, <2>4
<1>4. CASE page.startup # "none"
  <2> DEFINE n == grant.issued + 1
  <2> DEFINE waiting == grant.waiting
  <2> DEFINE I == {p \in (0..Len(waiting)) \X WorldState :
                     Answering(p[2], n, waiting) /\ ((p[1] = 0 /\ Untold(p[2], n)) \/ Dealt(p[2], n))}
  <2>1. Answering(b, n, waiting) /\ Untold(b, n) /\ b \in WorldState
    BY <1>1, <1>4, GrantsComeFirst
  <2> HIDE DEF b
  <2>2. Len(waiting) \in Nat /\ Len(waiting) > 0 /\ DOMAIN waiting = 1..Len(waiting)
    BY <1>2
  <2>3. <<0, b>> \in I
    BY <2>1, <2>2
  <2>4. ASSUME NEW i \in 1..Len(waiting), NEW u, <<i - 1, u>> \in I
        PROVE  <<i, Resumed(u, waiting[i], "issued")>> \in I
    <3> DEFINE who == waiting[i]
    <3>1. who \in RoomWaiter /\ i \in DOMAIN waiting
      BY <1>2, <1>4, <2>2
    <3>2. Answering(u, n, waiting) /\ (Untold(u, n) \/ Dealt(u, n))
      BY <2>4
    <3>3. Answering(Granted(u, who), n, waiting) /\ Dealt(Granted(u, who), n)
      BY <3>1, <3>2, GoingOnWithGrant
    <3>4. who \notin {"boundary", "entry"}
      BY Zenon, <3>1 DEF RoomWaiter, Turns
    <3>5. Resumed(u, who, "issued") = Granted(u, who)
      <4> HIDE DEF who
      <4> QED
        BY <3>4, Zenon DEF Resumed, GoesOn
    <3>6. Granted(u, who) \in WorldState
      BY <3>3 DEF Dealt, Loose
    <3> HIDE DEF who
    <3>7. <<i, Granted(u, who)>> \in I
      BY <3>3, <3>6, <2>2
    <3> QED
      BY <3>5, <3>7, Zenon DEF who
  <2> HIDE DEF I, n
  <2>5. <<Len(waiting), v>> \in I
    BY <1>2, <2>3, <2>4, GoingOnKeeps
  <2> HIDE DEF v
  <2>6. Answering(v, n, waiting) /\ Dealt(v, n)
    BY <2>2, <2>5 DEF I
  <2>7. RoomFits(v)
    BY <2>6 DEF RoomFits, GrantIsOn, Dealt
  <2> QED
    BY <1>1, <2>7, BecomingFits DEF v
<1> QED
  BY <1>3, <1>4

\* The room, while those who waited fail one after the other.
Unanswering(v) ==
  Loose(v) /\ v.grant # None /\ v.grant.waiting = <<>> /\ v.page.startup # "none"

LEMMA GrantsEnd ==
  ASSUME RoomFits(World), Asking
  PROVE  LET b == [World EXCEPT !.grant = Unanswered(@)]
         IN /\ b \in WorldState /\ b.page = page
            /\ page.startup # "none" => Unanswering(b)
            /\ page.startup = "none" =>
                 /\ \A e \in {"ready", "authorized"} : RoomFits([b EXCEPT !.page.entry = e])
                 /\ \A e \in {"refused", "unavailable"} :
                      RoomFits([b EXCEPT !.grant = CloseManager(@), !.page.entry = e])
<1> DEFINE b == [World EXCEPT !.grant = Unanswered(@)]
<1>1. /\ b \in WorldState /\ b.page = page /\ b.refresh = refresh /\ b.session = session
      /\ b.grant \in Manager /\ b.grant # None
      /\ ~b.grant.closed /\ b.grant.step = "none" /\ b.grant.waiting = <<>>
      /\ b.grant.issued = grant.issued /\ b.grant.fresh = grant.fresh
  BY ManagersAnswer
<1> HIDE DEF b
<1>2. Loose(World) /\ grant # None /\ ~grant.closed /\ (grant.fresh => grant.issued > 0)
  BY WhoeverWaits
<1>3. ASSUME page.startup # "none" PROVE Unanswering(b)
  <2>1. Ends(b) /\ TurnIsOn(b)
    BY <1>1, <1>2, WorldHas DEF Loose, Ends, TurnIsOn
  <2>2. NoneAhead(b, b.grant.issued) /\ MadeWith(b) /\ IsNew(b) /\ Told(b, b.grant.issued)
    BY <1>1, <1>2, WorldHas DEF Loose, NoneAhead, MadeWith, IsNew, Told
  <2>3. DOMAIN b.grant.waiting = {} /\ <<>> \in Seq(RoomWaiter)
    BY <1>1
  <2>4. Waits(b)
    BY <1>1, <1>2, <1>3, <2>3, WorldHas DEF Loose, Waits
  <2> QED
    BY <1>1, <1>2, <1>3, <2>1, <2>2, <2>4 DEF Unanswering, Loose
<1>4. ASSUME page.startup = "none"
      PROVE  /\ \A e \in {"ready", "authorized"} : RoomFits([b EXCEPT !.page.entry = e])
             /\ \A e \in {"refused", "unavailable"} :
                  RoomFits([b EXCEPT !.grant = CloseManager(@), !.page.entry = e])
  <2>1. refresh = Off /\ session = NewSession
    BY <1>4, RoomsAreShown
  <2>2. b.page.startup = "none" /\ b.refresh = Off /\ b.session = NewSession
    BY <1>1, <1>4, <2>1
  <2> QED
    BY Zenon, <1>1, <1>2, <2>2, ScreenFits
<1> QED
  BY <1>1, <1>3, <1>4 DEF b

LEMMA GoingOnRefused ==
  ASSUME NEW w, Unanswering(w), NEW who \in RoomWaiter
  PROVE  Unanswering(Refused(w, who)) /\ ~Refused(w, who).refresh.active
<1> DEFINE s == Stopped(w)
<1> DEFINE e == IF w.page.entry = "left" THEN w.page.entry ELSE "refused"
<1>1. w \in WorldState /\ w.grant \in Manager /\ Waits(w)
  BY DEF Unanswering, Loose, WorldState
<1>2. /\ s \in WorldState /\ s.grant = w.grant /\ s.page = w.page /\ s.session = w.session
      /\ ~s.refresh.active /\ s.refresh.timers = {}
      /\ s.refresh.told = w.refresh.told /\ s.refresh.connect = w.refresh.connect
      /\ s.refresh.joined = w.refresh.joined /\ s.refresh.renewals = w.refresh.renewals
  BY <1>1, StoppingFits
<1> HIDE DEF s
<1>3. PICK g : g = [w.grant EXCEPT !.closed = TRUE]
  OBVIOUS
<1>4. /\ g \in Manager /\ g # None /\ g.closed /\ g.step = w.grant.step /\ g.waiting = <<>>
      /\ g.issued = w.grant.issued /\ g.fresh = w.grant.fresh
  BY <1>1, <1>3, NoneIsNone DEF Manager, Unanswering
<1>5. e \in {"refused", "left"}
  OBVIOUS
<1> DEFINE u == [s EXCEPT !.grant = g, !.page.entry = e]
<1>6. Refused(w, who) = Fails(u, who)
  BY <1>2, <1>3 DEF Refused, CloseManager, Unanswering, s
<1> HIDE DEF e
<1>7. /\ u \in WorldState /\ u.grant = g /\ u.refresh = s.refresh /\ u.session = w.session
      /\ u.page = [w.page EXCEPT !.entry = e]
  BY <1>2, <1>4, <1>5 DEF WorldState, PageState
<1>8. u.page.entry = e /\ u.page.startup = w.page.startup
  <2> HIDE DEF u
  <2> QED
    BY <1>1, <1>5, <1>7 DEF WorldState, PageState
<1> HIDE DEF u
<1>9. Waits(u)
  <2>1. DOMAIN g.waiting = {} /\ <<>> \in Seq(RoomWaiter)
    BY <1>4
  <2>2. w.page.entry \in {"room", "refused"}
    BY <1>1 DEF Waits, Unanswering
  <2>3. e = "refused"
    BY <2>2 DEF e
  <2> QED
    BY <1>1, <1>4, <1>7, <1>8, <2>1, <2>3 DEF Waits, Unanswering
<1>10. Loose(u)
  <2>1. /\ Loose(w) /\ w.grant # None /\ w.page.startup # "none"
        /\ w.page.startup \in {"grant", "turn"} => w.session.status = "none"
    BY DEF Unanswering, Loose, Ends
  <2>2. /\ u \in WorldState /\ u.page.startup # "none" /\ ~u.refresh.active /\ u.refresh.timers = {}
        /\ u.refresh.told = w.refresh.told /\ u.refresh.connect = w.refresh.connect
        /\ u.refresh.joined = w.refresh.joined /\ u.refresh.renewals = w.refresh.renewals
        /\ u.session = w.session /\ u.grant # None
        /\ u.grant.issued = w.grant.issued /\ u.grant.fresh = w.grant.fresh
    BY <1>2, <1>4, <1>7, <1>8, <2>1
  <2> QED
    BY <1>8, <1>9, <2>1, <2>2, EndingFits
<1>11. u.page.startup # "none" /\ u.grant.waiting = <<>> /\ u.grant # None /\ ~u.refresh.active
  BY <1>2, <1>4, <1>7, <1>8 DEF Unanswering
<1>12. Loose(Fails(u, who)) /\ FailsOnly(Fails(u, who), u)
  BY <1>10, <1>11, FailingFits
<1> QED
  BY <1>6, <1>11, <1>12 DEF FailsOnly, Unanswering

LEMMA GoingOnFailed ==
  ASSUME NEW w, Unanswering(w), NEW who \in RoomWaiter
  PROVE  /\ Unanswering(Failed(w, who))
         /\ Failed(w, who).refresh.active => "grant" \in Failed(w, who).refresh.timers
<1> DEFINE s == Scheduled(w, "grant")
<1>1. w \in WorldState /\ Loose(w)
  BY DEF Unanswering, Loose
<1>2. /\ Loose(s) /\ s.grant = w.grant /\ s.page = w.page
      /\ s.refresh.active => "grant" \in s.refresh.timers
  BY <1>1, SchedulingFits
<1> HIDE DEF s
<1>3. s.page.startup # "none" /\ s.grant # None /\ s.grant.waiting = <<>>
  BY <1>2 DEF Unanswering
<1>4. Loose(Fails(s, who)) /\ FailsOnly(Fails(s, who), s)
  BY <1>2, <1>3, FailingFits
<1>5. Failed(w, who) = Fails(s, who)
  BY DEF Failed, s
<1> QED
  BY <1>2, <1>3, <1>4, <1>5 DEF FailsOnly, Unanswering

LEMMA UnansweredFits ==
  ASSUME RoomFits(World), Asking, NEW answer \in {"refused", "failed"}
  PROVE  RoomFits(AllGoOn([World EXCEPT !.grant = Unanswered(@)], grant.waiting, answer))
<1> DEFINE b == [World EXCEPT !.grant = Unanswered(@)]
<1> DEFINE v == AllGoOn(b, grant.waiting, answer)
<1>1. /\ b \in WorldState
      /\ page.startup # "none" => Unanswering(b)
      /\ page.startup = "none" =>
           /\ \A e \in {"ready", "authorized"} : RoomFits([b EXCEPT !.page.entry = e])
           /\ \A e \in {"refused", "unavailable"} :
                RoomFits([b EXCEPT !.grant = CloseManager(@), !.page.entry = e])
  BY GrantsEnd
<1>2. /\ grant.waiting \in Seq(Waiter) /\ grant.waiting # <<>>
      /\ page.startup = "none" =>
           \/ grant.waiting = <<"boundary">> \/ grant.waiting = <<"entry">>
      /\ page.startup # "none" => grant.waiting \in Seq(RoomWaiter)
  BY WhoeverWaits
<1> HIDE DEF b
<1>3. CASE page.startup = "none"
  <2>1. PICK who \in {"boundary", "entry"} : grant.waiting = <<who>>
    BY <1>2, <1>3
  <2>2. v = Resumed(b, who, answer)
    BY <2>1, OneGoesOn DEF Waiter
  <2>3. Resumed(b, who, answer)
          \in {[b EXCEPT !.grant = CloseManager(@), !.page.entry = "refused"],
               [b EXCEPT !.grant = CloseManager(@), !.page.entry = "unavailable"],
               [b EXCEPT !.page.entry = "ready"]}
    <3>1. answer = "refused" => Resumed(b, who, answer) = IsRefused(b, who)
      BY Zenon DEF Resumed
    <3>2. answer = "failed" => Resumed(b, who, answer) = IsFailed(b, who)
      BY Zenon DEF Resumed
    <3>3. IsRefused(b, who) = [b EXCEPT !.grant = CloseManager(@), !.page.entry = "refused"]
      BY <2>1 DEF IsRefused
    <3>4. who = "boundary" =>
            IsFailed(b, who) = [b EXCEPT !.grant = CloseManager(@), !.page.entry = "unavailable"]
      BY Zenon DEF IsFailed
    <3>5. who = "entry" => IsFailed(b, who) = [b EXCEPT !.page.entry = "ready"]
      BY Zenon DEF IsFailed
    <3> QED
      BY <2>1, <3>1, <3>2, <3>3, <3>4, <3>5, Zenon
  <2>4. RoomFits(Resumed(b, who, answer))
    BY <1>1, <1>3, <2>3, Zenon
  <2>5. RoomFits(v)
    BY <2>2, <2>4, Zenon
  <2> QED
    BY <2>5 DEF b
<1>4. CASE page.startup # "none"
  <2> DEFINE waiting == grant.waiting
  <2> DEFINE IsOn(u) == u.refresh.active => "grant" \in u.refresh.timers
  <2> DEFINE I == {p \in (0..Len(waiting)) \X WorldState :
                     Unanswering(p[2]) /\ (p[1] = 0 \/ IsOn(p[2]))}
  <2>1. Unanswering(b) /\ b \in WorldState
    BY <1>1, <1>4
  <2>2. Len(waiting) \in Nat /\ Len(waiting) > 0 /\ DOMAIN waiting = 1..Len(waiting)
    BY <1>2
  <2>3. <<0, b>> \in I
    BY <2>1, <2>2
  <2>4. ASSUME NEW i \in 1..Len(waiting), NEW u, <<i - 1, u>> \in I
        PROVE  <<i, Resumed(u, waiting[i], answer)>> \in I
    <3> DEFINE who == waiting[i]
    <3> DEFINE t == Resumed(u, who, answer)
    <3>1. who \in RoomWaiter
      BY <1>2, <1>4, <2>2
    <3>2. Unanswering(u)
      BY <2>4
    <3>3. who \notin {"boundary", "entry"}
      BY Zenon, <3>1 DEF RoomWaiter, Turns
    <3> HIDE DEF who
    <3>4. answer = "refused" => t = Refused(u, who)
      BY <3>3, Zenon DEF Resumed, IsRefused
    <3>5. answer = "failed" => t = Failed(u, who)
      BY <3>3, Zenon DEF Resumed, IsFailed
    <3>6. Unanswering(Refused(u, who)) /\ ~Refused(u, who).refresh.active
      BY <3>1, <3>2, GoingOnRefused
    <3>7. /\ Unanswering(Failed(u, who))
          /\ Failed(u, who).refresh.active => "grant" \in Failed(u, who).refresh.timers
      BY <3>1, <3>2, GoingOnFailed
    <3>8. Unanswering(t) /\ IsOn(t)
      <4> HIDE DEF t
      <4> QED
        BY <3>4, <3>5, <3>6, <3>7
    <3> HIDE DEF t
    <3>9. <<i, t>> \in I
      BY <3>8, <2>2 DEF Unanswering, Loose
    <3> QED
      BY <3>9 DEF t, who
  <2> HIDE DEF I
  <2>5. <<Len(waiting), v>> \in I
    BY <1>2, <2>3, <2>4, GoingOnKeeps
  <2> HIDE DEF v
  <2>6. Unanswering(v) /\ IsOn(v)
    BY <2>2, <2>5 DEF I
  <2>7. RoomFits(v)
    BY <2>6 DEF RoomFits, GrantIsOn, Unanswering
  <2> QED
    BY <2>7 DEF v, b
<1> QED
  BY <1>3, <1>4 DEF b

LEMMA GrantRefusedFits ==
  ASSUME RoomFits(World), GrantRefused
  PROVE  RoomFits(World')
<1> DEFINE v == AllGoOn([World EXCEPT !.grant = Unanswered(@)], grant.waiting, "refused")
<1>1. Asking /\ Becomes(v)
  BY DEF GrantRefused
<1>2. RoomFits(v)
  BY <1>1, UnansweredFits
<1> HIDE DEF v
<1> QED
  BY <1>1, <1>2, BecomingFits

LEMMA GrantFailsFits ==
  ASSUME RoomFits(World), GrantFails
  PROVE  RoomFits(World')
<1> DEFINE v == AllGoOn([World EXCEPT !.grant = Unanswered(@)], grant.waiting, "failed")
<1>1. Asking /\ Becomes(v)
  BY DEF GrantFails
<1>2. RoomFits(v)
  BY <1>1, UnansweredFits
<1> HIDE DEF v
<1> QED
  BY <1>1, <1>2, BecomingFits

-----------------------------------------------------------------------------
(* The address and the history of the browser                              *)

\* Another address is shown only by moving to it.
Quiet(t, s) == ShellState(t) /\ t.path = s.path

LEMMA GoingIsQuiet ==
  ASSUME NEW s, ShellState(s), NEW delta
  PROVE  Quiet(Go(s, delta), s)
BY DEF ShellState, ShellFields, Go, Quiet

LEMMA FinishingIsQuiet ==
  ASSUME NEW s, ShellState(s)
  PROVE  Quiet(Finish(s), s)
<1> DEFINE done == [s EXCEPT !.pending = None]
<1> DEFINE approved == [done EXCEPT !.approved = s.pending.target]
<1>1. ShellState(done) /\ done.path = s.path
  BY DEF ShellState, ShellFields
<1> HIDE DEF done
<1>2. ShellState(approved) /\ approved.path = s.path
  BY <1>1 DEF ShellState, ShellFields
<1> HIDE DEF approved
<1>3. Quiet(Go(approved, s.pending.target - s.index), s)
  BY <1>2, GoingIsQuiet DEF Quiet
<1>4. Finish(s) \in {s, done, Go(approved, s.pending.target - s.index)}
  BY DEF Finish, done, approved
<1> QED
  BY <1>1, <1>3, <1>4 DEF Quiet

LEMMA DecidingIsQuiet ==
  ASSUME NEW s, ShellState(s), NEW accepted
  PROVE  Quiet(Decided(s, accepted), s)
<1> DEFINE d == [s EXCEPT !.pending.accepted = accepted]
<1>1. ShellState(d) /\ d.path = s.path
  BY DEF ShellState, ShellFields
<1> HIDE DEF d
<1>2. Quiet(Finish(d), s)
  BY <1>1, FinishingIsQuiet DEF Quiet
<1>3. Decided(s, accepted) \in {s, Finish(d)}
  BY DEF Decided, d
<1> QED
  BY <1>2, <1>3 DEF Quiet

LEMMA ClosingIsQuiet ==
  ASSUME NEW s, ShellState(s)
  PROVE  Quiet(Closed(s), s)
<1> DEFINE d == Decided(s, "no")
<1>1. Quiet(d, s)
  BY DecidingIsQuiet
<1> HIDE DEF d
<1>2. Quiet([d EXCEPT !.exit = None], s)
  BY <1>1 DEF ShellState, ShellFields, Quiet
<1>3. Closed(s) \in {s, [d EXCEPT !.exit = None]}
  BY DEF Closed, d
<1> QED
  BY <1>2, <1>3 DEF Quiet

LEMMA PartsOfSequences ==
  ASSUME NEW S, NEW seq \in Seq(S), NEW n \in 1..Len(seq)
  PROVE  SubSeq(seq, 1, n) \in Seq(S) /\ Len(SubSeq(seq, 1, n)) = n
<1>1. \A i \in 1..n : i \in 1..Len(seq) /\ seq[i] \in S
  OBVIOUS
<1> QED
  BY <1>1

LEMMA NavigatingIsMoving ==
  ASSUME NEW s, ShellState(s), NEW path \in Paths
  PROVE  ShellState(Navigate(s, path)) /\ Navigate(s, path).path = path
<1>1. /\ s.entries \in Seq(HistoryEntry)
      /\ s.at \in 1..Len(s.entries) /\ s.index \in Nat
  BY DEF ShellState
<1>2. PICK e : e = Entry(path, s.index + 1)
  OBVIOUS
<1>3. e \in HistoryEntry
  BY <1>1, <1>2 DEF Entry, HistoryEntry
<1>4. PICK q : q = SubSeq(s.entries, 1, s.at)
  OBVIOUS
<1>5. q \in Seq(HistoryEntry) /\ Len(q) = s.at
  BY <1>1, <1>4, PartsOfSequences
<1>6. PICK r : r = Append(q, e)
  OBVIOUS
<1>7. r \in Seq(HistoryEntry) /\ s.at + 1 \in DOMAIN r
  BY <1>1, <1>3, <1>5, <1>6
<1> DEFINE t == [s EXCEPT !.pending = None, !.approved = None, !.index = s.index + 1,
                          !.path = path, !.entries = r, !.at = s.at + 1]
<1>8. Navigate(s, path) = t
  BY <1>2, <1>4, <1>6 DEF Navigate
<1>9. /\ DOMAIN t = ShellFields /\ t.entries = r /\ t.at = s.at + 1 /\ t.index = s.index + 1
      /\ t.path = path
  BY DEF ShellState, ShellFields
<1> HIDE DEF t
<1> QED
  BY <1>1, <1>7, <1>8, <1>9 DEF ShellState

\* A popstate shows what is there, or leaves the address as it was.
LEMMA PoppingMoves ==
  ASSUME NEW s, ShellState(s)
  PROVE  ShellState(Popped(s))
<1> DEFINE target == s.entries[s.at].index
<1>1. target \in Nat \cup {None} /\ s.entries[s.at].path \in Paths /\ s.index \in Nat
  <2>1. s.entries[s.at] \in HistoryEntry /\ s.index \in Nat
    BY DEF ShellState
  <2> QED
    BY <2>1 DEF HistoryEntry
<1> HIDE DEF target
<1>2. ShellState(Accept(s, target))
  <2> DEFINE index == IF target = None THEN s.index ELSE target
  <2>1. index \in Nat
    BY <1>1
  <2>2. Accept(s, target) = [s EXCEPT !.index = index, !.path = s.entries[s.at].path, !.approved = None]
    BY DEF Accept
  <2> HIDE DEF index
  <2>3. ShellState([s EXCEPT !.index = index, !.path = s.entries[s.at].path, !.approved = None])
    BY <1>1, <2>1 DEF ShellState, ShellFields
  <2> QED
    BY <2>2, <2>3, Zenon
<1>3. ASSUME NEW t, ShellState(t), NEW accepted
      PROVE  ShellState(Undo(t, target, accepted))
  <2> DEFINE u == [t EXCEPT !.pending = [target |-> target, restored |-> FALSE, accepted |-> accepted],
                            !.approved = None]
  <2>1. ShellState(u)
    BY <1>3 DEF ShellState, ShellFields
  <2> HIDE DEF u
  <2>2. Undo(t, target, accepted) = Go(u, t.index - target)
    BY DEF Undo, u
  <2> QED
    BY <2>1, <2>2, GoingIsQuiet DEF Quiet
<1>4. ShellState(Restore(s, target))
  <2> DEFINE r(b) == [s EXCEPT !.pending.restored = b]
  <2>1. ASSUME NEW b PROVE ShellState(r(b))
    BY DEF ShellState, ShellFields
  <2> HIDE DEF r
  <2>2. Restore(s, target) \in {Finish(r(TRUE)), Go(r(FALSE), s.index - target)}
    BY DEF Restore, r
  <2>3. ShellState(Finish(r(TRUE))) /\ ShellState(Go(r(FALSE), s.index - target))
    BY <2>1, FinishingIsQuiet, GoingIsQuiet DEF Quiet
  <2> QED
    BY <2>2, <2>3
<1>5. ShellState(Ask(s, target))
  <2> DEFINE d == [s EXCEPT !.exit.deciding = TRUE, !.exit.action = "leave"]
  <2>1. ShellState(d)
    BY DEF ShellState, ShellFields
  <2> HIDE DEF d
  <2>2. Ask(s, target) \in {Accept(s, target), Undo(s, target, "no"), Undo(d, target, "asked")}
    BY DEF Ask, d
  <2> QED
    BY <1>2, <1>3, <2>1, <2>2
<1>6. Popped(s) \in {Restore(s, target), Accept(s, target), Ask(s, target)}
  BY Zenon DEF Popped, target
<1> QED
  BY <1>2, <1>4, <1>5, <1>6

\* At home nothing but a grant and credentials that fall due.
LEMMA HomeStays ==
  ASSUME RoomFits(World), page.entry = "left", page.startup = "none", PageStep
  PROVE  page'.entry = "left" /\ page'.startup = "none"
<1>1. World \in WorldState /\ page \in PageState /\ refresh = Off /\ session = NewSession
  BY RoomsAreShown
<1>2. /\ refresh.timers = {} /\ refresh.renewals = {} /\ refresh.wall = "none"
      /\ \A i \in Turns : refresh.turn[i] = "none"
  BY <1>1 DEF Off, NewCoordinator
<1>3. session.status = "none"
  BY <1>1 DEF NewSession
<1>4. ~Asking
  <2>1. grant # None => Waits(World)
    BY RoomsAreShown
  <2> QED
    BY <2>1, WorldHas DEF Asking, Waits
<1>5. CASE GrantDue
  <2>1. page' = [World EXCEPT !.grant.fresh = FALSE].page
    BY <1>5 DEF GrantDue, Becomes
  <2>2. page' = page
    BY <2>1, <1>1, WorldHas DEF WorldState
  <2> QED
    BY <2>2
<1>6. CASE ReuseDue
  <2>1. page' = [World EXCEPT !.page.reuse = "due"].page
    BY <1>6 DEF ReuseDue, Becomes
  <2>2. page' = [page EXCEPT !.reuse = "due"]
    BY <2>1, <1>1, WorldHas DEF WorldState
  <2> QED
    BY <2>2, <1>1 DEF PageState
<1>7. ~(SessionLoaded \/ GrantIssued \/ GrantRefused \/ GrantFails)
  BY <1>4 DEF SessionLoaded, GrantIssued, GrantRefused, GrantFails
<1>8. ~(EntryAction \/ StaysOutside \/ EnterRoom \/ AskAgain \/ Unmount)
  BY DEF EntryAction, StaysOutside, EnterRoom, AskAgain, Unmount
<1>9. ~(ConfigurationLoaded \/ ConfigurationFails \/ Wake)
  BY DEF ConfigurationLoaded, ConfigurationFails, Wake
<1>10. ~(Lose \/ ChooseDevice \/ Reconnects \/ Joins \/ ConnectionFails \/ SessionEnds)
  BY <1>3 DEF Lose, ChooseDevice, Reconnects, Joins, ConnectionFails, SessionEnds
<1>11. ~(GrantTimer \/ LeaseTimer \/ WallPasses)
  BY <1>2 DEF GrantTimer, LeaseTimer, WallPasses
<1>12. ~ \E i \in Turns : TurnTimer(i) \/ TurnLoaded(i) \/ TurnFails(i)
  BY <1>2 DEF TurnTimer, TurnLoaded, TurnFails
<1>13. ~ \E r \in refresh.renewals : RenewalAnswered(r) \/ RenewalFails(r)
  BY <1>2
<1> QED
  BY <1>5, <1>6, <1>7, <1>8, <1>9, <1>10, <1>11, <1>12, <1>13 DEF PageStep

LEMMA PageStepFits ==
  ASSUME PageFits, PageStep, shell' = Rendered(shell)
  PROVE  PageFits'
<1>1. RoomFits(World) /\ ShellState(shell)
  BY DEF PageFits, ShellFits
<1>2. RoomFits(World')
  <2>1. CASE SessionLoaded
    BY <1>1, <2>1, SessionLoadedFits
  <2>2. CASE GrantIssued
    BY <1>1, <2>2, GrantIssuedFits
  <2>3. CASE GrantRefused
    BY <1>1, <2>3, GrantRefusedFits
  <2>4. CASE GrantFails
    BY <1>1, <2>4, GrantFailsFits
  <2>5. CASE GrantDue
    BY <1>1, <2>5, GrantDueFits
  <2>6. CASE EntryAction
    BY <1>1, <2>6, EntryActionFits
  <2>7. CASE StaysOutside
    BY <1>1, <2>7, StaysOutsideFits
  <2>8. CASE EnterRoom
    BY <1>1, <2>8, EnterRoomFits
  <2>9. CASE ConfigurationLoaded
    BY <1>1, <2>9, ConfigurationLoadedFits
  <2>10. CASE ConfigurationFails
    BY <1>1, <2>10, ConfigurationFailsFits
  <2>11. CASE ReuseDue
    BY <1>1, <2>11, ReuseDueFits
  <2>12. CASE Lose
    BY <1>1, <2>12, LoseFits
  <2>13. CASE ChooseDevice
    BY <1>1, <2>13, ChooseDeviceFits
  <2>14. CASE AskAgain
    BY <1>1, <2>14, AskAgainFits
  <2>15. CASE Unmount
    BY <1>1, <2>15, UnmountFits
  <2>16. CASE GrantTimer
    BY <1>1, <2>16, GrantTimerFits
  <2>17. CASE LeaseTimer
    BY <1>1, <2>17, LeaseTimerFits
  <2>18. CASE Wake
    BY <1>1, <2>18, WakeFits
  <2>19. CASE WallPasses
    BY <1>1, <2>19, WallPassesFits
  <2>20. CASE Reconnects
    BY <1>1, <2>20, ReconnectsFits
  <2>21. CASE Joins
    BY <1>1, <2>21, JoinsFits
  <2>22. CASE ConnectionFails
    BY <1>1, <2>22, ConnectionFailsFits
  <2>23. CASE SessionEnds
    BY <1>1, <2>23, SessionEndsFits
  <2>24. ASSUME NEW i \in Turns, TurnTimer(i) \/ TurnLoaded(i) \/ TurnFails(i)
         PROVE  RoomFits(World')
    BY <1>1, <2>24, TurnTimerFits, TurnLoadedFits, TurnFailsFits
  <2>25. ASSUME NEW r \in refresh.renewals, RenewalAnswered(r) \/ RenewalFails(r)
         PROVE  RoomFits(World')
    BY <1>1, <2>25, RenewalAnsweredFits, RenewalFailsFits
  <2> QED
    BY <2>1, <2>2, <2>3, <2>4, <2>5, <2>6, <2>7, <2>8, <2>9, <2>10, <2>11, <2>12, <2>13, <2>14,
       <2>15, <2>16, <2>17, <2>18, <2>19, <2>20, <2>21, <2>22, <2>23, <2>24, <2>25, Zenon
       DEF PageStep
<1>3. Quiet(shell', shell)
  <2>1. Quiet(Closed(shell), shell)
    BY <1>1, ClosingIsQuiet
  <2>2. Quiet([shell EXCEPT !.exit = NewExit], shell) /\ Quiet(shell, shell)
    BY <1>1 DEF Quiet, ShellState, ShellFields
  <2>3. Rendered(shell) \in {Closed(shell), shell, [shell EXCEPT !.exit = NewExit]}
    BY Zenon DEF Rendered
  <2> QED
    BY <2>1, <2>2, <2>3
<1>4. shell.path = "home" => page'.entry = "left" /\ page'.startup = "none"
  BY <1>1, HomeStays DEF PageFits, ShellFits
<1> QED
  BY <1>2, <1>3, <1>4 DEF PageFits, ShellFits, Quiet

\* The room or the page is left, entered anew, or another address is shown.
LEMMA ShowingMoves ==
  ASSUME PageFits, NEW s, ShellState(s), Shown(s)
  PROVE  PageFits'
<1>1. RoomFits(World) /\ ShellState(shell)
  BY DEF PageFits, ShellFits
<1>2. CASE s.path = "home"
  <2>1. Quiet(shell', s)
    <3>1. shell' = Closed(s)
      BY <1>2 DEF Shown
    <3> QED
      BY <3>1, ClosingIsQuiet
  <2>2. RoomFits(World') /\ page'.entry = "left" /\ page'.startup = "none"
    <3>1. CASE s.path = shell.path
      <4>1. Becomes(World)
        BY <3>1 DEF Shown
      <4>2. World' = World
        BY <1>1, <4>1, BecomingFits
      <4>3. page' = page
        BY <4>1, WorldHas DEF Becomes
      <4> QED
        BY <1>1, <1>2, <3>1, <4>2, <4>3 DEF PageFits, ShellFits
    <3>2. CASE s.path # shell.path
      <4>1. Becomes(Gone(World))
        BY <1>2, <3>2 DEF Shown
      <4>2. RoomFits(Gone(World)) /\ Gone(World).page.entry = "left" /\ Gone(World).page.startup = "none"
        BY <1>1, GoneFits
      <4>3. RoomFits(World')
        BY <4>1, <4>2, BecomingFits
      <4>4. page' = Gone(World).page
        BY <4>1 DEF Becomes
      <4> QED
        BY <4>2, <4>3, <4>4
    <3> QED
      BY <3>1, <3>2
  <2> QED
    BY <2>1, <2>2 DEF PageFits, ShellFits, Quiet
<1>3. CASE s.path # "home"
  <2>1. shell' = s
    BY <1>3 DEF Shown
  <2>2. RoomFits(World')
    <3>1. CASE s.path = shell.path
      <4>1. Becomes(World)
        BY <3>1 DEF Shown
      <4> QED
        BY <1>1, <4>1, BecomingFits
    <3>2. CASE s.path # shell.path
      <4>1. Becomes(Boundary(World))
        BY <1>3, <3>2 DEF Shown
      <4>2. page.startup = "none"
        BY <1>1, <1>3, <3>2 DEF PageFits, ShellFits, ShellState, Paths
      <4>3. /\ World \in WorldState /\ World.page.startup = "none"
            /\ World.session = NewSession /\ World.refresh = Off
        BY <1>1, <4>2, RoomsAreShown, WorldHas
      <4>4. RoomFits(Boundary(World))
        BY <4>3, BoundaryFits
      <4> QED
        BY <4>1, <4>4, BecomingFits
    <3> QED
      BY <3>1, <3>2
  <2> QED
    BY <1>3, <2>1, <2>2 DEF PageFits, ShellFits
<1> QED
  BY <1>2, <1>3

LEMMA MovingShows ==
  ASSUME NEW s, ShellState(s), NEW delta
  PROVE  ShellState(Moved(s, delta))
<1> DEFINE t == [s EXCEPT !.at = @ + delta]
<1>1. CASE s.at + delta \in DOMAIN s.entries
  <2>1. ShellState(t)
    BY <1>1 DEF ShellState, ShellFields
  <2> HIDE DEF t
  <2>2. ShellState(Popped(t))
    BY <2>1, PoppingMoves
  <2> QED
    BY <1>1, <2>2 DEF Moved, t
<1>2. CASE s.at + delta \notin DOMAIN s.entries
  BY <1>2 DEF Moved
<1> QED
  BY <1>1, <1>2

LEMMA MoveStepFits ==
  ASSUME PageFits, MoveStep
  PROVE  PageFits'
<1>1. RoomFits(World) /\ ShellState(shell)
  BY DEF PageFits, ShellFits
<1>2. ASSUME Becomes(Gone(World)), shell' = Home(shell)
      PROVE  PageFits'
  <2>1. RoomFits(Gone(World)) /\ Gone(World).page.entry = "left" /\ Gone(World).page.startup = "none"
    BY <1>1, GoneFits
  <2>2. RoomFits(World')
    BY <1>2, <2>1, BecomingFits
  <2>3. page' = Gone(World).page
    BY <1>2 DEF Becomes
  <2>4. ShellState(Closed(shell))
    BY <1>1, ClosingIsQuiet DEF Quiet
  <2>5. ShellState(Navigate(Closed(shell), "home"))
    BY <2>4, NavigatingIsMoving DEF Paths
  <2>6. ShellState(shell')
    BY <1>2, <2>4, <2>5 DEF Home
  <2> QED
    BY <2>1, <2>2, <2>3, <2>6 DEF PageFits, ShellFits
<1>3. CASE Leave
  BY <1>2, <1>3 DEF Leave
<1>4. CASE LeaveRoom
  BY <1>2, <1>4 DEF LeaveRoom
<1>5. CASE Reenter
  <2>1. RoomFits(Boundary(Unmounted(World)))
    BY <1>1, AnewFits
  <2>2. RoomFits(World')
    BY <1>5, <2>1, BecomingFits DEF Reenter
  <2>3. page.entry = "room" /\ shell' = Closed(shell)
    BY <1>5 DEF Reenter
  <2>4. Quiet(shell', shell)
    BY <1>1, <2>3, ClosingIsQuiet
  <2> QED
    BY <2>2, <2>3, <2>4 DEF PageFits, ShellFits, Quiet
<1>6. CASE ChooseRoom
  <2>1. page.startup = "none" /\ Becomes(Boundary(World)) /\ shell' = Navigate(shell, "room")
    BY <1>6 DEF ChooseRoom, PageFits, ShellFits
  <2>2. /\ World \in WorldState /\ World.page.startup = "none"
        /\ World.session = NewSession /\ World.refresh = Off
    BY <1>1, <2>1, RoomsAreShown, WorldHas
  <2>3. RoomFits(Boundary(World))
    BY <2>2, BoundaryFits
  <2>4. RoomFits(World')
    BY <2>1, <2>3, BecomingFits
  <2>5. ShellState(shell') /\ shell'.path = "room"
    BY <1>1, <2>1, NavigatingIsMoving DEF Paths
  <2> QED
    BY <2>4, <2>5 DEF PageFits, ShellFits
<1>7. CASE Traverse
  <2> DEFINE s == [shell EXCEPT !.going = Tail(@)]
  <2>1. Shown(Moved(s, Head(shell.going)))
    BY <1>7 DEF Traverse
  <2>2. ShellState(s)
    BY <1>1 DEF ShellState, ShellFields
  <2> HIDE DEF s
  <2>3. ShellState(Moved(s, Head(shell.going)))
    BY <2>2, MovingShows
  <2> QED
    BY <2>1, <2>3, ShowingMoves
<1>8. ASSUME NEW delta \in {-1, 1}, Press(delta)
      PROVE  PageFits'
  <2>1. Shown(Moved(shell, delta))
    BY <1>8 DEF Press
  <2>2. ShellState(Moved(shell, delta))
    BY <1>1, MovingShows
  <2> QED
    BY <2>1, <2>2, ShowingMoves
<1> QED
  BY <1>3, <1>4, <1>5, <1>6, <1>7, <1>8 DEF MoveStep

LEMMA ExitStepFits ==
  ASSUME PageFits, ExitStep, UNCHANGED refreshVars
  PROVE  PageFits'
<1>1. RoomFits(World) /\ ShellState(shell)
  BY DEF PageFits, ShellFits
<1>2. World' = World /\ page' = page
  BY DEF refreshVars, World
<1>3. Quiet(shell', shell)
  <2>1. CASE CancelExit
    <3> DEFINE s == [shell EXCEPT !.exit.action = None, !.exit.deciding = FALSE]
    <3>1. ShellState(s) /\ s.path = shell.path
      BY <1>1 DEF ShellState, ShellFields
    <3>2. shell' = Decided(s, "no")
      BY <2>1 DEF CancelExit
    <3> HIDE DEF s
    <3> QED
      BY <3>1, <3>2, DecidingIsQuiet DEF Quiet
  <2>2. CASE ConfirmTraversal
    <3> DEFINE s == [shell EXCEPT !.exit.action = None, !.exit.deciding = FALSE, !.exit.confirmed = TRUE]
    <3>1. ShellState(s) /\ s.path = shell.path
      BY <1>1 DEF ShellState, ShellFields
    <3>2. shell' = Decided(s, "yes")
      BY <2>2 DEF ConfirmTraversal
    <3> HIDE DEF s
    <3> QED
      BY <3>1, <3>2, DecidingIsQuiet DEF Quiet
  <2>3. CASE NeedChanges
    BY <1>1, <2>3 DEF NeedChanges, Quiet, ShellState, ShellFields
  <2>4. ASSUME NEW action, RequestExit(action)
        PROVE  Quiet(shell', shell)
    BY <1>1, <2>4 DEF RequestExit, Quiet, ShellState, ShellFields
  <2> QED
    BY <2>1, <2>2, <2>3, <2>4 DEF ExitStep
<1> QED
  BY <1>1, <1>2, <1>3 DEF PageFits, ShellFits, Quiet

-----------------------------------------------------------------------------
(* The page as a whole                                                     *)

LEMMA PagesBegin == Init => PageFits
<1> SUFFICES ASSUME Init PROVE PageFits
  OBVIOUS
<1>1. PICK s \in Scenarios :
        /\ shell = Loaded(s.history)
        /\ grant = IF s.managed THEN Asks(NewManager, "boundary") ELSE None
        /\ page = [entry |-> IF s.managed THEN "checking"
                              ELSE IF shell.path = "room" THEN "ready" ELSE "left",
                   startup |-> "none", reuse |-> "none"]
        /\ refresh = [NewCoordinator EXCEPT !.active = FALSE]
        /\ session = NewSession
  BY DEF Init
<1> DEFINE h == s.history
<1>2. /\ s.managed \in BOOLEAN /\ h.entries \in Seq(HistoryEntry) /\ h.at \in DOMAIN h.entries
      /\ s.managed => h.entries[h.at].path = "room"
  BY RoomPageAssumption DEF HistoryEntry, Paths
<1>3. /\ refresh = Off /\ session = NewSession /\ page.startup = "none"
      /\ page \in PageState
      /\ s.managed => page.entry = "checking"
      /\ ~s.managed => page.entry = IF shell.path = "room" THEN "ready" ELSE "left"
  BY <1>1, <1>2 DEF Off, PageState
<1>4. ShellState(shell) /\ shell.path = h.entries[h.at].path
  <2>1. h.entries[h.at] \in HistoryEntry
    BY <1>2
  <2>2. PICK e : e = [h.entries EXCEPT ![h.at].index = 0]
    OBVIOUS
  <2>3. e \in Seq(HistoryEntry) /\ h.at \in DOMAIN e
    BY <1>2, <2>1, <2>2 DEF HistoryEntry
  <2>4. shell = [entries |-> e, at |-> h.at, going |-> <<>>, index |-> 0,
                 path |-> h.entries[h.at].path, pending |-> None, approved |-> None, exit |-> None]
    BY <1>1, <2>2 DEF Loaded
  <2>5. h.entries[h.at].path \in Paths
    BY <2>1 DEF HistoryEntry
  <2> QED
    BY <2>3, <2>4, <2>5 DEF ShellState, ShellFields
<1>5. RoomFits(World)
  <2>1. CASE s.managed
    <3>1. /\ grant \in Manager /\ grant # None /\ grant.step = "session"
          /\ grant.waiting = <<"boundary">> /\ ~grant.closed /\ ~grant.fresh
      BY <1>1, <2>1, BoundariesAsk, NoneIsNone
    <3>2. World \in WorldState
      BY <1>3, <3>1, IdleCoordinators DEF World, WorldState
    <3>3. Waits(World)
      <4>1. \A i \in DOMAIN grant.waiting : grant.waiting[i] \notin {"connect", "startup"}
        BY <3>1
      <4>2. grant.waiting # <<>>
        BY <3>1
      <4> QED
        BY <1>3, <2>1, <3>1, <4>1, <4>2, WorldHas DEF Waits
    <3> QED
      BY <1>3, <3>1, <3>2, <3>3, WorldHas, NoRoomFits
  <2>2. CASE ~s.managed
    <3>1. grant = None
      BY <1>1, <2>2
    <3>2. World \in WorldState
      BY <1>3, <3>1, IdleCoordinators DEF World, WorldState
    <3> QED
      BY <1>3, <2>2, <3>1, <3>2, WorldHas, NoRoomFits
  <2> QED
    BY <1>2, <2>1, <2>2
<1>6. shell.path = "home" => page.entry = "left" /\ page.startup = "none"
  BY <1>2, <1>3, <1>4
<1> QED
  BY <1>4, <1>5, <1>6 DEF PageFits, ShellFits

LEMMA PagesKeep == PageFits /\ [Next]_vars => PageFits'
<1> SUFFICES ASSUME PageFits, [Next]_vars PROVE PageFits'
  OBVIOUS
<1>1. CASE PageStep /\ shell' = Rendered(shell)
  BY <1>1, PageStepFits
<1>2. CASE MoveStep
  BY <1>2, MoveStepFits
<1>3. CASE ExitStep /\ UNCHANGED refreshVars
  BY <1>3, ExitStepFits
<1>4. CASE UNCHANGED <<refreshVars, shell>>
  <2>1. World' = World /\ page' = page /\ shell' = shell
    BY <1>4 DEF refreshVars, World
  <2> QED
    BY <2>1 DEF PageFits, ShellFits
<1> QED
  BY <1>1, <1>2, <1>3, <1>4 DEF Next, vars

\* The room, its refreshes and the address fit one another.
THEOREM PagesFit == Spec => []PageFits
BY PagesBegin, PagesKeep, PTL DEF Spec

\* A connection is made with another grant than the last one in the room was:
\* whoever has "connect" done to the end was told of a newer grant, or has asked
\* for one, and no answer that comes late can undo that.
THEOREM ConnectsWithNewGrant == Spec => []GrantIsNew
<1>1. PageFits => GrantIsNew
  BY WorldHas DEF PageFits, RoomFits, Loose, IsNew, GrantIsNew
<1> QED
  BY <1>1, PagesFit, PTL

\* What is over refreshes nothing, and a page that shows no room asks nobody.
THEOREM EndsForGood == Spec => []EndsAreClean
<1>1. PageFits => EndsAreClean
  <2> SUFFICES ASSUME PageFits PROVE EndsAreClean
    OBVIOUS
  <2>1. Ends(World) /\ (grant # None => Waits(World))
    BY WorldHas DEF PageFits, RoomFits, Loose
  <2>2. (session.status = "over" \/ page.startup \in {"none", "failed"}) => ~refresh.active
    BY <2>1, WorldHas DEF Ends
  <2>3. ~refresh.active => refresh.timers = {}
    BY <2>1, WorldHas DEF Ends
  <2>4. page.entry \in {"refused", "unavailable", "left"} /\ grant # None => grant.closed /\ ~Asking
    BY <2>1, WorldHas DEF Waits, Asking
  <2> QED
    BY <2>2, <2>3, <2>4 DEF EndsAreClean
<1> QED
  BY <1>1, PagesFit, PTL

\* While a room is on, somebody will refresh the grant and the credentials, and the
\* lease of the connection was, is being or will be asked to be extended to the
\* newest grant, unless that came while the connection was made.
THEOREM RoomStaysFresh == Spec => []StaysFresh
<1>1. PageFits => StaysFresh
  <2> SUFFICES ASSUME PageFits PROVE StaysFresh
    OBVIOUS
  <2>1. TurnIsOn(World) /\ (grant # None => GrantIsOn(World) /\ Told(World, grant.issued))
    BY WorldHas DEF PageFits, RoomFits, Loose
  <2>2. ASSUME page.startup = "done", refresh.active
        PROVE  /\ grant # None => "grant" \in refresh.timers \/ grant.waiting # <<>>
               /\ "turn" \in refresh.timers \/ \E i \in Turns : refresh.turn[i] # "none"
    BY <2>1, <2>2, WorldHas DEF TurnIsOn, GrantIsOn
  <2>3. ASSUME grant # None, session.status = "active", refresh.active
        PROVE  \/ session.asked = grant.issued \/ session.missed
               \/ \E r \in refresh.renewals : r.peer = session.peer /\ r.grant = grant.issued
               \/ "lease" \in refresh.timers
    BY <2>1, <2>3, WorldHas DEF Told
  <2> QED
    BY <2>2, <2>3 DEF StaysFresh
<1> QED
  BY <1>1, PagesFit, PTL

-----------------------------------------------------------------------------
(* The one who looks at the room                                           *)

WakeState ==
  [enabled : BOOLEAN, status : {"off", "waiting", "requesting", "active", "released", "error"},
   lock : BOOLEAN, own : {"none", "asking", "giving"}, retry : BOOLEAN, orphans : Nat, held : Nat]
SamplingState ==
  [conn : [Peers -> {"none", "new", "connected", "disconnected"}],
   shown : [Peers -> {"none", "connecting", "negotiating", "connected", "disconnected", "failed"}],
   activity : SUBSET (Peers \cup {"self"}), measure : Measure \cup {None}, timer : BOOLEAN]

\* A request belongs to a call that is on; one that will be given back, or that was
\* made before the window was hidden, is made again when the window is seen.
LockFits(w, seen, on) ==
  /\ w \in WakeState
  /\ w.held = IF w.lock THEN 1 ELSE 0
  /\ w.lock <=> w.status = "active"
  /\ w.status = "off" <=> ~w.enabled
  /\ w.lock => seen /\ on
  /\ w.own # "none" => ~w.lock /\ w.enabled /\ on
  /\ w.own = "giving" /\ seen => w.retry
  /\ w.status = "waiting" /\ seen /\ on => w.own # "none" /\ w.retry

\* What is measured while nobody looks does not count.
Measuring(s, seen, active) ==
  /\ s \in SamplingState
  /\ \A p \in Peers : s.shown[p] = "connected" <=> s.conn[p] = "connected"
  /\ \A p \in s.activity \ {"self"} : s.conn[p] = "connected"
  /\ ~active \/ ~seen => s.activity = {} /\ ~s.timer
  /\ active /\ seen => (s.timer <=> ~(s.measure # None /\ s.measure.mine))
  /\ s.measure # None => (s.measure.fresh \/ s.measure.mine => active /\ seen)
SamplingFits(s, seen, active) ==
  Measuring(s, seen, active) /\ (s.measure # None => s.measure.waits # {})

PresenceFits ==
  /\ visible \in BOOLEAN
  /\ LockFits(wake, visible, CallOn(page, session))
  /\ SamplingFits(sampling, visible, session.status = "active")

\* A lock that is there is given back.
LEMMA ReleasingFits ==
  ASSUME NEW w \in WakeState, w.held = IF w.lock THEN 1 ELSE 0
  PROVE  LET r == Release(w)
         IN /\ r \in WakeState /\ ~r.lock /\ r.held = 0 /\ r.enabled = w.enabled
            /\ r.status = w.status /\ r.own = w.own /\ r.retry = w.retry /\ r.orphans = w.orphans
<1>1. CASE ~w.lock
  BY <1>1 DEF Release
<1>2. CASE w.lock
  <2>1. Release(w) = [w EXCEPT !.lock = FALSE, !.held = 0]
    BY <1>2 DEF Release, WakeState
  <2>2. PICK r : r = [w EXCEPT !.lock = FALSE, !.held = 0]
    OBVIOUS
  <2>3. /\ r \in WakeState /\ ~r.lock /\ r.held = 0 /\ r.enabled = w.enabled
        /\ r.status = w.status /\ r.own = w.own /\ r.retry = w.retry /\ r.orphans = w.orphans
    BY <2>2 DEF WakeState
  <2> QED
    BY <2>1, <2>2, <2>3
<1> QED
  BY <1>1, <1>2

LEMMA DisposingFits ==
  ASSUME NEW w \in WakeState, w.held = IF w.lock THEN 1 ELSE 0
  PROVE  LET d == Dispose(w)
         IN /\ d \in WakeState /\ ~d.lock /\ d.held = 0 /\ d.enabled = w.enabled
            /\ d.own = "none" /\ ~d.retry
<1>1. PICK r : r = Release(w)
  OBVIOUS
<1>2. /\ r \in WakeState /\ ~r.lock /\ r.held = 0 /\ r.enabled = w.enabled
      /\ r.orphans = w.orphans
  BY <1>1, ReleasingFits
<1>3. PICK n \in Nat : n = IF w.own = "asking" THEN w.orphans + 1 ELSE w.orphans
  BY DEF WakeState
<1>4. PICK d : d = [r EXCEPT !.own = "none", !.retry = FALSE, !.orphans = n]
  OBVIOUS
<1>5. Dispose(w) = d
  BY <1>1, <1>2, <1>3, <1>4 DEF Dispose
<1>6. /\ d \in WakeState /\ ~d.lock /\ d.held = 0 /\ d.enabled = w.enabled
      /\ d.own = "none" /\ ~d.retry
  BY <1>2, <1>4 DEF WakeState
<1> QED
  BY <1>5, <1>6

\* A lock is asked for, or the window is waited for.
LEMMA RequestingFits ==
  ASSUME NEW w \in WakeState, NEW seen \in BOOLEAN, NEW on \in BOOLEAN,
         w.enabled, on, w.own = "none", ~w.lock, w.held = 0
  PROVE  LockFits(RequestLock(w, seen), seen, on)
<1>1. CASE ~seen
  <2>1. PICK u : u = [w EXCEPT !.status = "waiting"]
    OBVIOUS
  <2>2. RequestLock(w, seen) = u
    BY <1>1, <2>1 DEF RequestLock
  <2>3. /\ u \in WakeState /\ u.status = "waiting" /\ u.enabled = w.enabled /\ u.own = "none"
        /\ ~u.lock /\ u.held = 0
    BY <2>1 DEF WakeState
  <2>4. LockFits(u, seen, on)
    BY <1>1, <2>3 DEF LockFits
  <2> QED
    BY <2>2, <2>4
<1>2. CASE seen
  <2>1. PICK u : u = [w EXCEPT !.own = "asking", !.status = "requesting"]
    OBVIOUS
  <2>2. RequestLock(w, seen) = u
    BY <1>2, <2>1 DEF RequestLock
  <2>3. /\ u \in WakeState /\ u.status = "requesting" /\ u.enabled = w.enabled /\ u.own = "asking"
        /\ ~u.lock /\ u.held = 0
    BY <2>1 DEF WakeState
  <2>4. LockFits(u, seen, on)
    BY <2>3 DEF LockFits
  <2> QED
    BY <2>2, <2>4
<1> QED
  BY <1>1, <1>2

\* The effect begins anew.
LEMMA LockEffectFits ==
  ASSUME NEW w \in WakeState, w.held = IF w.lock THEN 1 ELSE 0, visible \in BOOLEAN,
         NEW on \in BOOLEAN
  PROVE  LockFits(LockEffect(w, on), visible, on)
<1>1. PICK d : d = Dispose(w)
  OBVIOUS
<1>2. d \in WakeState /\ ~d.lock /\ d.held = 0 /\ d.own = "none" /\ ~d.retry
  BY <1>1, DisposingFits
<1>3. LockEffect(w, on) = Effect(d, on)
  BY <1>1 DEF LockEffect
<1>4. ASSUME NEW st \in {"off", "waiting"}, st = "off" => ~d.enabled, st = "waiting" => d.enabled /\ ~on
      PROVE  LockFits([d EXCEPT !.status = st], visible, on)
  <2>1. PICK u : u = [d EXCEPT !.status = st]
    OBVIOUS
  <2>2. /\ u \in WakeState /\ u.status = st /\ u.enabled = d.enabled /\ u.own = "none"
        /\ ~u.lock /\ u.held = 0
    BY <1>2, <2>1 DEF WakeState
  <2>3. LockFits(u, visible, on)
    BY <1>4, <2>2 DEF LockFits
  <2> QED
    BY <2>1, <2>3
<1>5. CASE ~d.enabled
  <2>1. LockEffect(w, on) = [d EXCEPT !.status = "off"]
    BY <1>3, <1>5 DEF Effect
  <2> QED
    BY <1>4, <1>5, <2>1
<1>6. CASE d.enabled /\ ~on
  <2>1. LockEffect(w, on) = [d EXCEPT !.status = "waiting"]
    BY <1>3, <1>6 DEF Effect
  <2> QED
    BY <1>4, <1>6, <2>1
<1>7. CASE d.enabled /\ on
  <2>1. LockEffect(w, on) = RequestLock(d, visible)
    BY <1>3, <1>7 DEF Effect
  <2>2. LockFits(RequestLock(d, visible), visible, on)
    BY <1>2, <1>7, RequestingFits
  <2> QED
    BY <2>1, <2>2
<1> QED
  BY <1>5, <1>6, <1>7

\* A request is over, and made again if it came while the window was hidden.
LEMMA FinallyFits ==
  ASSUME NEW w \in WakeState, w.held = IF w.lock THEN 1 ELSE 0, visible \in BOOLEAN,
         NEW on \in BOOLEAN, on, w.enabled, w.status # "off",
         w.lock <=> w.status = "active", w.lock => visible,
         w.status = "waiting" /\ visible => w.retry
  PROVE  LockFits(Finally(w), visible, on)
<1>1. PICK done : done = [w EXCEPT !.own = "none", !.retry = FALSE]
  OBVIOUS
<1>2. /\ done \in WakeState /\ done.own = "none" /\ ~done.retry /\ done.lock = w.lock
      /\ done.held = w.held /\ done.status = w.status /\ done.enabled = w.enabled
  BY <1>1 DEF WakeState
<1>3. Finally(w) = IF w.retry THEN RequestLock(done, visible) ELSE done
  BY <1>1 DEF Finally
<1>4. CASE ~w.retry \/ w.lock
  <2>1. Finally(w) = done
    BY <1>2, <1>3, <1>4 DEF RequestLock
  <2>2. LockFits(done, visible, on)
    BY <1>2, <1>4 DEF LockFits
  <2> QED
    BY <2>1, <2>2
<1>5. CASE w.retry /\ ~w.lock
  <2>1. LockFits(RequestLock(done, visible), visible, on)
    BY <1>2, <1>5, RequestingFits
  <2> QED
    BY <1>3, <1>5, <2>1
<1> QED
  BY <1>4, <1>5

\* Answers, and the system that releases the lock.
LEMMA LockAnswersFit ==
  ASSUME visible \in BOOLEAN, NEW on \in BOOLEAN, LockFits(wake, visible, on),
         LockGranted \/ LockGone \/ LockRefused \/ LockGivenBack \/ OrphanAnswered \/ SystemReleases
  PROVE  LockFits(wake', visible, on)
<1>1. wake \in WakeState /\ wake.held = IF wake.lock THEN 1 ELSE 0
  BY DEF LockFits
<1>2. ASSUME wake.own # "none"
      PROVE  wake.enabled /\ on /\ ~wake.lock /\ wake.held = 0 /\ wake.status # "off"
  BY <1>1, <1>2 DEF LockFits
<1>3. ASSUME wake.own # "none", NEW st \in {"waiting", "released", "error"},
             wake' = Finally([wake EXCEPT !.status = st]), st = "waiting" /\ visible => wake.retry
      PROVE  LockFits(wake', visible, on)
  <2>1. PICK w : w = [wake EXCEPT !.status = st]
    OBVIOUS
  <2>2. /\ w \in WakeState /\ w.status = st /\ w.lock = wake.lock /\ w.held = wake.held
        /\ w.enabled = wake.enabled /\ w.retry = wake.retry
    BY <1>1, <2>1 DEF WakeState
  <2>3. LockFits(Finally(w), visible, on)
    BY <1>2, <1>3, <2>2, FinallyFits
  <2> QED
    BY <1>3, <2>1, <2>3
<1>4. CASE LockGranted
  <2>1. wake.own = "asking"
    BY <1>4 DEF LockGranted
  <2>2. CASE ~visible
    <3>1. PICK u : u = [wake EXCEPT !.own = "giving"]
      OBVIOUS
    <3>2. wake' = u
      BY <1>4, <2>2, <3>1 DEF LockGranted
    <3>3. /\ u \in WakeState /\ u.own = "giving" /\ u.status = wake.status /\ u.lock = wake.lock
          /\ u.held = wake.held /\ u.enabled = wake.enabled
      BY <1>1, <3>1 DEF WakeState
    <3>4. LockFits(u, visible, on)
      BY <1>2, <2>1, <2>2, <3>3 DEF LockFits
    <3> QED
      BY <3>2, <3>4
  <2>3. CASE visible
    <3>0. PICK n : n = wake.held + 1
      OBVIOUS
    <3>1. PICK w : w = [wake EXCEPT !.lock = TRUE, !.held = n, !.status = "active"]
      OBVIOUS
    <3>2. wake' = Finally([wake EXCEPT !.lock = TRUE, !.held = n, !.status = "active"])
      BY <1>4, <2>3, <3>0 DEF LockGranted
    <3>5. n = 1 /\ wake' = Finally(w)
      BY <1>2, <2>1, <3>0, <3>1, <3>2
    <3>3. w \in WakeState /\ w.lock /\ w.held = 1 /\ w.status = "active" /\ w.enabled = wake.enabled
      BY <1>1, <3>1, <3>5 DEF WakeState
    <3>4. LockFits(Finally(w), visible, on)
      BY <1>2, <2>1, <2>3, <3>3, FinallyFits
    <3> QED
      BY <3>5, <3>4
  <2> QED
    BY <2>2, <2>3
<1>5. CASE LockGone
  BY <1>3, <1>5 DEF LockGone
<1>6. CASE LockRefused
  <2>1. PICK st \in {"waiting", "error"} : st = IF visible THEN "error" ELSE "waiting"
    OBVIOUS
  <2>2. wake' = Finally([wake EXCEPT !.status = st]) /\ wake.own # "none"
    BY <1>6, <2>1 DEF LockRefused
  <2> QED
    BY <1>3, <2>1, <2>2
<1>7. CASE LockGivenBack
  <2>1. wake.own = "giving" /\ wake' = Finally([wake EXCEPT !.status = "waiting"])
    BY <1>7 DEF LockGivenBack
  <2>2. visible => wake.retry
    BY <2>1 DEF LockFits
  <2> QED
    BY <1>3, <2>1, <2>2
<1>8. CASE OrphanAnswered
  <2>1. PICK u : u = [wake EXCEPT !.orphans = wake.orphans - 1]
    OBVIOUS
  <2>2. wake' = u /\ wake.orphans > 0
    BY <1>8, <2>1 DEF OrphanAnswered
  <2>3. /\ u \in WakeState /\ u.status = wake.status /\ u.lock = wake.lock /\ u.own = wake.own
        /\ u.held = wake.held /\ u.enabled = wake.enabled /\ u.retry = wake.retry
    BY <1>1, <2>1, <2>2 DEF WakeState
  <2>4. LockFits(u, visible, on)
    BY <2>3 DEF LockFits
  <2> QED
    BY <2>2, <2>4
<1>9. CASE SystemReleases
  <2>1. PICK r : r = Release(wake)
    OBVIOUS
  <2>2. /\ r \in WakeState /\ ~r.lock /\ r.held = 0 /\ r.enabled = wake.enabled /\ r.own = wake.own
    BY <1>1, <2>1, ReleasingFits
  <2>3. PICK u : u = [r EXCEPT !.status = "released"]
    OBVIOUS
  <2>4. wake' = u /\ wake.lock
    BY <1>9, <2>1, <2>3 DEF SystemReleases
  <2>5. /\ u \in WakeState /\ u.status = "released" /\ ~u.lock /\ u.own = wake.own
        /\ u.held = 0 /\ u.enabled = wake.enabled
    BY <2>2, <2>3 DEF WakeState
  <2>6. wake.own = "none" /\ wake.enabled
    BY <2>4 DEF LockFits
  <2>7. LockFits(u, visible, on)
    BY <2>5, <2>6 DEF LockFits
  <2> QED
    BY <2>4, <2>7
<1> QED
  BY <1>4, <1>5, <1>6, <1>7, <1>8, <1>9

\* The window is hidden, or seen again.
LEMMA HidingFits ==
  ASSUME NEW on \in BOOLEAN, LockFits(wake, visible, on), Hide
  PROVE  LockFits(wake', visible', on) /\ visible' = FALSE
<1>1. wake \in WakeState /\ wake.held = IF wake.lock THEN 1 ELSE 0
  BY DEF LockFits
<1>2. visible' = FALSE /\ visible
  BY DEF Hide
<1>3. CASE wake.status \in {"off", "waiting"}
  <2>1. wake' = wake
    BY <1>3 DEF Hide
  <2>2. LockFits(wake, FALSE, on)
    BY <1>3 DEF LockFits
  <2> QED
    BY <1>2, <2>1, <2>2
<1>4. CASE wake.status \notin {"off", "waiting"}
  <2>1. PICK r : r = Release(wake)
    OBVIOUS
  <2>2. /\ r \in WakeState /\ ~r.lock /\ r.held = 0 /\ r.enabled = wake.enabled /\ r.own = wake.own
    BY <1>1, <2>1, ReleasingFits
  <2>3. PICK u : u = [r EXCEPT !.status = "waiting"]
    OBVIOUS
  <2>4. wake' = u
    BY <1>4, <2>1, <2>3 DEF Hide
  <2>5. /\ u \in WakeState /\ u.status = "waiting" /\ ~u.lock /\ u.own = wake.own
        /\ u.held = 0 /\ u.enabled = wake.enabled
    BY <2>2, <2>3 DEF WakeState
  <2>6. wake.enabled /\ (wake.own # "none" => on)
    BY <1>1, <1>4 DEF LockFits, WakeState
  <2>7. LockFits(u, FALSE, on)
    BY <2>5, <2>6 DEF LockFits
  <2> QED
    BY <1>2, <2>4, <2>7
<1> QED
  BY <1>3, <1>4

LEMMA ReturningFits ==
  ASSUME NEW on \in BOOLEAN, LockFits(wake, FALSE, on),
         wake' = IF wake.enabled /\ on THEN Returned(wake) ELSE wake
  PROVE  LockFits(wake', TRUE, on)
<1>1. wake \in WakeState /\ wake.held = IF wake.lock THEN 1 ELSE 0
  BY DEF LockFits
<1>2. ~wake.lock /\ wake.held = 0
  BY <1>1 DEF LockFits
<1>3. CASE ~(wake.enabled /\ on)
  <2>1. LockFits(wake, TRUE, on)
    BY <1>1, <1>3 DEF LockFits, WakeState
  <2> QED
    BY <1>3, <2>1
<1>4. CASE wake.enabled /\ on
  <2>1. PICK b \in BOOLEAN : b = (wake.own # "none") /\ (b <=> wake.own # "none")
    OBVIOUS
  <2>2. PICK w : w = [wake EXCEPT !.retry = b]
    OBVIOUS
  <2>3. /\ w \in WakeState /\ w.status = wake.status /\ w.lock = wake.lock /\ w.own = wake.own
        /\ w.held = wake.held /\ w.enabled = wake.enabled /\ w.retry = b
    BY <1>1, <2>2 DEF WakeState
  <2>4. wake' = RequestLock(w, TRUE)
    BY <1>4, <2>1, <2>2 DEF Returned
  <2>5. CASE wake.own = "none"
    <3>1. LockFits(RequestLock(w, TRUE), TRUE, on)
      BY <1>2, <1>4, <2>3, <2>5, RequestingFits
    <3> QED
      BY <2>4, <3>1
  <2>6. CASE wake.own # "none"
    <3>1. wake' = w
      BY <2>3, <2>4, <2>6 DEF RequestLock
    <3>2. LockFits(w, TRUE, on)
      BY <1>2, <1>4, <2>1, <2>3, <2>6 DEF LockFits
    <3> QED
      BY <3>1, <3>2
  <2> QED
    BY <2>5, <2>6
<1> QED
  BY <1>3, <1>4

\* A measurement is over when all have answered.
LEMMA MeasuredFits ==
  ASSUME NEW s, NEW seen \in BOOLEAN, NEW active \in BOOLEAN, Measuring(s, seen, active),
         s.measure # None
  PROVE  SamplingFits(Measured(s), seen, active)
<1>1. s \in SamplingState /\ s.measure \in Measure
  BY DEF Measuring, SamplingState
<1>2. CASE s.measure.waits # {}
  BY <1>2 DEF Measured, SamplingFits
<1>3. CASE s.measure.waits = {}
  <2>1. PICK t \in BOOLEAN : t = (s.measure.mine \/ s.timer) /\ (t <=> s.measure.mine \/ s.timer)
    OBVIOUS
  <2>2. PICK a : a = IF s.measure.fresh THEN s.activity \cup {"self"} ELSE s.activity
    OBVIOUS
  <2>3. a \in SUBSET (Peers \cup {"self"})
    BY <1>1, <2>2 DEF SamplingState
  <2>4. PICK u : u = [s EXCEPT !.measure = None, !.timer = t, !.activity = a]
    OBVIOUS
  <2>5. Measured(s) = u
    BY <1>1, <1>3, <2>1, <2>2, <2>4 DEF Measured, SamplingState
  <2>6. /\ u \in SamplingState /\ u.measure = None /\ u.timer = t /\ u.activity = a
        /\ u.conn = s.conn /\ u.shown = s.shown
    BY <1>1, <2>3, <2>4 DEF SamplingState
  <2>7. /\ s.timer \in BOOLEAN /\ s.measure.mine \in BOOLEAN /\ s.measure.fresh \in BOOLEAN
    BY <1>1 DEF SamplingState, Measure
  <2>8. \A p \in u.activity \ {"self"} : u.conn[p] = "connected"
    BY <2>2, <2>6 DEF Measuring
  <2>9. ~active \/ ~seen => u.activity = {} /\ ~u.timer
    BY <2>1, <2>2, <2>6, <2>7 DEF Measuring
  <2>10. active /\ seen => u.timer
    BY <2>1, <2>6, <2>7 DEF Measuring
  <2>11. SamplingFits(u, seen, active)
    BY <2>6, <2>8, <2>9, <2>10 DEF SamplingFits, Measuring
  <2> QED
    BY <2>5, <2>11
<1> QED
  BY <1>2, <1>3

\* The loop measures, unless an earlier measurement is under way.
LEMMA SampleFits ==
  ASSUME NEW s \in SamplingState,
         \A p \in Peers : s.shown[p] = "connected" <=> s.conn[p] = "connected",
         \A p \in s.activity \ {"self"} : s.conn[p] = "connected",
         s.measure # None => s.measure.waits # {} /\ ~s.measure.mine,
         NEW measured \in SUBSET {p \in Peers : s.conn[p] = "connected"}
  PROVE  SamplingFits(Sample(s, measured), TRUE, TRUE)
<1>1. CASE s.measure # None
  <2>1. PICK u : u = [s EXCEPT !.timer = TRUE]
    OBVIOUS
  <2>2. /\ u \in SamplingState /\ u.measure = s.measure /\ u.timer /\ u.activity = s.activity
        /\ u.conn = s.conn /\ u.shown = s.shown
    BY <2>1 DEF SamplingState
  <2>3. SamplingFits(u, TRUE, TRUE)
    BY <1>1, <2>2 DEF SamplingFits, Measuring
  <2> QED
    BY <1>1, <2>1, <2>3 DEF Sample
<1>2. CASE s.measure = None
  <2>1. PICK m : m = [fresh |-> TRUE, mine |-> TRUE, waits |-> measured, old |-> {}]
    OBVIOUS
  <2>2. m \in Measure /\ m # None /\ m.mine /\ m.fresh
    <3>1. m \in Measure
      BY <2>1 DEF Measure
    <3> QED
      BY <2>1, <3>1, NoneIsNone
  <2>3. PICK a : a = s.activity \ ({p \in Peers : s.conn[p] = "connected"} \ measured)
    OBVIOUS
  <2>4. a \in SUBSET (Peers \cup {"self"}) /\ a \subseteq s.activity
    BY <2>3 DEF SamplingState
  <2>5. PICK u : u = [s EXCEPT !.timer = FALSE, !.activity = a, !.measure = m]
    OBVIOUS
  <2>6. Sample(s, measured) = Measured(u)
    BY <1>2, <2>1, <2>3, <2>5 DEF Sample, SamplingState
  <2>7. /\ u \in SamplingState /\ u.measure = m /\ ~u.timer /\ u.activity = a
        /\ u.conn = s.conn /\ u.shown = s.shown
    BY <2>2, <2>4, <2>5 DEF SamplingState
  <2>8. Measuring(u, TRUE, TRUE) /\ u.measure # None
    BY <2>2, <2>4, <2>7 DEF Measuring
  <2> QED
    BY <2>6, <2>8, MeasuredFits
<1> QED
  BY <1>1, <1>2

\* What was measured is forgotten, and what is under way does not count.
LEMMA ResettingFits ==
  ASSUME NEW s, NEW seen, NEW active, SamplingFits(s, seen, active)
  PROVE  LET r == Reset(s)
         IN /\ r \in SamplingState /\ r.conn = s.conn /\ r.shown = s.shown
            /\ r.activity = {} /\ ~r.timer
            /\ r.measure # None => r.measure.waits # {} /\ ~r.measure.fresh /\ ~r.measure.mine
<1>1. s \in SamplingState
  BY DEF SamplingFits, Measuring
<1>2. PICK m : m = IF s.measure = None THEN None ELSE [s.measure EXCEPT !.fresh = FALSE, !.mine = FALSE]
  OBVIOUS
<1>3. /\ m \in Measure \cup {None}
      /\ m # None => m.waits # {} /\ ~m.fresh /\ ~m.mine
  <2>1. CASE s.measure = None
    BY <1>2, <2>1
  <2>2. CASE s.measure # None
    <3>1. s.measure \in Measure /\ s.measure.waits # {}
      BY <1>1, <2>2 DEF SamplingState, SamplingFits
    <3>2. m \in Measure /\ m.waits = s.measure.waits /\ ~m.fresh /\ ~m.mine
      BY <1>2, <2>2, <3>1 DEF Measure
    <3> QED
      BY <3>1, <3>2
  <2> QED
    BY <2>1, <2>2
<1>4. PICK r : r = [s EXCEPT !.activity = {}, !.timer = FALSE, !.measure = m]
  OBVIOUS
<1>5. Reset(s) = r
  BY <1>1, <1>2, <1>4 DEF Reset, SamplingState
<1>6. /\ r \in SamplingState /\ r.conn = s.conn /\ r.shown = s.shown
      /\ r.activity = {} /\ ~r.timer /\ r.measure = m
  BY <1>1, <1>3, <1>4 DEF SamplingState
<1> QED
  BY <1>3, <1>5, <1>6

\* A peer changes, and with it how it is shown: u is s with p connected as c and shown as h.
OnePeer(s, p, c, h, u) ==
  /\ u \in SamplingState /\ (h = "connected" <=> c = "connected")
  /\ u.conn = [s.conn EXCEPT ![p] = c] /\ u.shown = [s.shown EXCEPT ![p] = h]
  /\ u.activity \subseteq s.activity /\ (c # "connected" => p \notin u.activity)
  /\ u.timer = s.timer /\ (u.measure = None <=> s.measure = None)
  /\ s.measure # None => /\ u.measure.waits = s.measure.waits /\ u.measure.fresh = s.measure.fresh
                         /\ u.measure.mine = s.measure.mine

LEMMA OnePeerFits ==
  ASSUME NEW s, NEW seen, NEW active, SamplingFits(s, seen, active),
         NEW p \in Peers, NEW c, NEW h, NEW u, OnePeer(s, p, c, h, u)
  PROVE  SamplingFits(u, seen, active)
<1>1. s \in SamplingState
  BY DEF SamplingFits, Measuring
<1>2. \A q \in Peers : u.conn[q] = (IF q = p THEN c ELSE s.conn[q]) /\ u.shown[q] = (IF q = p THEN h ELSE s.shown[q])
  BY <1>1 DEF OnePeer, SamplingState
<1>3. \A q \in Peers : u.shown[q] = "connected" <=> u.conn[q] = "connected"
  BY <1>2 DEF OnePeer, SamplingFits, Measuring
<1>4. \A q \in u.activity \ {"self"} : u.conn[q] = "connected"
  <2> TAKE q \in u.activity \ {"self"}
  <2>1. q \in Peers /\ s.conn[q] = "connected"
    BY <1>1 DEF OnePeer, SamplingFits, Measuring, SamplingState
  <2> QED
    BY <1>2, <2>1 DEF OnePeer
<1> QED
  BY <1>3, <1>4 DEF OnePeer, SamplingFits, Measuring

\* SetStatus, as fields.
LEMMA StatusIsSet ==
  ASSUME NEW s \in SamplingState, NEW p \in Peers,
         NEW status \in {"negotiating", "connected", "disconnected", "failed"},
         ~(status = "negotiating" /\ s.conn[p] = "connected")
  PROVE  LET u == SetStatus(s, p, status)
         IN /\ u \in SamplingState /\ u.conn = s.conn /\ u.shown = [s.shown EXCEPT ![p] = status]
            /\ u.activity \subseteq s.activity /\ (status # "connected" => p \notin u.activity)
            /\ u.timer = s.timer /\ u.measure = s.measure
<1>1. PICK a : a = IF status # "connected" THEN s.activity \ {p} ELSE s.activity
  OBVIOUS
<1>2. /\ a \in SUBSET (Peers \cup {"self"}) /\ a \subseteq s.activity
      /\ status # "connected" => p \notin a
  BY <1>1 DEF SamplingState
<1>3. PICK f : f = [s EXCEPT !.activity = a]
  OBVIOUS
<1>4. /\ f \in SamplingState /\ f.conn = s.conn /\ f.shown = s.shown /\ f.activity = a
      /\ f.timer = s.timer /\ f.measure = s.measure
  BY <1>2, <1>3 DEF SamplingState
<1>5. (IF status # "connected" THEN Forget(s, p) ELSE s) = f
  <2>1. CASE status # "connected"
    BY <1>1, <1>3, <2>1 DEF Forget
  <2>2. CASE status = "connected"
    BY <1>1, <1>3, <2>2 DEF SamplingState
  <2> QED
    BY <2>1, <2>2
<1>6. PICK sh : sh = [s.shown EXCEPT ![p] = status]
  OBVIOUS
<1>7. sh \in [Peers -> {"none", "connecting", "negotiating", "connected", "disconnected", "failed"}]
  BY <1>6 DEF SamplingState
<1>8. PICK u : u = [f EXCEPT !.shown = sh]
  OBVIOUS
<1>9. SetStatus(s, p, status) = u
  BY <1>4, <1>5, <1>6, <1>8 DEF SetStatus
<1>10. /\ u \in SamplingState /\ u.conn = s.conn /\ u.shown = sh /\ u.activity = a
       /\ u.timer = s.timer /\ u.measure = s.measure
  BY <1>4, <1>7, <1>8 DEF SamplingState
<1> QED
  BY <1>2, <1>6, <1>9, <1>10

\* Disposed, as fields.
LEMMA DisposedPeer ==
  ASSUME NEW s \in SamplingState, NEW p \in Peers
  PROVE  LET u == Disposed(s, p)
         IN /\ u \in SamplingState /\ u.conn = s.conn /\ u.shown = s.shown
            /\ u.activity \subseteq s.activity /\ p \notin u.activity
            /\ u.timer = s.timer /\ (u.measure = None <=> s.measure = None)
            /\ s.measure # None =>
                 /\ u.measure.waits = s.measure.waits /\ u.measure.fresh = s.measure.fresh
                 /\ u.measure.mine = s.measure.mine
<1>1. PICK f : f = [s EXCEPT !.activity = s.activity \ {p}]
  OBVIOUS
<1>2. /\ f \in SamplingState /\ f.conn = s.conn /\ f.shown = s.shown /\ f.activity = s.activity \ {p}
      /\ f.timer = s.timer /\ f.measure = s.measure
  BY <1>1 DEF SamplingState
<1>3. PICK m : m = IF s.measure = None \/ p \notin s.measure.waits THEN s.measure
                   ELSE [s.measure EXCEPT !.old = s.measure.old \cup {p}]
  OBVIOUS
<1>4. /\ m \in Measure \cup {None} /\ (m = None <=> s.measure = None)
      /\ s.measure # None =>
           /\ m.waits = s.measure.waits /\ m.fresh = s.measure.fresh /\ m.mine = s.measure.mine
  <2>1. CASE s.measure = None \/ p \notin s.measure.waits
    BY <1>3, <2>1 DEF SamplingState
  <2>2. CASE s.measure # None /\ p \in s.measure.waits
    <3>1. s.measure \in Measure
      BY <2>2 DEF SamplingState
    <3>2. m = [s.measure EXCEPT !.old = s.measure.old \cup {p}]
      BY <1>3, <2>2
    <3>3. m \in Measure /\ m.waits = s.measure.waits /\ m.fresh = s.measure.fresh /\ m.mine = s.measure.mine
      BY <3>1, <3>2 DEF Measure
    <3> QED
      BY <2>2, <3>3, NoneIsNone
  <2> QED
    BY <2>1, <2>2
<1>5. PICK u : u = [f EXCEPT !.measure = m]
  OBVIOUS
<1>6. Disposed(s, p) = u
  <2>1. Forget(s, p) = f
    BY <1>1 DEF Forget
  <2> QED
    BY <1>3, <1>5, <2>1 DEF Disposed
<1>7. /\ u \in SamplingState /\ u.conn = s.conn /\ u.shown = s.shown /\ u.activity = s.activity \ {p}
      /\ u.timer = s.timer /\ u.measure = m
  BY <1>2, <1>4, <1>5 DEF SamplingState
<1> QED
  BY <1>4, <1>6, <1>7

\* The answers about a peer.
LEMMA AnsweredFits ==
  ASSUME NEW s, NEW seen \in BOOLEAN, NEW active \in BOOLEAN, SamplingFits(s, seen, active),
         s.measure # None, NEW p \in s.measure.waits,
         NEW a \in SUBSET (Peers \cup {"self"}), \A q \in a \ {"self"} : s.conn[q] = "connected",
         ~active \/ ~seen => a = {}
  PROVE  SamplingFits(Answered([s EXCEPT !.activity = a], p), seen, active)
<1>1. s \in SamplingState /\ s.measure \in Measure /\ Measuring(s, seen, active)
  BY DEF SamplingFits, Measuring, SamplingState
<1>2. PICK ws \in SUBSET Peers, os \in SUBSET Peers :
        ws = s.measure.waits \ {p} /\ os = s.measure.old \ {p}
  BY <1>1 DEF Measure
<1>3. PICK m : m = [s.measure EXCEPT !.waits = ws, !.old = os]
  OBVIOUS
<1>8. m \in Measure /\ m # None /\ m.fresh = s.measure.fresh /\ m.mine = s.measure.mine
  <2>1. m \in Measure /\ m.fresh = s.measure.fresh /\ m.mine = s.measure.mine
    BY <1>1, <1>3 DEF Measure
  <2> QED
    BY <2>1, NoneIsNone
<1>4. PICK u : u = [s EXCEPT !.activity = a, !.measure = m]
  OBVIOUS
<1>5. /\ u \in SamplingState /\ u.measure = m /\ u.timer = s.timer /\ u.activity = a
      /\ u.conn = s.conn /\ u.shown = s.shown
  BY <1>1, <1>8, <1>4 DEF SamplingState
<1>6. Answered([s EXCEPT !.activity = a], p) = Measured(u)
  <2>1. PICK t : t = [s EXCEPT !.activity = a]
    OBVIOUS
  <2>2. t.measure = s.measure
    BY <1>1, <2>1 DEF SamplingState
  <2>3. [t EXCEPT !.measure.waits = @ \ {p}, !.measure.old = @ \ {p}] = [t EXCEPT !.measure = m]
    <3>1. t.measure.waits \ {p} = ws /\ t.measure.old \ {p} = os
      BY <1>2, <2>2
    <3>2. [t EXCEPT !.measure.waits = ws, !.measure.old = os] = [t EXCEPT !.measure = m]
      BY <1>1, <1>3, <2>1, <2>2 DEF SamplingState, Measure
    <3>3. [t EXCEPT !.measure.waits = @ \ {p}, !.measure.old = @ \ {p}]
            = [t EXCEPT !.measure.waits = ws, !.measure.old = os]
      BY <1>1, <2>1, <2>2, <3>1 DEF SamplingState, Measure
    <3> QED
      BY <3>2, <3>3
  <2>4. [t EXCEPT !.measure = m] = u
    BY <1>1, <1>4, <2>1 DEF SamplingState
  <2> QED
    BY <2>1, <2>3, <2>4 DEF Answered
<1>7. Measuring(u, seen, active)
  BY <1>1, <1>8, <1>5 DEF Measuring
<1> QED
  BY <1>8, <1>5, <1>6, <1>7, MeasuredFits

LEMMA StatsFit ==
  ASSUME visible \in BOOLEAN, NEW active \in BOOLEAN, SamplingFits(sampling, visible, active),
         NEW p \in Peers, StatsAnswered(p) \/ StatsFail(p)
  PROVE  SamplingFits(sampling', visible, active)
<1>1. /\ sampling \in SamplingState /\ sampling.measure # None /\ sampling.measure \in Measure
      /\ p \in sampling.measure.waits
  BY DEF StatsAnswered, StatsFail, SamplingFits, Measuring, SamplingState
<1>2. /\ \A q \in sampling.activity \ {"self"} : sampling.conn[q] = "connected"
      /\ ~active \/ ~visible => sampling.activity = {}
      /\ sampling.measure.fresh => active /\ visible
      /\ sampling.activity \in SUBSET (Peers \cup {"self"})
  BY <1>1 DEF SamplingFits, Measuring, SamplingState
<1>3. PICK a \in SUBSET (Peers \cup {"self"}) :
        /\ \A q \in a \ {"self"} : sampling.conn[q] = "connected"
        /\ ~active \/ ~visible => a = {}
        /\ sampling' = Answered([sampling EXCEPT !.activity = a], p)
  <2>1. sampling = [sampling EXCEPT !.activity = sampling.activity]
    BY <1>1 DEF SamplingState
  <2>2. CASE sampling' = Answered(sampling, p)
    BY <1>2, <2>1, <2>2
  <2>3. CASE StatsAnswered(p) /\ Counts(sampling.measure, p)
    <3>1. sampling' = Answered([sampling EXCEPT !.activity = sampling.activity \cup {p}], p)
      BY <2>3 DEF StatsAnswered
    <3>2. active /\ visible /\ sampling.conn[p] = "connected"
      BY <1>2, <2>3 DEF Counts
    <3>3. PICK a : a = sampling.activity \cup {p}
      OBVIOUS
    <3>4. a \in SUBSET (Peers \cup {"self"}) /\ \A q \in a \ {"self"} : sampling.conn[q] = "connected"
      BY <1>2, <3>2, <3>3
    <3> QED
      BY <3>1, <3>2, <3>3, <3>4
  <2>4. CASE StatsFail(p) /\ sampling' # Answered(sampling, p)
    <3>1. sampling' = Answered([sampling EXCEPT !.activity = sampling.activity \ {p}], p)
      BY <2>4 DEF StatsFail, Forget
    <3>2. PICK a : a = sampling.activity \ {p}
      OBVIOUS
    <3>3. /\ a \in SUBSET (Peers \cup {"self"}) /\ \A q \in a \ {"self"} : sampling.conn[q] = "connected"
          /\ ~active \/ ~visible => a = {}
      BY <1>2, <3>2
    <3> QED
      BY <3>1, <3>2, <3>3
  <2>5. StatsAnswered(p) /\ ~Counts(sampling.measure, p) => sampling' = Answered(sampling, p)
    BY DEF StatsAnswered
  <2> QED
    BY <2>2, <2>3, <2>4, <2>5
<1>4. SamplingFits(Answered([sampling EXCEPT !.activity = a], p), visible, active)
  BY <1>1, <1>3, AnsweredFits
<1> QED
  BY <1>3, <1>4, Zenon

\* The peers come, change and go.
LEMMA PeersFit ==
  ASSUME NEW active, SamplingFits(sampling, visible, active), NEW p \in Peers,
         \/ PeerReplaced(p) \/ PeerGivenUp(p) \/ Negotiates(p)
         \/ \E st \in {"connected", "disconnected"} : PeerChanges(p, st)
  PROVE  SamplingFits(sampling', visible, active)
<1>0. sampling \in SamplingState
  BY DEF SamplingFits, Measuring
<1> DEFINE Shows == {"none", "connecting", "negotiating", "connected", "disconnected", "failed"}
<1> DEFINE Conns == {"none", "new", "connected", "disconnected"}
<1>1. CASE PeerReplaced(p)
  <2>1. PICK d : d = Disposed(sampling, p)
    OBVIOUS
  <2>2. /\ d \in SamplingState /\ d.conn = sampling.conn /\ d.shown = sampling.shown
        /\ d.activity \subseteq sampling.activity /\ p \notin d.activity
        /\ d.timer = sampling.timer /\ (d.measure = None <=> sampling.measure = None)
        /\ sampling.measure # None =>
             /\ d.measure.waits = sampling.measure.waits /\ d.measure.fresh = sampling.measure.fresh
             /\ d.measure.mine = sampling.measure.mine
    BY <1>0, <2>1, DisposedPeer
  <2>3. PICK co, sh : co = [sampling.conn EXCEPT ![p] = "new"] /\ sh = [sampling.shown EXCEPT ![p] = "connecting"]
    OBVIOUS
  <2>4. co \in [Peers -> Conns] /\ sh \in [Peers -> Shows]
    BY <1>0, <2>3 DEF SamplingState
  <2>5. PICK u : u = [d EXCEPT !.conn = co, !.shown = sh]
    OBVIOUS
  <2>6. sampling' = u
    <3>1. sampling' = [d EXCEPT !.conn[p] = "new", !.shown[p] = "connecting"]
      BY <1>1, <2>1 DEF PeerReplaced
    <3> QED
      BY <2>2, <2>3, <2>5, <3>1 DEF SamplingState
  <2>7. /\ u \in SamplingState /\ u.conn = co /\ u.shown = sh /\ u.activity = d.activity
        /\ u.timer = d.timer /\ u.measure = d.measure
    BY <2>2, <2>4, <2>5 DEF SamplingState
  <2>8. SamplingFits(u, visible, active)
    <3>1. u.conn = [sampling.conn EXCEPT ![p] = "new"] /\ u.shown = [sampling.shown EXCEPT ![p] = "connecting"]
      BY <2>3, <2>7
    <3>2. /\ u.activity \subseteq sampling.activity /\ p \notin u.activity
          /\ u.timer = sampling.timer /\ (u.measure = None <=> sampling.measure = None)
          /\ sampling.measure # None =>
               /\ u.measure.waits = sampling.measure.waits /\ u.measure.fresh = sampling.measure.fresh
               /\ u.measure.mine = sampling.measure.mine
      BY <2>2, <2>7
    <3>3. OnePeer(sampling, p, "new", "connecting", u)
      BY <2>7, <3>1, <3>2 DEF OnePeer
    <3> QED
      BY <3>3, OnePeerFits
  <2> QED
    BY <2>6, <2>8
<1>2. CASE PeerGivenUp(p)
  <2>1. PICK t : t = SetStatus(sampling, p, "failed")
    OBVIOUS
  <2>2. /\ t \in SamplingState /\ t.conn = sampling.conn /\ t.shown = [sampling.shown EXCEPT ![p] = "failed"]
        /\ t.activity \subseteq sampling.activity
        /\ t.timer = sampling.timer /\ t.measure = sampling.measure
    BY <1>0, <2>1, StatusIsSet
  <2>3. PICK d : d = Disposed(t, p)
    OBVIOUS
  <2>4. /\ d \in SamplingState /\ d.conn = t.conn /\ d.shown = t.shown
        /\ d.activity \subseteq t.activity /\ p \notin d.activity
        /\ d.timer = t.timer /\ (d.measure = None <=> t.measure = None)
        /\ t.measure # None =>
             /\ d.measure.waits = t.measure.waits /\ d.measure.fresh = t.measure.fresh
             /\ d.measure.mine = t.measure.mine
    BY <2>2, <2>3, DisposedPeer
  <2>5. PICK co : co = [sampling.conn EXCEPT ![p] = "none"]
    OBVIOUS
  <2>6. co \in [Peers -> Conns]
    BY <1>0, <2>5 DEF SamplingState
  <2>7. PICK u : u = [d EXCEPT !.conn = co]
    OBVIOUS
  <2>8. sampling' = u
    <3>1. sampling' = [d EXCEPT !.conn[p] = "none"]
      BY <1>2, <2>1, <2>3 DEF PeerGivenUp
    <3> QED
      BY <2>2, <2>4, <2>5, <2>7, <3>1 DEF SamplingState
  <2>9. /\ u \in SamplingState /\ u.conn = co /\ u.shown = d.shown /\ u.activity = d.activity
        /\ u.timer = d.timer /\ u.measure = d.measure
    BY <2>4, <2>6, <2>7 DEF SamplingState
  <2>10. SamplingFits(u, visible, active)
    <3>1. u.conn = [sampling.conn EXCEPT ![p] = "none"] /\ u.shown = [sampling.shown EXCEPT ![p] = "failed"]
      BY <2>2, <2>4, <2>5, <2>9
    <3>2. /\ u.activity \subseteq sampling.activity /\ p \notin u.activity
          /\ u.timer = sampling.timer /\ (u.measure = None <=> sampling.measure = None)
          /\ sampling.measure # None =>
               /\ u.measure.waits = sampling.measure.waits /\ u.measure.fresh = sampling.measure.fresh
               /\ u.measure.mine = sampling.measure.mine
      BY <2>2, <2>4, <2>9
    <3>3. OnePeer(sampling, p, "none", "failed", u)
      BY <2>9, <3>1, <3>2 DEF OnePeer
    <3> QED
      BY <3>3, OnePeerFits
  <2> QED
    BY <2>8, <2>10
<1>3. CASE Negotiates(p)
  <2>1. sampling' = SetStatus(sampling, p, "negotiating")
    BY <1>3 DEF Negotiates
  <2>2. CASE sampling.conn[p] = "connected"
    BY <2>1, <2>2 DEF SetStatus
  <2>3. CASE sampling.conn[p] # "connected"
    <3>1. PICK u : u = SetStatus(sampling, p, "negotiating")
      OBVIOUS
    <3>2. /\ u \in SamplingState /\ u.conn = sampling.conn /\ u.shown = [sampling.shown EXCEPT ![p] = "negotiating"]
          /\ u.activity \subseteq sampling.activity /\ p \notin u.activity
          /\ u.timer = sampling.timer /\ u.measure = sampling.measure
      BY ZenonT(40), <1>0, <2>3, <3>1, StatusIsSet
    <3>3. u.conn = [sampling.conn EXCEPT ![p] = sampling.conn[p]]
      BY <1>0, <3>2 DEF SamplingState
    <3>4. SamplingFits(u, visible, active)
      <4>1. "negotiating" = "connected" <=> sampling.conn[p] = "connected"
        BY <2>3
      <4>2. OnePeer(sampling, p, sampling.conn[p], "negotiating", u)
        BY <3>2, <3>3, <4>1 DEF OnePeer
      <4> QED
        BY <4>2, OnePeerFits
    <3> QED
      BY <2>1, <3>1, <3>4
  <2> QED
    BY <2>2, <2>3
<1>4. ASSUME NEW st \in {"connected", "disconnected"}, PeerChanges(p, st)
      PROVE  SamplingFits(sampling', visible, active)
  <2>1. PICK co : co = [sampling.conn EXCEPT ![p] = st]
    OBVIOUS
  <2>2. co \in [Peers -> Conns]
    BY <1>0, <2>1 DEF SamplingState
  <2>3. PICK t : t = [sampling EXCEPT !.conn = co]
    OBVIOUS
  <2>4. /\ t \in SamplingState /\ t.conn = co /\ t.shown = sampling.shown /\ t.activity = sampling.activity
        /\ t.timer = sampling.timer /\ t.measure = sampling.measure
    BY <1>0, <2>2, <2>3 DEF SamplingState
  <2>5. PICK u : u = SetStatus(t, p, st)
    OBVIOUS
  <2>6. /\ u \in SamplingState /\ u.conn = t.conn /\ u.shown = [t.shown EXCEPT ![p] = st]
        /\ u.activity \subseteq t.activity /\ (st # "connected" => p \notin u.activity)
        /\ u.timer = t.timer /\ u.measure = t.measure
    <3>1. CASE st = "connected"
      <4>1. t \in SamplingState /\ u = SetStatus(t, p, "connected")
        BY <2>4, <2>5, <3>1
      <4> QED
        BY Zenon, <3>1, <4>1, StatusIsSet
    <3>2. CASE st = "disconnected"
      <4>1. t \in SamplingState /\ u = SetStatus(t, p, "disconnected")
        BY <2>4, <2>5, <3>2
      <4> QED
        BY ZenonT(40), <3>2, <4>1, StatusIsSet
    <3> QED
      BY <1>4, <3>1, <3>2
  <2>7. sampling' = u
    BY <1>4, <2>1, <2>3, <2>5 DEF PeerChanges
  <2>8. SamplingFits(u, visible, active)
    <3>1. u.conn = [sampling.conn EXCEPT ![p] = st] /\ u.shown = [sampling.shown EXCEPT ![p] = st]
      BY <2>1, <2>4, <2>6
    <3>2. /\ u.activity \subseteq sampling.activity /\ (st # "connected" => p \notin u.activity)
          /\ u.timer = sampling.timer /\ u.measure = sampling.measure
      BY <2>4, <2>6
    <3>3. u.measure = sampling.measure => (u.measure = None <=> sampling.measure = None)
      OBVIOUS
    <3>4. u \in SamplingState
      BY <2>6
    <3>5. OnePeer(sampling, p, st, st, u)
      BY <3>1, <3>2, <3>3, <3>4 DEF OnePeer
    <3> QED
      BY <3>5, OnePeerFits
  <2> QED
    BY <2>7, <2>8
<1> QED
  BY <1>1, <1>2, <1>3, <1>4

LEMMA SampleTimerFits ==
  ASSUME visible \in BOOLEAN, NEW active \in BOOLEAN, SamplingFits(sampling, visible, active),
         SampleTimer
  PROVE  SamplingFits(sampling', visible, active)
<1>1. sampling.timer /\ sampling' \in Samples(sampling)
  BY DEF SampleTimer
<1>2. active = TRUE /\ visible = TRUE
  BY <1>1 DEF SamplingFits, Measuring
<1>3. PICK measured \in SUBSET {p \in Peers : sampling.conn[p] = "connected"} :
        sampling' = Sample(sampling, measured)
  BY <1>1 DEF Samples
<1>4. /\ sampling \in SamplingState
      /\ \A p \in Peers : sampling.shown[p] = "connected" <=> sampling.conn[p] = "connected"
      /\ \A p \in sampling.activity \ {"self"} : sampling.conn[p] = "connected"
      /\ sampling.measure # None => sampling.measure.waits # {} /\ ~sampling.measure.mine
  BY <1>1, <1>2 DEF SamplingFits, Measuring
<1>5. SamplingFits(Sample(sampling, measured), TRUE, TRUE)
  BY <1>4, SampleFits
<1> QED
  BY <1>2, <1>3, <1>5

\* The loop begins anew.
LEMMA AnewSampled ==
  ASSUME NEW seen, NEW active, SamplingFits(sampling, seen, active),
         NEW s \in Samples(Reset(sampling))
  PROVE  SamplingFits(s, TRUE, TRUE)
<1>1. PICK r : r = Reset(sampling)
  OBVIOUS
<1>2. /\ r \in SamplingState /\ r.conn = sampling.conn /\ r.shown = sampling.shown
      /\ r.activity = {} /\ ~r.timer
      /\ r.measure # None => r.measure.waits # {} /\ ~r.measure.fresh /\ ~r.measure.mine
  BY <1>1, ResettingFits
<1>3. PICK measured \in SUBSET {p \in Peers : r.conn[p] = "connected"} : s = Sample(r, measured)
  BY <1>1 DEF Samples
<1>4. /\ \A p \in Peers : r.shown[p] = "connected" <=> r.conn[p] = "connected"
      /\ \A p \in r.activity \ {"self"} : r.conn[p] = "connected"
      /\ r.measure # None => r.measure.waits # {} /\ ~r.measure.mine
  BY <1>2 DEF SamplingFits, Measuring
<1>5. SamplingFits(Sample(r, measured), TRUE, TRUE)
  BY <1>2, <1>4, SampleFits
<1> QED
  BY <1>3, <1>5

\* visibilitychange, for what is measured.
LEMMA LookingFits ==
  ASSUME visible \in BOOLEAN, NEW on, SamplingFits(sampling, visible, session.status = "active"),
         Hide \/ Show(on) \/ QualitySwitched
  PROVE  SamplingFits(sampling', visible', session.status = "active")
<1>1. CASE Hide
  <2>1. visible' = FALSE
    BY <1>1 DEF Hide
  <2>2. CASE session.status = "active"
    <3>1. PICK r : r = Reset(sampling)
      OBVIOUS
    <3>2. sampling' = r
      BY <1>1, <2>2, <3>1 DEF Hide
    <3>3. /\ r \in SamplingState /\ r.conn = sampling.conn /\ r.shown = sampling.shown
          /\ r.activity = {} /\ ~r.timer
          /\ r.measure # None => r.measure.waits # {} /\ ~r.measure.fresh /\ ~r.measure.mine
      BY <3>1, ResettingFits
    <3>4. SamplingFits(r, FALSE, session.status = "active")
      BY <3>3 DEF SamplingFits, Measuring
    <3> QED
      BY <2>1, <3>2, <3>4
  <2>3. CASE session.status # "active"
    <3>1. sampling' = sampling
      BY <1>1, <2>3 DEF Hide
    <3>2. SamplingFits(sampling, FALSE, session.status = "active")
      BY <2>3 DEF SamplingFits, Measuring
    <3> QED
      BY <2>1, <3>1, <3>2
  <2> QED
    BY <2>2, <2>3
<1>2. CASE Show(on)
  <2>1. visible' = TRUE
    BY <1>2 DEF Show
  <2>2. CASE session.status = "active"
    <3>1. sampling' \in Samples(Reset(sampling))
      BY <1>2, <2>2 DEF Show
    <3>2. SamplingFits(sampling', TRUE, TRUE)
      BY <3>1, AnewSampled
    <3> QED
      BY <2>1, <2>2, <3>2
  <2>3. CASE session.status # "active"
    <3>1. sampling' = sampling
      BY <1>2, <2>3 DEF Show
    <3>2. SamplingFits(sampling, TRUE, session.status = "active")
      BY <2>3 DEF SamplingFits, Measuring
    <3> QED
      BY <2>1, <3>1, <3>2
  <2> QED
    BY <2>2, <2>3
<1>3. CASE QualitySwitched
  <2>1. session.status = "active" /\ visible = TRUE /\ visible' = TRUE
        /\ sampling' \in Samples(Reset(sampling))
    BY <1>3 DEF QualitySwitched
  <2>2. SamplingFits(sampling', TRUE, TRUE)
    BY <2>1, AnewSampled
  <2> QED
    BY <2>1, <2>2
<1> QED
  BY <1>1, <1>2, <1>3

\* The loop starts and ends with the session.
LEMMA SampledFits ==
  ASSUME visible \in BOOLEAN, NEW was \in BOOLEAN, NEW is \in BOOLEAN,
         SamplingFits(sampling, visible, was)
  PROVE  SamplingFits(Sampled(sampling, was, is), visible, is)
<1>1. CASE is = was
  BY <1>1 DEF Sampled
<1>2. CASE is /\ ~was
  <2>1. CASE visible
    <3>1. Sampled(sampling, was, is) = Sample(sampling, {})
      BY <1>2, <2>1 DEF Sampled
    <3>2. /\ sampling \in SamplingState
          /\ \A p \in Peers : sampling.shown[p] = "connected" <=> sampling.conn[p] = "connected"
          /\ \A p \in sampling.activity \ {"self"} : sampling.conn[p] = "connected"
          /\ sampling.measure # None => sampling.measure.waits # {} /\ ~sampling.measure.mine
      BY <1>2 DEF SamplingFits, Measuring
    <3>3. SamplingFits(Sample(sampling, {}), TRUE, TRUE)
      BY <3>2, SampleFits
    <3> QED
      BY <1>2, <2>1, <3>1, <3>3
  <2>2. CASE ~visible
    <3>1. Sampled(sampling, was, is) = sampling
      BY <1>2, <2>2 DEF Sampled
    <3>2. SamplingFits(sampling, visible, is)
      BY <1>2, <2>2 DEF SamplingFits, Measuring
    <3> QED
      BY <3>1, <3>2
  <2> QED
    BY <2>1, <2>2
<1>3. CASE was /\ ~is
  <2>1. PICK r : r = Reset(sampling)
    OBVIOUS
  <2>2. /\ r \in SamplingState /\ r.activity = {} /\ ~r.timer
        /\ r.measure # None => r.measure.waits # {} /\ ~r.measure.fresh /\ ~r.measure.mine
    BY <2>1, ResettingFits
  <2>3. PICK n : n = [p \in Peers |-> "none"]
    OBVIOUS
  <2>4. PICK u : u = [r EXCEPT !.conn = n, !.shown = n]
    OBVIOUS
  <2>5. Sampled(sampling, was, is) = u
    BY <1>3, <2>1, <2>3, <2>4 DEF Sampled, NewSampling
  <2>6. /\ u \in SamplingState /\ u.conn = n /\ u.shown = n /\ u.activity = {} /\ ~u.timer
        /\ u.measure = r.measure
    BY <2>2, <2>3, <2>4 DEF SamplingState
  <2>7. SamplingFits(u, visible, is)
    BY <1>3, <2>2, <2>3, <2>6 DEF SamplingFits, Measuring
  <2> QED
    BY <2>5, <2>7
<1> QED
  BY <1>1, <1>2, <1>3

LEMMA NewPresence ==
  ASSUME NEW seen
  PROVE  SamplingFits(NewSampling, seen, FALSE)
<1>1. PICK u : u = NewSampling
  OBVIOUS
<1>2. /\ u \in SamplingState /\ u.measure = None /\ u.activity = {} /\ ~u.timer
      /\ u.conn = [p \in Peers |-> "none"] /\ u.shown = [p \in Peers |-> "none"]
  BY <1>1 DEF NewSampling, SamplingState
<1>3. SamplingFits(u, seen, FALSE)
  BY <1>2 DEF SamplingFits, Measuring
<1> QED
  BY Zenon, <1>1, <1>3

\* The effects of the hooks, when the page or the session changes.
LEMMA AttendedFits ==
  ASSUME PresenceFits, page'.startup = "none" => session'.status # "active", Attended
  PROVE  PresenceFits'
<1>1. /\ visible \in BOOLEAN /\ visible' = visible
      /\ LockFits(wake, visible, CallOn(page, session))
      /\ SamplingFits(sampling, visible, session.status = "active")
  BY DEF PresenceFits, Attended
<1>2. wake \in WakeState /\ wake.held = IF wake.lock THEN 1 ELSE 0
  BY <1>1 DEF LockFits
<1>3. PICK on \in BOOLEAN : on = CallOn(page', session') /\ (on => page'.startup = "done")
  BY DEF CallOn
<1>4. PICK active \in BOOLEAN :
        active = (session'.status = "active") /\ (active <=> session'.status = "active")
  OBVIOUS
<1>5. CASE page'.startup = "none"
  <2>1. PICK d : d = Dispose(wake)
    OBVIOUS
  <2>2. d \in WakeState /\ d.held = 0
    BY <1>2, <2>1, DisposingFits
  <2>3. PICK n \in Nat : n = d.orphans
    BY <2>2 DEF WakeState
  <2>4. PICK u : u = [NewWake EXCEPT !.orphans = n, !.held = 0]
    OBVIOUS
  <2>5. wake' = u /\ sampling' = NewSampling
    BY <1>5, <2>1, <2>2, <2>3, <2>4 DEF Attended
  <2>6. /\ u \in WakeState /\ u.status = "off" /\ ~u.lock /\ u.own = "none" /\ u.held = 0
        /\ ~u.enabled
    BY <2>3, <2>4 DEF NewWake, WakeState
  <2>7. LockFits(u, visible, on)
    BY <2>6 DEF LockFits
  <2>8. active = FALSE
    BY <1>4, <1>5
  <2>9. SamplingFits(sampling', visible, active)
    BY <2>5, <2>8, NewPresence
  <2> QED
    BY <1>1, <1>3, <1>4, <2>5, <2>7, <2>9 DEF PresenceFits
<1>6. CASE page'.startup # "none"
  <2>1. PICK was \in BOOLEAN : was = (session.status = "active")
    OBVIOUS
  <2>2. sampling' = Sampled(sampling, was, active)
    BY <1>4, <1>6, <2>1 DEF Attended
  <2>3. SamplingFits(sampling', visible, active)
    BY <1>1, <2>1, <2>2, SampledFits
  <2>4. wake' = IF on = CallOn(page, session) THEN wake ELSE LockEffect(wake, on)
    BY <1>3, <1>6 DEF Attended
  <2>5. LockFits(LockEffect(wake, on), visible, on)
    BY <1>1, <1>2, LockEffectFits
  <2>6. LockFits(wake', visible, on)
    BY <1>1, <2>4, <2>5
  <2> QED
    BY <1>1, <1>3, <1>4, <2>3, <2>6 DEF PresenceFits
<1> QED
  BY <1>5, <1>6

LEMMA SwitchLockFits ==
  ASSUME visible \in BOOLEAN, NEW on \in BOOLEAN, LockFits(wake, visible, on),
         wake' = LockEffect([wake EXCEPT !.enabled = ~@], on)
  PROVE  LockFits(wake', visible, on)
<1>1. PICK b \in BOOLEAN : b = ~wake.enabled
  OBVIOUS
<1>2. PICK w : w = [wake EXCEPT !.enabled = b]
  OBVIOUS
<1>3. wake \in WakeState /\ wake.held = IF wake.lock THEN 1 ELSE 0
  BY DEF LockFits
<1>4. w \in WakeState /\ w.held = IF w.lock THEN 1 ELSE 0
  BY <1>2, <1>3 DEF WakeState
<1>5. wake' = LockEffect(w, on)
  BY <1>1, <1>2
<1>6. LockFits(LockEffect(w, on), visible, on)
  BY <1>4, LockEffectFits
<1> QED
  BY <1>5, <1>6

LEMMA PresenceStepFits ==
  ASSUME PresenceFits, PresenceStep, UNCHANGED refreshVars
  PROVE  PresenceFits'
<1>1. PICK on \in BOOLEAN : on = CallOn(page, session)
  BY DEF CallOn
<1>2. PICK active \in BOOLEAN : active = (session.status = "active")
  OBVIOUS
<1>3. /\ visible \in BOOLEAN /\ LockFits(wake, visible, on) /\ SamplingFits(sampling, visible, active)
  BY <1>1, <1>2 DEF PresenceFits
<1>4. page' = page /\ session' = session
  BY DEF refreshVars
<1>5. /\ visible' \in BOOLEAN /\ LockFits(wake', visible', on)
      /\ SamplingFits(sampling', visible', active)
  <2>1. CASE SampleTimer
    BY <1>3, <2>1, SampleTimerFits DEF SampleTimer
  <2>2. ASSUME NEW p \in Peers, StatsAnswered(p) \/ StatsFail(p)
        PROVE  /\ visible' \in BOOLEAN /\ LockFits(wake', visible', on)
               /\ SamplingFits(sampling', visible', active)
    <3>1. visible' = visible /\ wake' = wake
      BY <2>2 DEF StatsAnswered, StatsFail
    <3>2. SamplingFits(sampling', visible, active)
      BY <1>3, <2>2, StatsFit
    <3> QED
      BY <1>3, <3>1, <3>2
  <2>3. CASE \/ LockGranted \/ LockGone \/ LockRefused \/ LockGivenBack
             \/ OrphanAnswered \/ SystemReleases
    <3>1. visible' = visible /\ sampling' = sampling
      BY <2>3 DEF LockGranted, LockGone, LockRefused, LockGivenBack, OrphanAnswered, SystemReleases
    <3>2. LockFits(wake', visible, on)
      BY <1>3, <2>3, LockAnswersFit
    <3> QED
      BY <1>3, <3>1, <3>2
  <2>4. ASSUME NEW p \in Peers,
               \/ PeerReplaced(p) \/ PeerGivenUp(p) \/ Negotiates(p)
               \/ \E st \in {"connected", "disconnected"} : PeerChanges(p, st)
        PROVE  /\ visible' \in BOOLEAN /\ LockFits(wake', visible', on)
               /\ SamplingFits(sampling', visible', active)
    <3>1. visible' = visible /\ wake' = wake
      BY <2>4 DEF PeerReplaced, PeerGivenUp, Negotiates, PeerChanges
    <3>2. SamplingFits(sampling', visible, active)
      BY <1>3, <2>4, PeersFit
    <3> QED
      BY <1>3, <3>1, <3>2
  <2>5. CASE Hide \/ Show(CallOn(page, session)) \/ QualitySwitched
    <3>1. SamplingFits(sampling', visible', active)
      BY <1>2, <1>3, <2>5, LookingFits
    <3>2. CASE Hide
      BY <1>3, <3>1, <3>2, HidingFits
    <3>3. CASE Show(CallOn(page, session))
      <4>1. visible = FALSE /\ visible' = TRUE /\ wake' = IF wake.enabled /\ on THEN Returned(wake) ELSE wake
        BY <1>1, <1>3, <3>3 DEF Show
      <4>2. LockFits(wake', TRUE, on)
        BY <1>3, <4>1, ReturningFits
      <4> QED
        BY <3>1, <4>1, <4>2
    <3>4. CASE QualitySwitched
      BY <1>3, <3>1, <3>4 DEF QualitySwitched
    <3> QED
      BY <2>5, <3>2, <3>3, <3>4
  <2>6. CASE SwitchLock
    <3>1. /\ visible' = visible /\ sampling' = sampling
          /\ wake' = LockEffect([wake EXCEPT !.enabled = ~@], on)
      BY <1>1, <2>6 DEF SwitchLock
    <3>2. LockFits(wake', visible, on)
      BY <1>3, <3>1, SwitchLockFits
    <3> QED
      BY <1>3, <3>1, <3>2
  <2> QED
    BY <2>1, <2>2, <2>3, <2>4, <2>5, <2>6 DEF PresenceStep
<1> QED
  BY <1>1, <1>2, <1>4, <1>5 DEF PresenceFits

LEMMA PresenceBegins == Init => PresenceFits
<1> SUFFICES ASSUME Init PROVE PresenceFits
  OBVIOUS
<1>1. visible = TRUE /\ sampling = NewSampling /\ wake = NewWake /\ session = NewSession
  BY DEF Init
<1>6. page.startup = "none"
  BY DEF Init
<1>2. PICK on \in BOOLEAN : on = CallOn(page, session) /\ ~on
  BY <1>6 DEF CallOn
<1>3. (session.status = "active") = FALSE
  BY <1>1 DEF NewSession
<1>4. SamplingFits(NewSampling, TRUE, FALSE)
  BY NewPresence
<1>5. LockFits(NewWake, TRUE, on)
  BY <1>2 DEF LockFits, NewWake, WakeState
<1> QED
  BY <1>1, <1>2, <1>3, <1>4, <1>5 DEF PresenceFits

LEMMA PresenceKeeps == PageFits /\ PresenceFits /\ [Next]_vars => PresenceFits'
<1> SUFFICES ASSUME PageFits, PresenceFits, [Next]_vars PROVE PresenceFits'
  OBVIOUS
<1>1. PageFits'
  BY PagesKeep
<1>2. page'.startup = "none" => session'.status # "active"
  <2>1. Ends(World')
    BY <1>1 DEF PageFits, RoomFits, Loose
  <2>2. World'.page = page' /\ World'.session = session'
    BY DEF World
  <2> QED
    BY <2>1, <2>2 DEF Ends, NewSession
<1>3. CASE Attended
  BY <1>2, <1>3, AttendedFits
<1>4. CASE PresenceStep /\ UNCHANGED refreshVars
  BY <1>4, PresenceStepFits
<1>5. CASE UNCHANGED <<refreshVars, presenceVars>>
  BY <1>5 DEF refreshVars, presenceVars, PresenceFits
<1> QED
  BY <1>3, <1>4, <1>5 DEF Next, vars

\* The screen is kept on by the lock that is shown and only for a call that is seen,
\* and what is shown of a peer was measured of the connection there is, while the
\* window was visible: whatever is answered after the window was hidden, the peer
\* replaced or the room left.
THEOREM PresenceHolds == Spec => []PresenceIsTrue
<1>1. PresenceFits => PresenceIsTrue
  <2> SUFFICES ASSUME PresenceFits PROVE PresenceIsTrue
    OBVIOUS
  <2>1. /\ wake.held = IF wake.lock THEN 1 ELSE 0
        /\ wake.lock <=> wake.status = "active"
        /\ wake.enabled /\ visible /\ CallOn(page, session) /\ wake.status \in {"off", "waiting"} =>
             wake.own # "none" /\ wake.retry
        /\ wake.lock => wake.enabled /\ visible /\ CallOn(page, session)
    BY DEF PresenceFits, LockFits
  <2>2. /\ \A p \in Peers : sampling.shown[p] = "connected" <=> sampling.conn[p] = "connected"
        /\ \A p \in sampling.activity \ {"self"} : sampling.conn[p] = "connected"
        /\ session.status # "active" \/ ~visible => sampling.activity = {} /\ ~sampling.timer
        /\ session.status = "active" /\ visible =>
             (sampling.timer <=> ~(sampling.measure # None /\ sampling.measure.mine))
    BY DEF PresenceFits, SamplingFits, Measuring
  <2> QED
    BY <2>1, <2>2 DEF PresenceIsTrue
<1>2. Init => PageFits /\ PresenceFits
  BY PagesBegin, PresenceBegins
<1>3. (PageFits /\ PresenceFits) /\ [Next]_vars => (PageFits /\ PresenceFits)'
  BY PagesKeep, PresenceKeeps
<1> QED
  BY <1>1, <1>2, <1>3, PTL DEF Spec
=============================================================================
