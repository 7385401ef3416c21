------------------------- MODULE RoomSessionsProofs -------------------------
(***************************************************************************)
(* Proofs about RoomSessions, for any number of connections, rooms and     *)
(* participants and any limits: the state stays well typed and the maps of *)
(* the service agree with each other through every cascade, a session is   *)
(* told when another replaces it, the study of a room that is left is the  *)
(* one it is entered with again, and members are told the truth.           *)
(***************************************************************************)
EXTENDS RoomSessions, FiniteSetTheorems, SequenceTheorems, TLAPS

-----------------------------------------------------------------------------
(* What the helpers return                                                 *)

\* A broadcast is a work list of one entry, or of none without receivers.
LEMMA SendType ==
  ASSUME NEW f \in Frame, NEW S \in SUBSET Conn
  PROVE  Send(f, S) \in Seq(Item)
<1>1. CASE S = {}
  BY <1>1 DEF Send
<1>2. CASE S # {}
  <2>1. [frame |-> f, to |-> S] \in Item
    BY DEF Item
  <2>2. <<[frame |-> f, to |-> S]>> \in Seq(Item)
    BY <2>1
  <2>. QED
    BY <1>2, <2>2 DEF Send
<1>. QED
  BY <1>1, <1>2

\* A frame for one peer of a broadcast has been handled.
LEMMA WithoutType ==
  ASSUME work \in Seq(Item), work # <<>>, NEW c \in Conn
  PROVE  Without(c) \in Seq(Item)
<1>1. Head(work) \in Item /\ Tail(work) \in Seq(Item)
  OBVIOUS
<1>2. Head(work).frame \in Frame /\ Head(work).to \ {c} \in SUBSET Conn
  BY <1>1 DEF Item
<1>3. Send(Head(work).frame, Head(work).to \ {c}) \in Seq(Item)
  BY <1>2, SendType
<1>. QED
  BY <1>1, <1>3 DEF Without

\* The constructors of frames build frames.
LEMMA FrameType ==
  ASSUME NEW c \in Conn, NEW h \in Hands, NEW n \in Nat, NEW b \in BOOLEAN, NEW S \in SUBSET Conn
  PROVE  /\ PeerJoined(c) \in Frame /\ PeerLeft(c) \in Frame
         /\ HandState(h) \in Frame /\ StudyState(n) \in Frame
         /\ Reconnected(c, n, b) \in Frame
         /\ Notice("error") \in Frame /\ Notice("relay") \in Frame
         /\ Notice("moderation.media-disabled") \in Frame
         /\ [kind |-> "room.joined", peers |-> S] \in Frame
BY DEF PeerJoined, PeerLeft, HandState, StudyState, Reconnected, Notice, Frame, Call

\* A session that nobody told anything.
LEMMA BlankType == Blank \in Told
BY DEF Blank, Told

\* A client that applies a frame stays in a state a client can be in.
LEMMA TellType ==
  ASSUME NEW t \in Told, NEW f \in Frame
  PROVE  Tell(t, f) \in Told
<1>1. CASE f.kind = "room.joined"
  BY <1>1 DEF Tell, Told, Frame, Blank
<1>2. CASE f.kind = "peer.joined"
  BY <1>2 DEF Tell, Told, Frame
<1>3. CASE f.kind = "peer.left"
  BY <1>3 DEF Tell, Told, Frame
<1>4. CASE f.kind = "hand.state"
  BY <1>4 DEF Tell, Told, Frame
<1>5. CASE f.kind = "study.state"
  BY <1>5 DEF Tell, Told, Frame
<1>6. CASE f.kind = "peer.reconnect"
  BY <1>6 DEF Tell, Told, Frame
<1>7. CASE f.kind \in {"error", "relay", "moderation.media-disabled"}
  BY <1>7 DEF Tell
<1>. QED
  BY <1>1, <1>2, <1>3, <1>4, <1>5, <1>6, <1>7 DEF Frame

\* Parking a study keeps the parked studies well typed, and only rooms that
\* were parked before or the room itself are parked afterwards.
LEMMA ParkType ==
  ASSUME NEW r \in Room, NEW n \in Nat, parked \subseteq Parked
  PROVE  /\ Park(r, n) \subseteq Parked
         /\ \A p \in Park(r, n) : p.room = r \/ \E q \in parked : q.room = p.room
<1>. DEFINE kept == {p \in parked : p.retained /\ p.room # r}
            grown == {[p EXCEPT !.age = @ + 1] : p \in kept}
                       \cup {[room |-> r, study |-> n, retained |-> TRUE, age |-> 0]}
<1>1. grown \subseteq Parked
  <2>1. ASSUME NEW p \in kept PROVE [p EXCEPT !.age = @ + 1] \in Parked
    BY DEF Parked
  <2>2. [room |-> r, study |-> n, retained |-> TRUE, age |-> 0] \in Parked
    BY DEF Parked
  <2>. QED
    BY <2>1, <2>2
<1>2. \A p \in grown : p.room = r \/ \E q \in parked : q.room = p.room
  BY DEF Parked
<1>3. Park(r, n) \subseteq grown
  BY DEF Park
<1>. QED
  BY <1>1, <1>2, <1>3

-----------------------------------------------------------------------------
(* The inductive invariant                                                 *)

\* Only a member the others were told about can have raised a hand: a member
\* not yet announced leaves without lowering one.
RaisedAreAnnounced == \A r \in Room : hands[r] # None => \A c \in hands[r].raised : announced[c]

\* The agreement of the maps alone; it does not look at the running handler.
Maps ==
  /\ OneSessionPerParticipant
  /\ MembersAgree
  /\ HandsAreOfMembers
  /\ RaisedAreAnnounced
  /\ EmptyRoomsAreGone
  /\ ParkedRoomsAreEmpty

Consistent == TypeOK /\ Maps /\ ContinuationFits

\* A frame in flight is counted in the load of its peer.
InFlightIsCounted == \A c \in Conn : inFlight[c] => load[c] > 0

IInv == Consistent /\ InFlightIsCounted

-----------------------------------------------------------------------------
(* Leaving a room                                                          *)

\* The shape of a departure: nothing but c's own entries and the entries of
\* the room it leaves change.
LEMMA RemoveShape ==
  ASSUME TypeOK, MembersAgree, NEW c \in Conn, NEW w \in Seq(Item), NEW b \in BOOLEAN,
         RemovePeerFromRoom(c, w, b)
  PROVE  /\ roomOf' = [roomOf EXCEPT ![c] = None]
         /\ role' \in [Conn -> Role \cup {None}]
         /\ \A d \in Conn \ {c} : role'[d] = role[d]
         /\ announced' \in [Conn -> BOOLEAN]
         /\ roomOf[c] # None => announced'[c] = FALSE
         /\ roomOf[c] = None => announced' = announced
         /\ \A d \in Conn \ {c} : announced'[d] = announced[d]
         /\ members' = [r \in Room |-> members[r] \ {c}]
         /\ told' \in [Conn -> Told]
<1>1. CASE roomOf[c] = None
  <2>1. /\ roomOf' = roomOf /\ role' = role /\ announced' = announced /\ members' = members
        /\ told' = told
    BY <1>1 DEF RemovePeerFromRoom, roomVars
  <2>2. roomOf = [roomOf EXCEPT ![c] = None]
    BY <1>1 DEF TypeOK
  <2>3. members = [r \in Room |-> members[r] \ {c}]
    BY <1>1, RoomAssumption DEF TypeOK, MembersAgree
  <2>. QED
    BY <1>1, <2>1, <2>2, <2>3 DEF TypeOK
<1>2. CASE roomOf[c] # None
  <2>. DEFINE r == roomOf[c]
  <2>1. r \in Room
    BY <1>2 DEF TypeOK
  <2>2. /\ roomOf' = [roomOf EXCEPT ![c] = None] /\ role' = [role EXCEPT ![c] = None]
        /\ announced' = [announced EXCEPT ![c] = FALSE]
        /\ members' = [members EXCEPT ![r] = @ \ {c}]
        /\ told' = [told EXCEPT ![c] = Blank]
    BY <1>2 DEF RemovePeerFromRoom
  <2>3. \A q \in Room \ {r} : members[q] = members[q] \ {c}
    BY DEF MembersAgree
  <2>4. members' = [q \in Room |-> members[q] \ {c}]
    BY <2>1, <2>2, <2>3 DEF TypeOK
  <2>. QED
    BY <1>2, <2>2, <2>4, BlankType DEF TypeOK
<1>. QED
  BY <1>1, <1>2

\* What a departure leaves of the room's study and hands.
LEMMA RemoveForgets ==
  ASSUME TypeOK, MembersAgree, HandsAreOfMembers, RaisedAreAnnounced, NEW c \in Conn, NEW w \in Seq(Item),
         NEW b \in BOOLEAN, RemovePeerFromRoom(c, w, b)
  PROVE  /\ study' \in [Room -> Nat \cup {None}]
         /\ hands' \in [Room -> Hands \cup {None}]
         /\ parked' \subseteq Parked
         /\ work' \in Seq(Item)
         /\ \A r \in Room : /\ study[r] = None => study'[r] = None
                            /\ hands'[r] # None =>
                                 hands[r] # None /\ hands'[r].raised \subseteq hands[r].raised \ {c}
                            /\ members[r] = {c} => study'[r] = None /\ hands'[r] = None
         /\ \A p \in parked' : members[p.room] = {c} \/ \E q \in parked : q.room = p.room
<1>1. CASE roomOf[c] = None
  <2>1. study' = study /\ hands' = hands /\ parked' = parked /\ work' = w
    BY <1>1 DEF RemovePeerFromRoom, roomVars
  <2>2. \A r \in Room : c \notin members[r]
    BY <1>1, RoomAssumption DEF MembersAgree
  <2>. QED
    BY <2>1, <2>2 DEF TypeOK, HandsAreOfMembers
<1>2. CASE roomOf[c] # None /\ members[roomOf[c]] = {c}
  <2>. DEFINE r == roomOf[c]
  <2>1. r \in Room
    BY <1>2 DEF TypeOK
  <2>2. work' = w /\ EmptyRoom(r, b)
    <3>1. ~ReportDeparture(c, r, w) \/ members[r] = {c}
      BY <1>2
    <3>. QED
      BY <1>2 DEF RemovePeerFromRoom
  <2>3. study' = [study EXCEPT ![r] = None] /\ hands' = [hands EXCEPT ![r] = None]
    BY <2>2 DEF EmptyRoom
  <2>4. CASE b \/ study[r] = None
    <3>1. parked' = parked
      BY <2>2, <2>4 DEF EmptyRoom
    <3>2. \A q \in Room \ {r} : c \notin members[q]
      BY <2>1 DEF MembersAgree
    <3>3. study' \in [Room -> Nat \cup {None}] /\ hands' \in [Room -> Hands \cup {None}]
      BY <2>3 DEF TypeOK
    <3>4. ASSUME NEW q \in Room
          PROVE  /\ study[q] = None => study'[q] = None
                 /\ hands'[q] # None =>
                      hands[q] # None /\ hands'[q].raised \subseteq hands[q].raised \ {c}
                 /\ members[q] = {c} => study'[q] = None /\ hands'[q] = None
      BY <2>1, <2>3, <3>2 DEF TypeOK, HandsAreOfMembers
    <3>. QED
      BY <2>2, <3>1, <3>3, <3>4 DEF TypeOK
  <2>5. CASE ~b /\ study[r] # None
    <3>1. study[r] \in Nat
      BY <2>1, <2>5 DEF TypeOK
    <3>2. parked' = Park(r, study[r])
      BY <2>2, <2>5 DEF EmptyRoom
    <3>3. /\ parked' \subseteq Parked
          /\ \A p \in parked' : p.room = r \/ \E q \in parked : q.room = p.room
      BY <2>1, <3>1, <3>2, ParkType DEF TypeOK
    <3>4. \A q \in Room \ {r} : c \notin members[q]
      BY <2>1 DEF MembersAgree
    <3>5. study' \in [Room -> Nat \cup {None}] /\ hands' \in [Room -> Hands \cup {None}]
      BY <2>3 DEF TypeOK
    <3>6. ASSUME NEW q \in Room
          PROVE  /\ study[q] = None => study'[q] = None
                 /\ hands'[q] # None =>
                      hands[q] # None /\ hands'[q].raised \subseteq hands[q].raised \ {c}
                 /\ members[q] = {c} => study'[q] = None /\ hands'[q] = None
      BY <2>1, <2>3, <3>4 DEF TypeOK, HandsAreOfMembers
    <3>7. ASSUME NEW p \in parked'
          PROVE  members[p.room] = {c} \/ \E q \in parked : q.room = p.room
      BY <1>2, <3>3
    <3>. QED
      BY <2>2, <3>3, <3>5, <3>6, <3>7
  <2>. QED
    BY <2>4, <2>5
<1>3. CASE roomOf[c] # None /\ members[roomOf[c]] # {c}
  <2>. DEFINE r == roomOf[c]
              others == members[r] \ {c}
  <2>1. r \in Room /\ others \in SUBSET Conn
    BY <1>3 DEF TypeOK
  <2>2. ReportDeparture(c, r, w)
    BY <1>3 DEF RemovePeerFromRoom
  <2>3. \A q \in Room \ {r} : c \notin members[q]
    BY <2>1 DEF MembersAgree
  <2>4. study' = study /\ parked' = parked
    BY <2>2 DEF ReportDeparture
  <2>5. Send(PeerLeft(c), others) \in Seq(Item)
    <3>1. PeerLeft(c) \in Frame
      BY DEF PeerLeft, Frame
    <3>. QED
      BY <2>1, <3>1, SendType
  <2>6. CASE hands' = hands /\ (work' = w \/ work' = w \o Send(PeerLeft(c), others))
                 /\ (announced[c] => ~(hands[r] # None /\ c \in hands[r].raised))
    <3>1. hands[r] # None => c \notin hands[r].raised
      BY <2>1, <2>6 DEF RaisedAreAnnounced
    <3>2. ASSUME NEW q \in Room, hands[q] # None PROVE hands[q].raised \subseteq hands[q].raised \ {c}
      BY <2>3, <3>1, <3>2 DEF HandsAreOfMembers
    <3>3. work' \in Seq(Item)
      <4>1. w \o Send(PeerLeft(c), others) \in Seq(Item)
        BY <2>5
      <4>. QED
        BY <2>6, <4>1
    <3>4. ASSUME NEW q \in Room PROVE members[q] # {c}
      BY <1>3, <2>3
    <3>. QED
      BY <2>4, <2>6, <3>2, <3>3, <3>4 DEF TypeOK
  <2>7. CASE /\ hands[r] # None /\ c \in hands[r].raised
             /\ hands' = [hands EXCEPT ![r] = Lower(hands[r], c)]
             /\ work' = w \o Send(PeerLeft(c), others) \o Send(HandState(Lower(hands[r], c)), others)
    <3>1. Lower(hands[r], c) \in Hands /\ Lower(hands[r], c).raised = hands[r].raised \ {c}
      BY <2>1, <2>7 DEF Lower, Hands, TypeOK
    <3>2. Send(HandState(Lower(hands[r], c)), others) \in Seq(Item)
      <4>1. HandState(Lower(hands[r], c)) \in Frame
        BY <3>1 DEF HandState, Frame
      <4>. QED
        BY <2>1, <4>1, SendType
    <3>3. work' \in Seq(Item)
      BY <2>5, <2>7, <3>2
    <3>4. hands' \in [Room -> Hands \cup {None}]
      BY <2>1, <2>7, <3>1 DEF TypeOK
    <3>5. ASSUME NEW q \in Room, hands'[q] # None
          PROVE  hands[q] # None /\ hands'[q].raised \subseteq hands[q].raised \ {c}
      BY <2>1, <2>3, <2>7, <3>1, <3>5 DEF TypeOK, HandsAreOfMembers
    <3>. QED
      BY <1>3, <2>1, <2>3, <2>4, <2>7, <3>3, <3>4, <3>5 DEF TypeOK
  <2>. QED
    BY <2>2, <2>6, <2>7 DEF ReportDeparture
<1>. QED
  BY <1>1, <1>2, <1>3

\* A departure, by request or by a closed connection, keeps the maps in
\* agreement, whatever else the handler does to connections and queues.
LEMMA RemoveKeeps ==
  ASSUME TypeOK, Maps, NEW c \in Conn, NEW w \in Seq(Item), NEW b \in BOOLEAN,
         RemovePeerFromRoom(c, w, b),
         \A d \in Conn \ {c} : conn'[d] = conn[d]
  PROVE  Maps'
<1>1. /\ roomOf' = [roomOf EXCEPT ![c] = None]
      /\ \A d \in Conn \ {c} : role'[d] = role[d] /\ announced'[d] = announced[d]
      /\ members' = [r \in Room |-> members[r] \ {c}]
  BY RemoveShape DEF Maps
<1>2. /\ \A r \in Room : /\ study[r] = None => study'[r] = None
                         /\ hands'[r] # None =>
                              hands[r] # None /\ hands'[r].raised \subseteq hands[r].raised \ {c}
                         /\ members[r] = {c} => study'[r] = None /\ hands'[r] = None
      /\ \A p \in parked' : members[p.room] = {c} \/ \E q \in parked : q.room = p.room
      /\ parked' \subseteq Parked
  BY RemoveForgets DEF Maps
<1>3. OneSessionPerParticipant'
  BY <1>1 DEF Maps, OneSessionPerParticipant
<1>4. MembersAgree'
  BY <1>1, RoomAssumption DEF Maps, MembersAgree, TypeOK
<1>5. HandsAreOfMembers'
  BY <1>1, <1>2 DEF Maps, HandsAreOfMembers
<1>6. RaisedAreAnnounced'
  <2>. SUFFICES ASSUME NEW r \in Room, hands'[r] # None, NEW d \in hands'[r].raised
                PROVE  announced'[d]
    BY DEF RaisedAreAnnounced
  <2>1. hands[r] # None /\ d \in hands[r].raised /\ d # c
    BY <1>2
  <2>2. d \in Conn
    BY <2>1 DEF TypeOK, Maps, HandsAreOfMembers
  <2>. QED
    BY <1>1, <2>1, <2>2 DEF Maps, RaisedAreAnnounced
<1>7. EmptyRoomsAreGone'
  BY <1>1, <1>2 DEF Maps, EmptyRoomsAreGone
<1>8. ParkedRoomsAreEmpty'
  <2>. SUFFICES ASSUME NEW p \in parked' PROVE members'[p.room] = {}
    BY DEF ParkedRoomsAreEmpty
  <2>1. p.room \in Room
    BY <1>2 DEF Parked
  <2>2. members[p.room] \subseteq {c}
    BY <1>2 DEF Maps, ParkedRoomsAreEmpty
  <2>. QED
    BY <1>1, <2>1, <2>2
<1>. QED
  BY <1>3, <1>4, <1>5, <1>6, <1>7, <1>8 DEF Maps

\* A closed connection: disconnectLocked keeps types and maps.
LEMMA DisconnectKeeps ==
  ASSUME TypeOK, Maps, NEW c \in Conn, NEW w \in Seq(Item), Disconnect(c, w),
         then' \in Continuation
  PROVE  TypeOK' /\ Maps'
<1>1. RemovePeerFromRoom(c, w, FALSE)
  BY DEF Disconnect
<1>2. /\ conn' = [conn EXCEPT ![c] = "gone"]
      /\ load' = [load EXCEPT ![c] = IF inFlight[c] THEN 1 ELSE 0]
      /\ UNCHANGED <<running, sequence, order, expired, inFlight, calls>>
  BY DEF Disconnect
<1>3. \A d \in Conn \ {c} : conn'[d] = conn[d]
  BY <1>2 DEF TypeOK
<1>4. Maps'
  BY <1>1, <1>3, RemoveKeeps
<1>5. /\ roomOf' = [roomOf EXCEPT ![c] = None] /\ role' \in [Conn -> Role \cup {None}]
      /\ announced' \in [Conn -> BOOLEAN] /\ members' = [r \in Room |-> members[r] \ {c}]
      /\ told' \in [Conn -> Told]
  BY <1>1, RemoveShape DEF Maps
<1>6. /\ study' \in [Room -> Nat \cup {None}] /\ hands' \in [Room -> Hands \cup {None}]
      /\ parked' \subseteq Parked /\ work' \in Seq(Item)
  BY <1>1, RemoveForgets DEF Maps
<1>7. /\ roomOf' \in [Conn -> Room \cup {None}] /\ members' \in [Room -> SUBSET Conn]
  BY <1>5 DEF TypeOK
<1>8. /\ conn' \in [Conn -> {"new", "open", "gone"}] /\ load' \in [Conn -> Nat]
  BY <1>2 DEF TypeOK
<1>9. /\ running' \in BOOLEAN /\ sequence' \in Nat /\ order' \in [Conn -> Nat]
      /\ expired' \in [Conn -> BOOLEAN] /\ inFlight' \in [Conn -> BOOLEAN] /\ calls' \in Nat
  BY <1>2 DEF TypeOK
<1>. QED
  BY <1>4, <1>5, <1>6, <1>7, <1>8, <1>9 DEF TypeOK

\* A departure leaves the running handler with what it relies on.
LEMMA RemoveFits ==
  ASSUME Consistent, NEW c \in Conn, NEW w \in Seq(Item), NEW b \in BOOLEAN,
         RemovePeerFromRoom(c, w, b),
         \A d \in Conn \ {c} : conn'[d] = conn[d],
         conn'[c] = "open" => then = Done,
         then' = then
  PROVE  ContinuationFits'
<1>1. /\ roomOf' = [roomOf EXCEPT ![c] = None]
      /\ announced' \in [Conn -> BOOLEAN]
      /\ \A d \in Conn \ {c} : announced'[d] = announced[d]
      /\ roomOf[c] # None => announced'[c] = FALSE
      /\ roomOf[c] = None => announced' = announced
      /\ members' = [r \in Room |-> members[r] \ {c}]
  BY RemoveShape DEF Consistent, Maps
<1>2. \A d \in Conn : roomOf'[d] = IF d = c THEN None ELSE roomOf[d]
  BY <1>1 DEF Consistent, TypeOK
<1>3. \A d \in Conn : announced'[d] => roomOf'[d] # None
  BY <1>1, <1>2 DEF Consistent, ContinuationFits
<1>4. \A d \in Conn : roomOf'[d] # None /\ ~announced'[d] => then' = [op |-> "announce", peer |-> d]
  BY <1>1, <1>2 DEF Consistent, ContinuationFits
<1>5. ASSUME then.op = "join"
      PROVE  roomOf'[then.peer] = None /\ SameParticipant(then.peer, then.room)' = {}
  <2>1. then.peer \in Conn /\ then.room \in Room
    BY <1>5 DEF Consistent, TypeOK, Continuation
  <2>2. roomOf[then.peer] = None /\ SameParticipant(then.peer, then.room) = {}
    BY <1>5 DEF Consistent, ContinuationFits
  <2>. QED
    BY <1>1, <1>2, <2>1, <2>2 DEF SameParticipant
<1>6. ASSUME then.op = "announce", conn'[then.peer] = "open"
      PROVE  roomOf'[then.peer] # None
  <2>1. then.peer \in Conn
    BY <1>6 DEF Consistent, TypeOK, Continuation
  <2>2. then.peer # c
    BY <1>6 DEF Done
  <2>. QED
    BY <1>2, <1>6, <2>1, <2>2 DEF Consistent, ContinuationFits
<1>. QED
  BY <1>3, <1>4, <1>5, <1>6 DEF ContinuationFits, SameParticipant

\* A closed connection keeps the whole invariant when the handler goes on.
LEMMA DisconnectFits ==
  ASSUME Consistent, NEW c \in Conn, NEW w \in Seq(Item), Disconnect(c, w), then' = then
  PROVE  Consistent'
<1>1. then' \in Continuation
  BY DEF Consistent, TypeOK
<1>2. TypeOK' /\ Maps'
  BY <1>1, DisconnectKeeps DEF Consistent
<1>3. /\ RemovePeerFromRoom(c, w, FALSE) /\ \A d \in Conn \ {c} : conn'[d] = conn[d]
      /\ conn'[c] = "gone"
  BY DEF Disconnect, Consistent, TypeOK
<1>4. ContinuationFits'
  BY <1>3, RemoveFits
<1>. QED
  BY <1>2, <1>4 DEF Consistent

-----------------------------------------------------------------------------
(* Steps that leave the rooms alone                                        *)

\* Steps that only move frames, leases or the running handler's list.
LEMMA QuietMaps ==
  ASSUME Maps, UNCHANGED <<conn, roomOf, role, announced, members, hands, parked>>,
         \A r \in Room : members[r] = {} => study'[r] = study[r]
  PROVE  Maps'
<1>1. OneSessionPerParticipant' /\ MembersAgree' /\ HandsAreOfMembers'
  BY DEF Maps, OneSessionPerParticipant, MembersAgree, HandsAreOfMembers
<1>2. RaisedAreAnnounced' /\ EmptyRoomsAreGone' /\ ParkedRoomsAreEmpty'
  BY DEF Maps, RaisedAreAnnounced, EmptyRoomsAreGone, ParkedRoomsAreEmpty
<1>. QED
  BY <1>1, <1>2 DEF Maps

\* The handler goes on, or starts or ends one that is not about to join.
LEMMA QuietFits ==
  ASSUME ContinuationFits, UNCHANGED <<conn, roomOf, announced, members>>,
         then' = then \/ (then.op # "announce" /\ then'.op \notin {"join", "announce"})
  PROVE  ContinuationFits'
<1>1. CASE then' = then
  BY <1>1 DEF ContinuationFits, SameParticipant
<1>2. CASE then.op # "announce" /\ then'.op \notin {"join", "announce"}
  BY <1>2 DEF ContinuationFits
<1>. QED
  BY <1>1, <1>2

-----------------------------------------------------------------------------
(* Joining a room                                                          *)

LEMMA StudyOnEntryType ==
  ASSUME TypeOK, NEW r \in Room, NEW saved \in Nat \cup {None}
  PROVE  StudyOnEntry(r, saved) \in Nat \cup {None}
<1>. DEFINE own == IF study[r] # None THEN study[r] ELSE saved
            kept == {p \in parked : p.room = r /\ p.retained}
<1>1. own \in Nat \cup {None}
  BY DEF TypeOK
<1>2. CASE kept # {}
  <2>1. (CHOOSE p \in kept : TRUE) \in kept
    BY <1>2
  <2>2. (CHOOSE p \in kept : TRUE).study \in Nat
    BY <2>1 DEF TypeOK, Parked
  <2>. QED
    BY <1>1, <2>2 DEF StudyOnEntry
<1>3. CASE kept = {}
  BY <1>1, <1>3 DEF StudyOnEntry
<1>. QED
  BY <1>2, <1>3

\* A connection that is in no room, and whose participant is not in room r,
\* enters r or finds it full.
LEMMA EnterKeeps ==
  ASSUME TypeOK, Maps, NEW c \in Conn, NEW r \in Room, NEW as \in Role,
         NEW saved \in Nat \cup {None}, EnterRoom(c, r, as, saved),
         conn[c] = "open", roomOf[c] = None, SameParticipant(c, r) = {},
         \A d \in Conn : announced[d] <=> roomOf[d] # None
  PROVE  Consistent'
<1>1. /\ study' = [study EXCEPT ![r] = StudyOnEntry(r, saved)]
      /\ parked' = {p \in parked : p.room # r}
      /\ UNCHANGED <<running, conn, sequence, order, expired, announced, hands, load, inFlight, calls, told>>
  BY DEF EnterRoom, lineVars
<1>2. StudyOnEntry(r, saved) \in Nat \cup {None}
  BY StudyOnEntryType
<1>3. /\ study' \in [Room -> Nat \cup {None}] /\ parked' \subseteq Parked
      /\ \A q \in Room \ {r} : study'[q] = study[q]
  BY <1>1, <1>2 DEF TypeOK
<1>4. CASE Cardinality(members[r]) >= MaxRoomSize
  <2>1. work' = Refusal(c) /\ then' = Done /\ UNCHANGED <<roomOf, role, members>>
    BY <1>4 DEF EnterRoom
  <2>2. Notice("error") \in Frame
    BY DEF Notice, Frame
  <2>3. work' \in Seq(Item) /\ then' \in Continuation
    BY <2>1, <2>2, SendType DEF Refusal, Continuation, Done
  <2>4. TypeOK'
    BY <1>1, <1>3, <2>1, <2>3 DEF TypeOK
  <2>5. members[r] # {}
    BY <1>4, FS_EmptySet, LimitAssumption
  <2>6. OneSessionPerParticipant' /\ MembersAgree' /\ HandsAreOfMembers' /\ RaisedAreAnnounced'
    BY <1>1, <2>1 DEF Maps, OneSessionPerParticipant, MembersAgree, HandsAreOfMembers, RaisedAreAnnounced
  <2>7. EmptyRoomsAreGone' /\ ParkedRoomsAreEmpty'
    BY <1>1, <1>3, <2>1, <2>5 DEF Maps, EmptyRoomsAreGone, ParkedRoomsAreEmpty
  <2>8. ContinuationFits'
    BY <1>1, <2>1 DEF ContinuationFits, Done
  <2>. QED
    BY <2>4, <2>6, <2>7, <2>8 DEF Consistent, Maps
<1>5. CASE ~(Cardinality(members[r]) >= MaxRoomSize)
  <2>1. /\ roomOf' = [roomOf EXCEPT ![c] = r]
        /\ role' = [role EXCEPT ![c] = as]
        /\ members' = [members EXCEPT ![r] = @ \cup {c}]
        /\ work' = Send([kind |-> "room.joined", peers |-> members[r]], {c})
        /\ then' = [op |-> "announce", peer |-> c]
    BY <1>5 DEF EnterRoom
  <2>2. [kind |-> "room.joined", peers |-> members[r]] \in Frame
    BY DEF TypeOK, Frame
  <2>3. work' \in Seq(Item) /\ then' \in Continuation
    BY <2>1, <2>2, SendType DEF Continuation
  <2>4. /\ roomOf' \in [Conn -> Room \cup {None}] /\ role' \in [Conn -> Role \cup {None}]
        /\ members' \in [Room -> SUBSET Conn]
    BY <2>1 DEF TypeOK
  <2>5. TypeOK'
    BY <1>1, <1>3, <2>3, <2>4 DEF TypeOK
  <2>6. /\ \A d \in Conn : roomOf'[d] = IF d = c THEN r ELSE roomOf[d]
        /\ \A d \in Conn \ {c} : role'[d] = role[d]
        /\ role'[c] = as
        /\ \A q \in Room : members'[q] = IF q = r THEN members[r] \cup {c} ELSE members[q]
    BY <2>1 DEF TypeOK
  <2>7. as # None
    BY NoneAssumption DEF Role
  <2>8. OneSessionPerParticipant'
    <3>1. \A d \in members[r] : Owner[d] # None => Owner[d] # Owner[c]
      BY DEF SameParticipant
    <3>. QED
      BY <2>6, <3>1 DEF Maps, OneSessionPerParticipant
  <2>9. MembersAgree'
    <3>1. ASSUME NEW d \in Conn, NEW q \in Room PROVE d \in members'[q] <=> roomOf'[d] = q
      <4>1. d \in members[q] <=> roomOf[d] = q
        BY DEF Maps, MembersAgree
      <4>2. None # q
        BY RoomAssumption
      <4>. QED
        BY <2>6, <4>1, <4>2
    <3>2. ASSUME NEW d \in Conn, roomOf'[d] # None PROVE conn'[d] = "open" /\ role'[d] # None
      BY <1>1, <2>6, <2>7, <3>2 DEF Maps, MembersAgree
    <3>. QED
      BY <3>1, <3>2 DEF MembersAgree
  <2>10. HandsAreOfMembers' /\ RaisedAreAnnounced'
    BY <1>1, <2>6 DEF Maps, HandsAreOfMembers, RaisedAreAnnounced
  <2>11. EmptyRoomsAreGone'
    BY <1>1, <1>3, <2>6 DEF Maps, EmptyRoomsAreGone
  <2>12. ParkedRoomsAreEmpty'
    BY <1>1, <1>3, <2>6 DEF Maps, ParkedRoomsAreEmpty, Parked, TypeOK
  <2>13. ContinuationFits'
    BY <1>1, <2>1, <2>6, RoomAssumption DEF ContinuationFits
  <2>. QED
    BY <2>5, <2>8, <2>9, <2>10, <2>11, <2>12, <2>13 DEF Consistent, Maps
<1>. QED
  BY <1>4, <1>5

\* What holds while no handler runs: everybody in a room is announced.
LEMMA AtRest ==
  ASSUME TypeOK, ContinuationFits, then.op # "announce"
  PROVE  \A d \in Conn : announced[d] <=> roomOf[d] # None
BY DEF TypeOK, ContinuationFits

-----------------------------------------------------------------------------
(* Every step keeps the invariant                                          *)

LEMMA EnqueueOneKeeps ==
  ASSUME Consistent, NEW c \in Conn, EnqueueOne(c)
  PROVE  Consistent'
<1>1. /\ work \in Seq(Item) /\ work # <<>> /\ then' = then
      /\ TypeOK
  BY DEF EnqueueOne, Consistent, TypeOK
<1>2. Without(c) \in Seq(Item)
  BY <1>1, WithoutType
<1>3. CASE SkipDisconnected(c)
  <2>1. /\ work' = Without(c)
        /\ UNCHANGED <<running, conn, sequence, order, expired, roomOf, role, announced, members,
                       study, hands, parked, load, inFlight, calls, told>>
    BY <1>3 DEF SkipDisconnected, peerVars, roomVars, lineVars
  <2>2. TypeOK'
    BY <1>1, <1>2, <2>1 DEF TypeOK
  <2>3. Maps'
    BY <2>1, QuietMaps DEF Consistent
  <2>4. ContinuationFits'
    BY <1>1, <2>1, QuietFits DEF Consistent
  <2>. QED
    BY <2>2, <2>3, <2>4 DEF Consistent
<1>4. CASE CloseExpiredTarget(c)
  BY <1>1, <1>2, <1>4, DisconnectFits DEF CloseExpiredTarget
<1>5. CASE CloseOverflowingTarget(c)
  BY <1>1, <1>2, <1>5, DisconnectFits DEF CloseOverflowingTarget
<1>6. CASE CloseVictim(c)
  <2>1. PICK v \in Conn : Disconnect(v, IF v = c THEN Without(c) ELSE work)
    BY <1>6 DEF CloseVictim, Victims, Candidates
  <2>2. (IF v = c THEN Without(c) ELSE work) \in Seq(Item)
    BY <1>1, <1>2
  <2>. QED
    BY <1>1, <2>1, <2>2, DisconnectFits
<1>7. CASE Accept(c)
  <2>1. /\ load' = [load EXCEPT ![c] = @ + 1]
        /\ told' = [told EXCEPT ![c] = Tell(@, Head(work).frame)]
        /\ work' = Without(c)
        /\ UNCHANGED <<running, conn, sequence, order, expired, roomOf, role, announced, members,
                       study, hands, parked, inFlight, calls>>
    BY <1>7 DEF Accept, peerVars, roomVars
  <2>2. Tell(told[c], Head(work).frame) \in Told
    <3>1. Head(work) \in Item
      BY <1>1
    <3>2. Head(work).frame \in Frame /\ told[c] \in Told
      BY <1>1, <3>1 DEF Item, TypeOK
    <3>. QED
      BY <3>2, TellType
  <2>3. told' \in [Conn -> Told] /\ load' \in [Conn -> Nat]
    BY <1>1, <2>1, <2>2 DEF TypeOK
  <2>4. TypeOK'
    BY <1>1, <1>2, <2>1, <2>3 DEF TypeOK
  <2>5. Maps'
    BY <2>1, QuietMaps DEF Consistent
  <2>6. ContinuationFits'
    BY <1>1, <2>1, QuietFits DEF Consistent
  <2>. QED
    BY <2>4, <2>5, <2>6 DEF Consistent
<1>. QED
  BY <1>3, <1>4, <1>5, <1>6, <1>7 DEF EnqueueOne

\* Each step of the server keeps the invariant: a member joins.
LEMMA JoinKeeps ==
  ASSUME Consistent, NEW c \in Conn, NEW r \in Room, NEW as \in Role, Join(c, r, as)
  PROVE  Consistent'
<1>1. /\ then = Done /\ work = <<>> /\ conn[c] = "open" /\ roomOf[c] = None
      /\ TypeOK /\ Maps /\ ContinuationFits
  BY DEF Join, Serving, Idle, Consistent
<1>2. \A d \in Conn : announced[d] <=> roomOf[d] # None
  BY <1>1, AtRest DEF Done
<1>3. <<>> \in Seq(Item)
  OBVIOUS
<1>4. CASE SameParticipant(c, r) = {} /\ EnterRoom(c, r, as, None)
  BY <1>1, <1>2, <1>4, EnterKeeps
<1>5. CASE SameParticipant(c, r) # {} /\ Supersede(c, r, as)
  <2>1. PICK e \in SameParticipant(c, r) :
          IF order[c] < order[e]
          THEN Disconnect(c, <<>>) /\ UNCHANGED then
          ELSE /\ Disconnect(e, <<>>)
               /\ then' = [op |-> "join", peer |-> c, room |-> r, role |-> as, study |-> study[r]]
    BY <1>5 DEF Supersede
  <2>2. e \in Conn /\ e \in members[r] /\ Owner[e] # None /\ Owner[e] = Owner[c] /\ e # c
    <3>1. e \in members[r] /\ e \in Conn
      BY <1>1 DEF SameParticipant, TypeOK
    <3>2. roomOf[e] = r
      BY <1>1, <3>1 DEF Maps, MembersAgree
    <3>. QED
      BY <1>1, <3>1, <3>2, RoomAssumption DEF SameParticipant
  <2>3. CASE order[c] < order[e]
    BY <1>3, <2>1, <2>3, DisconnectFits
  <2>4. CASE ~(order[c] < order[e])
    <3>1. /\ Disconnect(e, <<>>)
          /\ then' = [op |-> "join", peer |-> c, room |-> r, role |-> as, study |-> study[r]]
      BY <2>1, <2>4
    <3>2. then' \in Continuation
      BY <1>1, <3>1 DEF Continuation, TypeOK
    <3>3. TypeOK' /\ Maps'
      BY <1>1, <1>3, <2>2, <3>1, <3>2, DisconnectKeeps
    <3>4. /\ roomOf' = [roomOf EXCEPT ![e] = None]
          /\ announced'[e] = FALSE
          /\ \A d \in Conn \ {e} : announced'[d] = announced[d]
          /\ members' = [q \in Room |-> members[q] \ {e}]
      <4>1. RemovePeerFromRoom(e, <<>>, FALSE)
        BY <3>1 DEF Disconnect
      <4>2. roomOf[e] # None
        BY <1>1, <2>2, RoomAssumption DEF Maps, MembersAgree
      <4>. QED
        BY <1>1, <1>3, <2>2, <4>1, <4>2, RemoveShape DEF Maps
    <3>5. \A d \in Conn : roomOf'[d] = IF d = e THEN None ELSE roomOf[d]
      BY <1>1, <3>4 DEF TypeOK
    <3>6. SameParticipant(c, r)' = {}
      BY <1>1, <2>2, <3>4 DEF SameParticipant, Maps, OneSessionPerParticipant
    <3>7. ContinuationFits'
      BY <1>1, <1>2, <3>1, <3>4, <3>5, <3>6 DEF ContinuationFits, SameParticipant
    <3>. QED
      BY <3>3, <3>7 DEF Consistent
  <2>. QED
    BY <2>3, <2>4
<1>. QED
  BY <1>4, <1>5 DEF Join

\* A join that waited for the study goes on.
LEMMA ResumeJoinKeeps ==
  ASSUME Consistent, ResumeJoin
  PROVE  Consistent'
<1>1. /\ then.op = "join" /\ TypeOK /\ Maps /\ ContinuationFits
  BY DEF ResumeJoin, Consistent
<1>2. /\ then.peer \in Conn /\ then.room \in Room /\ then.role \in Role
      /\ then.study \in Nat \cup {None}
  BY <1>1 DEF TypeOK, Continuation
<1>3. \A d \in Conn : announced[d] <=> roomOf[d] # None
  BY <1>1, AtRest
<1>4. CASE conn[then.peer] = "open" /\ EnterRoom(then.peer, then.room, then.role, then.study)
  <2>1. roomOf[then.peer] = None /\ SameParticipant(then.peer, then.room) = {}
    BY <1>1 DEF ContinuationFits
  <2>. QED
    BY <1>1, <1>2, <1>3, <1>4, <2>1, EnterKeeps
<1>5. CASE /\ then' = Done
           /\ UNCHANGED <<running, peerVars, roomVars, lineVars, calls, work, told>>
  <2>1. UNCHANGED <<running, conn, sequence, order, expired, roomOf, role, announced, members,
                    study, hands, parked, load, inFlight, calls, work, told>>
    BY <1>5 DEF peerVars, roomVars, lineVars
  <2>2. TypeOK'
    BY <1>1, <1>5, <2>1 DEF TypeOK, Continuation, Done
  <2>3. Maps'
    BY <1>1, <2>1, QuietMaps
  <2>4. ContinuationFits'
    BY <1>1, <1>5, <2>1, QuietFits DEF Done
  <2>. QED
    BY <2>2, <2>3, <2>4 DEF Consistent
<1>. QED
  BY <1>4, <1>5 DEF ResumeJoin

\* A member is announced.
LEMMA AnnounceKeeps ==
  ASSUME Consistent, Announce
  PROVE  Consistent'
<1>. DEFINE c == then.peer
<1>1. /\ then.op = "announce" /\ TypeOK /\ Maps /\ ContinuationFits /\ work = <<>> /\ then' = Done
      /\ UNCHANGED <<running, conn, sequence, order, expired, roomOf, role, members, study, hands,
                     parked, load, inFlight, calls, told>>
  BY DEF Announce, Consistent, roomVars, lineVars
<1>2. c \in Conn /\ then' \in Continuation
  BY <1>1 DEF TypeOK, Continuation, Done
<1>3. CASE conn[c] = "open" /\ announced' = [announced EXCEPT ![c] = TRUE]
           /\ work' = Send(PeerJoined(c), Roommates(c))
  <2>1. roomOf[c] # None
    BY <1>1, <1>3 DEF ContinuationFits
  <2>2. PeerJoined(c) \in Frame /\ Roommates(c) \in SUBSET Conn
    BY <1>1, <1>2 DEF PeerJoined, Frame, Roommates, TypeOK
  <2>3. work' \in Seq(Item)
    BY <1>3, <2>2, SendType
  <2>4. TypeOK'
    BY <1>1, <1>2, <1>3, <2>3 DEF TypeOK
  <2>5. \A d \in Conn : announced'[d] = (announced[d] \/ d = c)
    BY <1>1, <1>3 DEF TypeOK
  <2>6. OneSessionPerParticipant' /\ MembersAgree' /\ HandsAreOfMembers'
    BY <1>1 DEF Maps, OneSessionPerParticipant, MembersAgree, HandsAreOfMembers
  <2>7. EmptyRoomsAreGone' /\ ParkedRoomsAreEmpty'
    BY <1>1 DEF Maps, EmptyRoomsAreGone, ParkedRoomsAreEmpty
  <2>8. RaisedAreAnnounced'
    BY <1>1, <2>5 DEF Maps, RaisedAreAnnounced, HandsAreOfMembers, TypeOK
  <2>9. ContinuationFits'
    <3>1. \A d \in Conn : announced'[d] => roomOf'[d] # None
      BY <1>1, <2>1, <2>5 DEF ContinuationFits
    <3>2. \A d \in Conn : roomOf'[d] # None => announced'[d]
      <4>. SUFFICES ASSUME NEW d \in Conn, roomOf[d] # None, ~announced[d] PROVE d = c
        BY <1>1, <2>5
      <4>. QED
        BY <1>1 DEF ContinuationFits
    <3>. QED
      BY <1>1, <3>1, <3>2 DEF ContinuationFits, Done
  <2>. QED
    BY <2>4, <2>6, <2>7, <2>8, <2>9 DEF Consistent, Maps
<1>4. CASE conn[c] # "open" /\ UNCHANGED <<announced, work>>
  <2>1. TypeOK'
    BY <1>1, <1>2, <1>4 DEF TypeOK
  <2>2. Maps'
    BY <1>1, <1>4, QuietMaps
  <2>3. ContinuationFits'
    <3>1. \A d \in Conn : roomOf[d] # None => announced[d]
      <4>. SUFFICES ASSUME NEW d \in Conn, roomOf[d] # None, ~announced[d] PROVE FALSE
        OBVIOUS
      <4>1. d = c
        BY <1>1 DEF ContinuationFits
      <4>. QED
        BY <1>1, <1>4, <4>1 DEF Maps, MembersAgree
    <3>. QED
      BY <1>1, <1>4, <3>1 DEF ContinuationFits, Done
  <2>. QED
    BY <2>1, <2>2, <2>3 DEF Consistent
<1>. QED
  BY <1>3, <1>4 DEF Announce

\* A step that only changes what is still to be enqueued, the reconnection ids
\* and the study of an occupied room.
LEMMA UnmovedKeeps ==
  ASSUME Consistent, Unmoved, UNCHANGED hands,
         study' \in [Room -> Nat \cup {None}],
         \A r \in Room : members[r] = {} => study'[r] = study[r],
         work' \in Seq(Item), then' \in Continuation, calls' \in Nat,
         then' = then \/ (then.op # "announce" /\ then'.op \notin {"join", "announce"})
  PROVE  Consistent'
<1>1. UNCHANGED <<running, conn, sequence, order, expired, roomOf, role, announced, members,
                  hands, parked, load, inFlight, told>>
  BY DEF Unmoved, peerVars, lineVars
<1>2. TypeOK'
  BY <1>1 DEF Consistent, TypeOK
<1>3. Maps'
  BY <1>1, QuietMaps DEF Consistent
<1>4. ContinuationFits'
  BY <1>1, QuietFits DEF Consistent
<1>. QED
  BY <1>2, <1>3, <1>4 DEF Consistent

\* A member leaves.
LEMMA LeaveKeeps ==
  ASSUME Consistent, NEW c \in Conn, Leave(c)
  PROVE  Consistent'
<1>1. /\ TypeOK /\ Maps /\ then = Done
      /\ RemovePeerFromRoom(c, <<>>, TRUE)
      /\ UNCHANGED <<running, conn, sequence, order, expired, load, inFlight, calls, then>>
  BY DEF Leave, Serving, Idle, Consistent, lineVars
<1>2. <<>> \in Seq(Item)
  OBVIOUS
<1>3. Maps'
  BY <1>1, <1>2, RemoveKeeps
<1>4. ContinuationFits'
  BY <1>1, <1>2, RemoveFits
<1>5. /\ roomOf' = [roomOf EXCEPT ![c] = None] /\ role' \in [Conn -> Role \cup {None}]
      /\ announced' \in [Conn -> BOOLEAN] /\ members' = [r \in Room |-> members[r] \ {c}]
      /\ told' \in [Conn -> Told]
  BY <1>1, <1>2, RemoveShape DEF Maps
<1>6. /\ study' \in [Room -> Nat \cup {None}] /\ hands' \in [Room -> Hands \cup {None}]
      /\ parked' \subseteq Parked /\ work' \in Seq(Item)
  BY <1>1, <1>2, RemoveForgets DEF Maps
<1>7. /\ roomOf' \in [Conn -> Room \cup {None}] /\ members' \in [Room -> SUBSET Conn]
  BY <1>1, <1>5 DEF TypeOK
<1>8. TypeOK'
  BY <1>1, <1>5, <1>6, <1>7 DEF TypeOK
<1>. QED
  BY <1>3, <1>4, <1>8 DEF Consistent

\* Commands that only answer or forward: Refuse, Relay and Moderate.
LEMMA ForwardKeeps ==
  ASSUME Consistent, NEW c \in Conn,
         Refuse(c) \/ (\E d \in Conn : Relay(c, d) \/ Moderate(c, d))
  PROVE  Consistent'
<1>1. /\ Notice("error") \in Frame /\ Notice("relay") \in Frame
      /\ Notice("moderation.media-disabled") \in Frame
  BY DEF Notice, Frame
<1>2. /\ Refusal(c) \in Seq(Item)
      /\ \A d \in Conn : /\ Send(Notice("relay"), {d}) \in Seq(Item)
                         /\ Send(Notice("moderation.media-disabled"), {d}) \in Seq(Item)
  BY <1>1, SendType DEF Refusal
<1>3. work' \in Seq(Item) /\ UNCHANGED <<study, hands, calls, then>> /\ Unmoved
  <2>1. CASE Refuse(c)
    BY <1>2, <2>1 DEF Refuse
  <2>2. ASSUME NEW d \in Conn, Relay(c, d)
        PROVE  work' \in Seq(Item) /\ UNCHANGED <<study, hands, calls, then>> /\ Unmoved
    BY <1>2, <2>2 DEF Relay
  <2>3. ASSUME NEW d \in Conn, Moderate(c, d)
        PROVE  work' \in Seq(Item) /\ UNCHANGED <<study, hands, calls, then>> /\ Unmoved
    BY <1>2, <2>3 DEF Moderate
  <2>. QED
    BY <2>1, <2>2, <2>3
<1>4. study' \in [Room -> Nat \cup {None}] /\ then' \in Continuation /\ calls' \in Nat
  BY <1>3 DEF Consistent, TypeOK
<1>. QED
  BY <1>3, <1>4, UnmovedKeeps

\* A member asks another for a new connection.
LEMMA ReconnectKeeps ==
  ASSUME Consistent, NEW c \in Conn, NEW d \in Conn, Reconnect(c, d)
  PROVE  Consistent'
<1>1. TypeOK /\ Maps /\ ContinuationFits /\ then = Done
  BY DEF Consistent, Reconnect, Serving, Idle
<1>2. <<>> \in Seq(Item)
  OBVIOUS
<1>3. CASE Disconnect(d, <<>>) /\ then' = [op |-> "refuse", peer |-> c]
  <2>1. then' \in Continuation
    BY <1>3 DEF Continuation
  <2>2. TypeOK' /\ Maps'
    BY <1>1, <1>2, <1>3, <2>1, DisconnectKeeps
  <2>3. \A e \in Conn : announced[e] <=> roomOf[e] # None
    BY <1>1, AtRest DEF Done
  <2>4. /\ roomOf' = [roomOf EXCEPT ![d] = None]
        /\ roomOf[d] # None => announced'[d] = FALSE
        /\ roomOf[d] = None => announced' = announced
        /\ \A e \in Conn \ {d} : announced'[e] = announced[e]
    <3>1. RemovePeerFromRoom(d, <<>>, FALSE)
      BY <1>3 DEF Disconnect
    <3>. QED
      BY <1>1, <1>2, <3>1, RemoveShape DEF Maps
  <2>5. \A e \in Conn : roomOf'[e] = IF e = d THEN None ELSE roomOf[e]
    BY <1>1, <2>4 DEF TypeOK
  <2>6. \A e \in Conn : announced'[e] <=> roomOf'[e] # None
    BY <2>3, <2>4, <2>5
  <2>7. ContinuationFits'
    BY <1>3, <2>6 DEF ContinuationFits
  <2>. QED
    BY <2>2, <2>7 DEF Consistent
<1>4. CASE /\ calls' = calls + 1
           /\ work' = Send(Reconnected(c, calls + 1, c >= d), {d})
           /\ then' = [op |-> "answer", peer |-> c, target |-> d, id |-> calls + 1]
           /\ UNCHANGED <<study, hands>> /\ Unmoved
  <2>1. calls' \in Nat /\ then' \in Continuation
    BY <1>1, <1>4 DEF TypeOK, Continuation
  <2>2. (c >= d) \in BOOLEAN
    OBVIOUS
  <2>3. Reconnected(c, calls + 1, c >= d) \in Frame
    BY <1>4, <2>1, <2>2 DEF Reconnected, Frame, Call
  <2>4. work' \in Seq(Item)
    BY <1>4, <2>3, SendType
  <2>5. study' \in [Room -> Nat \cup {None}]
    BY <1>1, <1>4 DEF TypeOK
  <2>. QED
    BY <1>1, <1>4, <2>1, <2>4, <2>5, UnmovedKeeps DEF Done
<1>. QED
  BY <1>3, <1>4 DEF Reconnect

\* It is answered.
LEMMA AnswerReconnectKeeps ==
  ASSUME Consistent, AnswerReconnect
  PROVE  Consistent'
<1>. DEFINE c == then.peer
            d == then.target
<1>1. /\ TypeOK /\ then.op = "answer" /\ then' = Done /\ UNCHANGED <<study, hands, calls>> /\ Unmoved
      /\ work' = IF conn[d] = "open" THEN Send(Reconnected(d, then.id, c < d), {c}) ELSE <<>>
  BY DEF Consistent, AnswerReconnect
<1>2. c \in Conn /\ d \in Conn /\ then.id \in Nat
  BY <1>1 DEF TypeOK, Continuation
<1>3. (c < d) \in BOOLEAN
  OBVIOUS
<1>4. Reconnected(d, then.id, c < d) \in Frame
  BY <1>2, <1>3 DEF Reconnected, Frame, Call
<1>5. Send(Reconnected(d, then.id, c < d), {c}) \in Seq(Item)
  BY <1>2, <1>4, SendType
<1>6. work' \in Seq(Item)
  BY <1>1, <1>5
<1>7. /\ study' \in [Room -> Nat \cup {None}] /\ then' \in Continuation /\ calls' \in Nat
      /\ then'.op \notin {"join", "announce"}
  BY <1>1 DEF TypeOK, Continuation, Done
<1>. QED
  BY <1>1, <1>6, <1>7, UnmovedKeeps

\* It is refused.
LEMMA RefuseReconnectKeeps ==
  ASSUME Consistent, RefuseReconnect
  PROVE  Consistent'
<1>1. /\ TypeOK /\ then.op = "refuse" /\ then' = Done /\ work' = Refusal(then.peer)
      /\ UNCHANGED <<study, hands, calls>> /\ Unmoved
  BY DEF Consistent, RefuseReconnect
<1>2. then.peer \in Conn
  BY <1>1 DEF TypeOK, Continuation
<1>3. Notice("error") \in Frame
  BY DEF Notice, Frame
<1>4. work' \in Seq(Item)
  BY <1>1, <1>2, <1>3, SendType DEF Refusal
<1>5. /\ study' \in [Room -> Nat \cup {None}] /\ then' \in Continuation /\ calls' \in Nat
      /\ then'.op \notin {"join", "announce"}
  BY <1>1 DEF TypeOK, Continuation, Done
<1>. QED
  BY <1>1, <1>4, <1>5, UnmovedKeeps

\* A hand is raised or lowered.
LEMMA SetHandKeeps ==
  ASSUME Consistent, NEW c \in Conn, NEW raised \in BOOLEAN, SetHand(c, raised)
  PROVE  Consistent'
<1>. DEFINE r == roomOf[c]
            h == HandQueue(r)
            changed == raised # (c \in h.raised)
            next == IF ~changed THEN h
                    ELSE [rev |-> h.rev + 1,
                          raised |-> IF raised THEN h.raised \cup {c} ELSE h.raised \ {c}]
<1>1. /\ TypeOK /\ Maps /\ ContinuationFits /\ then = Done /\ r # None
      /\ hands' = [hands EXCEPT ![r] = next]
      /\ work' = Send(HandState(next), IF changed THEN members[r] ELSE {c})
      /\ UNCHANGED <<running, conn, sequence, order, expired, roomOf, role, announced, members,
                     study, parked, load, inFlight, calls, then, told>>
  BY DEF Consistent, SetHand, Serving, Idle, Unmoved, peerVars, lineVars
<1>2. r \in Room /\ c \in members[r] /\ announced[c]
  <2>1. r \in Room
    BY <1>1 DEF TypeOK
  <2>2. announced[c]
    BY <1>1, AtRest DEF Done
  <2>. QED
    BY <1>1, <2>1, <2>2 DEF Maps, MembersAgree
<1>3. /\ h \in Hands
      /\ h.raised \subseteq members[r] /\ \A d \in h.raised : announced[d]
  <2>1. CASE hands[r] = None
    BY <2>1 DEF HandQueue, Hands
  <2>2. CASE hands[r] # None
    <3>1. h = hands[r] /\ h \in Hands
      BY <1>1, <1>2, <2>2 DEF HandQueue, TypeOK
    <3>. QED
      BY <1>1, <1>2, <2>2, <3>1 DEF Maps, HandsAreOfMembers, RaisedAreAnnounced
  <2>. QED
    BY <2>1, <2>2
<1>4. /\ next \in Hands
      /\ next.raised \subseteq members[r] /\ \A d \in next.raised : announced[d]
  <2>1. CASE ~changed
    BY <1>3, <2>1
  <2>2. CASE changed
    <3>1. next = [rev |-> h.rev + 1,
                  raised |-> IF raised THEN h.raised \cup {c} ELSE h.raised \ {c}]
      BY <2>2
    <3>. QED
      BY <1>2, <1>3, <3>1 DEF Hands
  <2>. QED
    BY <2>1, <2>2
<1>. HIDE DEF next, changed, h
<1>5. work' \in Seq(Item)
  <2>1. HandState(next) \in Frame
    BY <1>4 DEF HandState, Frame
  <2>2. (IF changed THEN members[r] ELSE {c}) \in SUBSET Conn
    BY <1>1, <1>2 DEF TypeOK
  <2>. QED
    BY <1>1, <2>1, <2>2, SendType
<1>6. /\ hands' \in [Room -> Hands \cup {None}]
      /\ \A q \in Room : hands'[q] = IF q = r THEN next ELSE hands[q]
  BY <1>1, <1>2, <1>4 DEF TypeOK
<1>7. TypeOK'
  BY <1>1, <1>5, <1>6 DEF TypeOK
<1>8. OneSessionPerParticipant' /\ MembersAgree' /\ ParkedRoomsAreEmpty'
  BY <1>1 DEF Maps, OneSessionPerParticipant, MembersAgree, ParkedRoomsAreEmpty
<1>9. HandsAreOfMembers' /\ RaisedAreAnnounced' /\ EmptyRoomsAreGone'
  BY <1>1, <1>2, <1>4, <1>6 DEF Maps, HandsAreOfMembers, RaisedAreAnnounced, EmptyRoomsAreGone
<1>10. ContinuationFits'
  BY <1>1, QuietFits
<1>. QED
  BY <1>7, <1>8, <1>9, <1>10 DEF Consistent, Maps

\* The study moves.
LEMMA StudyKeeps ==
  ASSUME Consistent, NEW c \in Conn,
         AskStudy(c) \/ (\E expected \in 0..MaxRevision : CommandStudy(c, expected))
  PROVE  Consistent'
<1>. DEFINE r == roomOf[c]
<1>1. PICK n \in Nat, S \in SUBSET Conn :
        /\ roomOf[c] # None
        /\ study' = [study EXCEPT ![r] = n]
        /\ work' = Send(StudyState(n), S)
        /\ UNCHANGED <<hands, calls, then>> /\ Unmoved
  <2>1. roomOf[c] # None => r \in Room /\ StudyRevision(r) \in Nat
    BY DEF Consistent, TypeOK, StudyRevision
  <2>2. CASE AskStudy(c)
    BY <2>1, <2>2 DEF AskStudy
  <2>3. ASSUME NEW expected \in 0..MaxRevision, CommandStudy(c, expected)
        PROVE  \E n \in Nat, S \in SUBSET Conn :
                 /\ roomOf[c] # None
                 /\ study' = [study EXCEPT ![r] = n]
                 /\ work' = Send(StudyState(n), S)
                 /\ UNCHANGED <<hands, calls, then>> /\ Unmoved
    <3>. DEFINE n == IF expected = StudyRevision(r) THEN StudyRevision(r) + 1 ELSE StudyRevision(r)
                S == IF expected = StudyRevision(r) THEN members[r] ELSE {c}
    <3>1. /\ roomOf[c] # None
          /\ study' = [study EXCEPT ![r] = n]
          /\ work' = Send(StudyState(study'[r]), S)
          /\ UNCHANGED <<hands, calls, then>> /\ Unmoved
      BY <2>3 DEF CommandStudy
    <3>2. n \in Nat /\ S \in SUBSET Conn /\ study'[r] = n
      BY <2>1, <3>1 DEF Consistent, TypeOK
    <3>. QED
      BY <3>1, <3>2
  <2>. QED
    BY <2>2, <2>3
<1>2. r \in Room /\ members[r] # {}
  <2>1. r \in Room
    BY <1>1 DEF Consistent, TypeOK
  <2>. QED
    BY <2>1 DEF Consistent, Maps, MembersAgree
<1>3. StudyState(n) \in Frame
  BY DEF StudyState, Frame
<1>4. work' \in Seq(Item)
  BY <1>1, <1>3, SendType
<1>5. /\ study' \in [Room -> Nat \cup {None}]
      /\ \A q \in Room : members[q] = {} => study'[q] = study[q]
  BY <1>1, <1>2 DEF Consistent, TypeOK
<1>6. then' \in Continuation /\ calls' \in Nat
  BY <1>1 DEF Consistent, TypeOK
<1>. QED
  BY <1>1, <1>4, <1>5, <1>6, UnmovedKeeps

\* The host gives a command.
LEMMA CommandKeeps ==
  ASSUME Consistent, NEW c \in Conn, Command(c)
  PROVE  Consistent'
BY JoinKeeps, LeaveKeeps, ForwardKeeps, ReconnectKeeps, SetHandKeeps, StudyKeeps DEF Command

\* Steps of the queues and of time do not look at the rooms.
LEMMA BackgroundKeeps ==
  ASSUME IInv,
         RetentionElapses \/ Start \/ (\E c \in Conn : LeaseExpires(c) \/ BeginSend(c) \/ EndSend(c))
  PROVE  Consistent'
<1>. DEFINE BackgroundTypes ==
              /\ running' \in BOOLEAN /\ expired' \in [Conn -> BOOLEAN]
              /\ load' \in [Conn -> Nat] /\ inFlight' \in [Conn -> BOOLEAN]
              /\ parked' \subseteq Parked
              /\ \A p \in parked' : \E q \in parked : p.room = q.room
<1>1. /\ TypeOK /\ Maps /\ ContinuationFits /\ InFlightIsCounted
  BY DEF IInv, Consistent
<1>2. UNCHANGED <<conn, sequence, order, roomOf, role, announced, members, study, hands, calls,
                  work, then, told>>
  BY DEF LeaseExpires, RetentionElapses, BeginSend, EndSend, Start, peerVars, roomVars
<1>3. BackgroundTypes
  <2>1. ASSUME NEW c \in Conn, LeaseExpires(c) PROVE BackgroundTypes
    BY <1>1, <2>1 DEF LeaseExpires, TypeOK, roomVars, lineVars
  <2>2. CASE RetentionElapses
    <3>1. PICK p \in parked : parked' = (parked \ {p}) \cup {[p EXCEPT !.retained = FALSE]}
      BY <2>2 DEF RetentionElapses
    <3>2. p \in Parked
      BY <1>1 DEF TypeOK
    <3>3. [p EXCEPT !.retained = FALSE] \in Parked /\ [p EXCEPT !.retained = FALSE].room = p.room
      BY <3>2 DEF Parked
    <3>4. UNCHANGED <<running, expired, load, inFlight>>
      BY <2>2 DEF RetentionElapses, peerVars, lineVars
    <3>. QED
      BY <1>1, <3>1, <3>3, <3>4 DEF TypeOK
  <2>3. ASSUME NEW c \in Conn, BeginSend(c) PROVE BackgroundTypes
    BY <1>1, <2>3 DEF BeginSend, TypeOK, roomVars, peerVars
  <2>4. ASSUME NEW c \in Conn, EndSend(c) PROVE BackgroundTypes
    <3>1. load[c] \in Nat /\ load[c] > 0
      BY <1>1, <2>4 DEF EndSend, InFlightIsCounted, TypeOK
    <3>2. load[c] - 1 \in Nat
      BY <3>1
    <3>. QED
      BY <1>1, <2>4, <3>2 DEF EndSend, TypeOK, roomVars, peerVars
  <2>5. CASE Start
    BY <1>1, <2>5 DEF Start, TypeOK, roomVars, peerVars, lineVars
  <2>. QED
    BY <2>1, <2>2, <2>3, <2>4, <2>5
<1>4. TypeOK'
  BY <1>1, <1>2, <1>3 DEF TypeOK
<1>5. OneSessionPerParticipant' /\ MembersAgree' /\ HandsAreOfMembers'
  BY <1>1, <1>2 DEF Maps, OneSessionPerParticipant, MembersAgree, HandsAreOfMembers
<1>6. RaisedAreAnnounced' /\ EmptyRoomsAreGone' /\ ParkedRoomsAreEmpty'
  BY <1>1, <1>2, <1>3 DEF Maps, RaisedAreAnnounced, EmptyRoomsAreGone, ParkedRoomsAreEmpty
<1>7. ContinuationFits'
  BY <1>1, <1>2, QuietFits
<1>. QED
  BY <1>4, <1>5, <1>6, <1>7 DEF Consistent, Maps

\* A connection opens.
LEMMA ConnectKeeps ==
  ASSUME Consistent, NEW c \in Conn, Connect(c)
  PROVE  Consistent'
<1>1. /\ TypeOK /\ Maps /\ ContinuationFits /\ then = Done
      /\ conn' = [conn EXCEPT ![c] = "open"]
      /\ order' = [order EXCEPT ![c] = sequence] /\ sequence' = sequence + 1
      /\ UNCHANGED <<running, expired, roomOf, role, announced, members, study, hands, parked,
                     load, inFlight, calls, work, then, told>>
  BY DEF Consistent, Connect, Idle, roomVars, lineVars
<1>2. TypeOK'
  BY <1>1 DEF TypeOK
<1>3. OneSessionPerParticipant' /\ HandsAreOfMembers' /\ RaisedAreAnnounced'
  BY <1>1 DEF Maps, OneSessionPerParticipant, HandsAreOfMembers, RaisedAreAnnounced
<1>4. MembersAgree' /\ EmptyRoomsAreGone' /\ ParkedRoomsAreEmpty'
  BY <1>1 DEF Maps, MembersAgree, EmptyRoomsAreGone, ParkedRoomsAreEmpty, TypeOK
<1>5. ContinuationFits'
  BY <1>1 DEF ContinuationFits, Done
<1>. QED
  BY <1>2, <1>3, <1>4, <1>5 DEF Consistent, Maps

\* A connection is lost.
LEMMA DropKeeps ==
  ASSUME Consistent, NEW c \in Conn, Drop(c)
  PROVE  Consistent'
<1>1. <<>> \in Seq(Item)
  OBVIOUS
<1>. QED
  BY <1>1, DisconnectFits DEF Drop

\* The server stops.
LEMMA StopKeeps ==
  ASSUME Consistent, Stop
  PROVE  Consistent'
<1>1. TypeOK /\ then = Done
  BY DEF Consistent, Stop, Idle
<1>2. TypeOK'
  BY <1>1, BlankType DEF Stop, TypeOK
<1>3. OneSessionPerParticipant' /\ MembersAgree' /\ HandsAreOfMembers'
  BY RoomAssumption DEF Stop, OneSessionPerParticipant, MembersAgree, HandsAreOfMembers
<1>4. RaisedAreAnnounced' /\ EmptyRoomsAreGone' /\ ParkedRoomsAreEmpty'
  BY DEF Stop, RaisedAreAnnounced, EmptyRoomsAreGone, ParkedRoomsAreEmpty
<1>5. ContinuationFits'
  BY <1>1 DEF Stop, ContinuationFits, Done
<1>. QED
  BY <1>2, <1>3, <1>4, <1>5 DEF Consistent, Maps

\* Only EndSend takes a counted frame away without clearing the queue, and it
\* ends the sending at the same time.
LEMMA InFlightStaysCounted ==
  ASSUME IInv, [Next]_vars
  PROVE  InFlightIsCounted'
<1>1. TypeOK /\ InFlightIsCounted
  BY DEF IInv, Consistent
<1>2. ASSUME NEW c \in Conn, NEW w \in Seq(Item), Disconnect(c, w) PROVE InFlightIsCounted'
  BY <1>1, <1>2 DEF Disconnect, InFlightIsCounted, TypeOK
<1>3. ASSUME UNCHANGED lineVars PROVE InFlightIsCounted'
  BY <1>1, <1>3 DEF InFlightIsCounted, lineVars
<1>4. ASSUME NEW c \in Conn, EnqueueOne(c) PROVE InFlightIsCounted'
  <2>1. /\ work \in Seq(Item) /\ work # <<>> /\ Without(c) \in Seq(Item)
    BY <1>1, <1>4, WithoutType DEF EnqueueOne, TypeOK
  <2>2. CASE SkipDisconnected(c)
    BY <1>3, <2>2 DEF SkipDisconnected
  <2>3. CASE CloseExpiredTarget(c) \/ CloseOverflowingTarget(c)
    BY <1>2, <2>1, <2>3 DEF CloseExpiredTarget, CloseOverflowingTarget
  <2>4. CASE CloseVictim(c)
    <3>1. PICK v \in Conn : Disconnect(v, IF v = c THEN Without(c) ELSE work)
      BY <2>4 DEF CloseVictim, Victims, Candidates
    <3>2. (IF v = c THEN Without(c) ELSE work) \in Seq(Item)
      BY <2>1
    <3>. QED
      BY <1>2, <3>1, <3>2
  <2>5. CASE Accept(c)
    BY <1>1, <2>5 DEF Accept, InFlightIsCounted, TypeOK
  <2>. QED
    BY <1>4, <2>2, <2>3, <2>4, <2>5 DEF EnqueueOne
<1>5. <<>> \in Seq(Item)
  OBVIOUS
<1>6. ASSUME NEW c \in Conn, Command(c) PROVE InFlightIsCounted'
  <2>1. ASSUME NEW r \in Room, NEW as \in Role, Join(c, r, as) PROVE InFlightIsCounted'
    <3>1. CASE EnterRoom(c, r, as, None)
      BY <1>3, <3>1 DEF EnterRoom
    <3>2. CASE Supersede(c, r, as)
      <4>1. \A e \in SameParticipant(c, r) : e \in Conn
        BY <1>1 DEF SameParticipant, TypeOK
      <4>. QED
        BY <1>2, <1>5, <3>2, <4>1 DEF Supersede
    <3>. QED
      BY <2>1, <3>1, <3>2 DEF Join
  <2>2. ASSUME NEW d \in Conn, Reconnect(c, d) PROVE InFlightIsCounted'
    BY <1>2, <1>3, <1>5, <2>2 DEF Reconnect, Unmoved
  <2>3. CASE Leave(c)
    BY <1>3, <2>3 DEF Leave, lineVars
  <2>. QED
    BY <1>3, <1>6, <2>1, <2>2, <2>3
    DEF Command, Refuse, Relay, Moderate, SetHand, AskStudy, CommandStudy, Unmoved
<1>7. CASE ResumeJoin \/ Announce \/ AnswerReconnect \/ RefuseReconnect
  BY <1>3, <1>7 DEF ResumeJoin, EnterRoom, Announce, AnswerReconnect, RefuseReconnect, Unmoved
<1>8. ASSUME NEW c \in Conn, Drop(c) PROVE InFlightIsCounted'
  BY <1>2, <1>5, <1>8 DEF Drop
<1>9. ASSUME NEW c \in Conn, BeginSend(c) \/ EndSend(c) PROVE InFlightIsCounted'
  BY <1>1, <1>9 DEF BeginSend, EndSend, InFlightIsCounted, TypeOK
<1>10. CASE Stop
  BY <1>1, <1>10 DEF Stop, InFlightIsCounted, TypeOK
<1>11. ASSUME NEW c \in Conn, Connect(c) \/ LeaseExpires(c) PROVE InFlightIsCounted'
  BY <1>3, <1>11 DEF Connect, LeaseExpires
<1>12. CASE RetentionElapses \/ Start \/ UNCHANGED vars
  BY <1>3, <1>12 DEF RetentionElapses, Start, vars
<1>. QED
  BY <1>4, <1>6, <1>7, <1>8, <1>9, <1>10, <1>11, <1>12 DEF Next, HoldingLock

-----------------------------------------------------------------------------
(* The theorems                                                            *)

LEMMA InitIInv == Init => IInv
<1>. SUFFICES ASSUME Init PROVE IInv
  OBVIOUS
<1>1. TypeOK
  BY BlankType DEF Init, TypeOK, Continuation, Done
<1>2. Maps
  BY RoomAssumption DEF Init, Maps, OneSessionPerParticipant, MembersAgree, HandsAreOfMembers,
     RaisedAreAnnounced, EmptyRoomsAreGone, ParkedRoomsAreEmpty
<1>3. ContinuationFits /\ InFlightIsCounted
  BY DEF Init, ContinuationFits, InFlightIsCounted, Done
<1>. QED
  BY <1>1, <1>2, <1>3 DEF IInv, Consistent

\* Every step keeps the invariant.
LEMMA NextIInv == IInv /\ [Next]_vars => IInv'
<1>. SUFFICES ASSUME IInv, [Next]_vars PROVE IInv'
  OBVIOUS
<1>1. Consistent
  BY DEF IInv
<1>2. Consistent'
  <2>1. CASE HoldingLock
    BY <1>1, <2>1, EnqueueOneKeeps, ResumeJoinKeeps, AnnounceKeeps, AnswerReconnectKeeps,
       RefuseReconnectKeeps DEF HoldingLock
  <2>2. CASE \E c \in Conn : Command(c) \/ Connect(c) \/ Drop(c)
    BY <1>1, <2>2, CommandKeeps, ConnectKeeps, DropKeeps
  <2>3. CASE RetentionElapses \/ Start
               \/ (\E c \in Conn : LeaseExpires(c) \/ BeginSend(c) \/ EndSend(c))
    BY <2>3, BackgroundKeeps
  <2>4. CASE Stop
    BY <1>1, <2>4, StopKeeps
  <2>5. CASE UNCHANGED vars
    <3>1. UNCHANGED <<running, conn, sequence, order, expired, roomOf, role, announced, members,
                      study, hands, parked, load, inFlight, calls, work, then, told>>
      BY <2>5 DEF vars, peerVars, roomVars, lineVars
    <3>2. TypeOK'
      BY <1>1, <3>1 DEF Consistent, TypeOK
    <3>. QED
      BY <1>1, <3>1, <3>2, QuietMaps, QuietFits DEF Consistent
  <2>. QED
    BY <2>1, <2>2, <2>3, <2>4, <2>5 DEF Next
<1>3. InFlightIsCounted'
  BY InFlightStaysCounted
<1>. QED
  BY <1>2, <1>3 DEF IInv

\* The invariant holds in every state.
LEMMA Invariance == Spec => []IInv
<1>. QED
  BY InitIInv, NextIInv, PTL DEF Spec

\* The state of the signaling service stays well typed through every handler,
\* cascade, lease expiry and restart, for any number of connections and rooms.
THEOREM TypeCorrect == Spec => []TypeOK
<1>1. IInv => TypeOK
  BY DEF IInv, Consistent
<1>. QED
  BY <1>1, Invariance, PTL

\* A BATON participant is never in a room through two connections at a time,
\* whatever the order in which its connections come, join and are replaced
\* (join, findSameBatonParticipant).
THEOREM SessionsAreUnique == Spec => []OneSessionPerParticipant
<1>1. IInv => OneSessionPerParticipant
  BY DEF IInv, Consistent, Maps
<1>. QED
  BY <1>1, Invariance, PTL

\* The maps rooms, studyStates, handQueues and parkedStudyStates and the fields
\* of every Peer agree at every point of every cascade.
THEOREM RoomsStayTidy == Spec => []RoomsAreTidy
<1>1. IInv => RoomsAreTidy
  <2>. SUFFICES ASSUME IInv PROVE RoomsAreTidy
    OBVIOUS
  <2>1. TypeOK /\ Maps /\ ContinuationFits
    BY DEF IInv, Consistent
  <2>2. AnnouncedAtRest
    BY <2>1, AtRest DEF AnnouncedAtRest, Idle, Done
  <2>. QED
    BY <2>1, <2>2 DEF Maps, RoomsAreTidy
<1>. QED
  BY <1>1, Invariance, PTL

\* A handler that goes on after a cascade finds what it checked before still
\* true: join and its announcement may use the room they looked up.
THEOREM HandlersResumeSafely == Spec => []ContinuationFits
<1>1. IInv => ContinuationFits
  BY DEF IInv, Consistent
<1>. QED
  BY <1>1, Invariance, PTL

-----------------------------------------------------------------------------
(* Which session is replaced                                               *)

\* connectionSequence tells the open connections apart.
Ordered ==
  /\ sequence \in Nat /\ order \in [Conn -> Nat]
  /\ \A c \in Conn : conn[c] = "open" => order[c] < sequence
  /\ \A c, d \in Conn : conn[c] = "open" /\ conn[d] = "open" /\ order[c] = order[d] => c = d

\* No step breaks the order.
LEMMA NextOrdered ==
  ASSUME TypeOK, Ordered, [Next]_vars
  PROVE  Ordered'
<1>1. ASSUME UNCHANGED <<sequence, order>>, \A c \in Conn : conn'[c] = "open" => conn[c] = "open"
      PROVE  Ordered'
  BY <1>1 DEF Ordered
<1>2. ASSUME NEW c \in Conn, NEW w, Disconnect(c, w) PROVE Ordered'
  BY <1>1, <1>2 DEF Disconnect, TypeOK
<1>3. ASSUME UNCHANGED <<sequence, order, conn>> PROVE Ordered'
  BY <1>1, <1>3
<1>4. ASSUME NEW c \in Conn, Connect(c) PROVE Ordered'
  <2>1. /\ conn' = [conn EXCEPT ![c] = "open"] /\ order' = [order EXCEPT ![c] = sequence]
        /\ sequence' = sequence + 1 /\ conn[c] = "new"
    BY <1>4 DEF Connect
  <2>2. /\ \A d \in Conn : order'[d] = IF d = c THEN sequence ELSE order[d]
        /\ \A d \in Conn : conn'[d] = IF d = c THEN "open" ELSE conn[d]
    BY <2>1 DEF TypeOK
  <2>3. sequence' \in Nat /\ order' \in [Conn -> Nat]
    BY <2>1 DEF TypeOK
  <2>4. ASSUME NEW d \in Conn, conn'[d] = "open" PROVE order'[d] < sequence'
    BY <2>1, <2>2, <2>4 DEF Ordered
  <2>5. ASSUME NEW d \in Conn, NEW e \in Conn, conn'[d] = "open", conn'[e] = "open", order'[d] = order'[e]
        PROVE  d = e
    BY <2>2, <2>5 DEF Ordered
  <2>. QED
    BY <2>3, <2>4, <2>5 DEF Ordered
<1>5. ASSUME NEW c \in Conn, EnqueueOne(c) PROVE Ordered'
  <2>1. CASE SkipDisconnected(c) \/ Accept(c)
    BY <1>3, <2>1 DEF SkipDisconnected, Accept, peerVars
  <2>2. CASE CloseExpiredTarget(c) \/ CloseOverflowingTarget(c) \/ CloseVictim(c)
    BY <1>2, <2>2 DEF CloseExpiredTarget, CloseOverflowingTarget, CloseVictim, Victims, Candidates
  <2>. QED
    BY <1>5, <2>1, <2>2 DEF EnqueueOne
<1>6. ASSUME NEW c \in Conn, Command(c) PROVE Ordered'
  <2>1. ASSUME NEW r \in Room, NEW as \in Role, Join(c, r, as) PROVE Ordered'
    <3>1. CASE EnterRoom(c, r, as, None)
      BY <1>3, <3>1 DEF EnterRoom
    <3>2. CASE Supersede(c, r, as)
      <4>1. \A e \in SameParticipant(c, r) : e \in Conn
        BY DEF SameParticipant, TypeOK
      <4>. QED
        BY <1>2, <3>2, <4>1 DEF Supersede
    <3>. QED
      BY <2>1, <3>1, <3>2 DEF Join
  <2>2. ASSUME NEW d \in Conn, Reconnect(c, d) PROVE Ordered'
    BY <1>2, <1>3, <2>2 DEF Reconnect, Unmoved, peerVars
  <2>3. CASE Leave(c)
    BY <1>3, <2>3 DEF Leave
  <2>. QED
    BY <1>3, <1>6, <2>1, <2>2, <2>3
    DEF Command, Refuse, Relay, Moderate, SetHand, AskStudy, CommandStudy, Unmoved, peerVars
<1>7. CASE ResumeJoin \/ Announce \/ AnswerReconnect \/ RefuseReconnect
  BY <1>3, <1>7 DEF ResumeJoin, EnterRoom, Announce, AnswerReconnect, RefuseReconnect, Unmoved, peerVars
<1>8. ASSUME NEW c \in Conn, Drop(c) PROVE Ordered'
  BY <1>2, <1>8 DEF Drop
<1>9. CASE Stop
  BY <1>1, <1>9 DEF Stop, TypeOK
<1>10. ASSUME NEW c \in Conn, LeaseExpires(c) \/ BeginSend(c) \/ EndSend(c) PROVE Ordered'
  BY <1>3, <1>10 DEF LeaseExpires, BeginSend, EndSend, peerVars
<1>11. CASE RetentionElapses \/ Start \/ UNCHANGED vars
  BY <1>3, <1>11 DEF RetentionElapses, Start, vars, peerVars
<1>. QED
  BY <1>4, <1>5, <1>6, <1>7, <1>8, <1>9, <1>10, <1>11 DEF Next, HoldingLock

\* Only join, when it replaces a session, goes on as a join.
LEMMA OnlySupersedeResumes ==
  ASSUME [Next]_vars, then.op # "join", then'.op = "join"
  PROVE  \E c \in Conn, r \in Room, as \in Role : Join(c, r, as) /\ Supersede(c, r, as)
<1>1. then' # then
  OBVIOUS
<1>2. ASSUME NEW c \in Conn, Command(c), ~\E r \in Room, as \in Role : Join(c, r, as)
      PROVE  FALSE
  <2>1. ASSUME NEW d \in Conn PROVE ~Reconnect(c, d)
    <3>1. [op |-> "refuse", peer |-> c].op # "join"
      OBVIOUS
    <3>2. [op |-> "answer", peer |-> c, target |-> d, id |-> calls + 1].op # "join"
      OBVIOUS
    <3>. QED
      BY <3>1, <3>2 DEF Reconnect
  <2>2. UNCHANGED then
    BY <1>2, <2>1 DEF Command, Leave, Refuse, Relay, Moderate, SetHand, AskStudy, CommandStudy
  <2>. QED
    BY <1>1, <2>2
<1>3. ASSUME NEW c \in Conn, NEW r \in Room, NEW as \in Role, EnterRoom(c, r, as, None)
      PROVE  FALSE
  <2>1. Done.op # "join" /\ [op |-> "announce", peer |-> c].op # "join"
    BY DEF Done
  <2>2. then' = Done \/ then' = [op |-> "announce", peer |-> c]
    BY <1>3 DEF EnterRoom
  <2>. QED
    BY <2>1, <2>2
<1>4. ~HoldingLock
  BY <1>1 DEF HoldingLock, EnqueueOne, ResumeJoin, Announce, AnswerReconnect, RefuseReconnect, Done
<1>5. \E c \in Conn : Command(c)
  BY <1>1, <1>4 DEF Next, Connect, Drop, LeaseExpires, RetentionElapses, BeginSend, EndSend, Stop, Start, vars
<1>. QED
  BY <1>2, <1>3, <1>5 DEF Join

\* A session is replaced only by a newer connection of the same participant
\* (join compares connectionSequence before it closes the session it found).
THEOREM NewestSessionStays == Spec => OnlyNewerReplaces
<1>. DEFINE Replaces ==
       then.op # "join" /\ then'.op = "join" =>
         \A e \in Conn : roomOf[e] = then'.room /\ roomOf'[e] # then'.room =>
           Owner[e] = Owner[then'.peer] /\ order[e] < order[then'.peer]
<1>1. Init => Ordered
  BY DEF Init, Ordered
<1>2. IInv /\ Ordered /\ [Next]_vars => Ordered'
  BY NextOrdered DEF IInv, Consistent
<1>3. IInv /\ Ordered /\ [Next]_vars => Replaces
  <2>. SUFFICES ASSUME IInv, Ordered, [Next]_vars, then.op # "join", then'.op = "join",
                       NEW e \in Conn, roomOf[e] = then'.room, roomOf'[e] # then'.room
                PROVE  Owner[e] = Owner[then'.peer] /\ order[e] < order[then'.peer]
    OBVIOUS
  <2>1. TypeOK /\ Maps
    BY DEF IInv, Consistent
  <2>2. PICK c \in Conn, r \in Room, as \in Role : Join(c, r, as) /\ Supersede(c, r, as)
    BY OnlySupersedeResumes
  <2>3. then = Done
    BY <2>2 DEF Join, Serving, Idle
  <2>4. PICK f \in SameParticipant(c, r) :
          /\ ~(order[c] < order[f])
          /\ Disconnect(f, <<>>)
          /\ then' = [op |-> "join", peer |-> c, room |-> r, role |-> as, study |-> study[r]]
    BY <2>2, <2>3 DEF Supersede, Done
  <2>5. f \in Conn /\ f \in members[r] /\ Owner[f] = Owner[c]
    BY <2>1 DEF SameParticipant, TypeOK
  <2>6. roomOf[f] = r /\ conn[f] = "open"
    BY <2>1, <2>5, RoomAssumption DEF Maps, MembersAgree
  <2>7. roomOf[c] = None /\ conn[c] = "open"
    BY <2>2 DEF Join, Serving
  <2>8. order[f] < order[c]
    <3>1. order[f] # order[c]
      BY <2>5, <2>6, <2>7, RoomAssumption DEF Ordered
    <3>. QED
      BY <2>4, <2>5, <3>1 DEF Ordered
  <2>9. e = f
    <3>1. RemovePeerFromRoom(f, <<>>, FALSE)
      BY <2>4 DEF Disconnect
    <3>2. <<>> \in Seq(Item)
      OBVIOUS
    <3>3. roomOf' = [roomOf EXCEPT ![f] = None]
      BY <2>1, <2>5, <3>1, <3>2, RemoveShape DEF Maps
    <3>. QED
      BY <2>1, <3>3 DEF TypeOK
  <2>. QED
    BY <2>4, <2>5, <2>8, <2>9
<1>4. Spec => [][Replaces]_vars
  BY <1>1, <1>2, <1>3, Invariance, PTL DEF Spec
<1>. QED
  BY <1>4 DEF OnlyNewerReplaces

-----------------------------------------------------------------------------
(* What becomes of a study                                                 *)

\* Among finitely many entries with an age one is oldest.
LEMMA OldestExists ==
  ASSUME NEW S, IsFiniteSet(S), S # {}, \A p \in S : p.age \in Nat
  PROVE  \E p \in S : \A q \in S : q.age <= p.age
<1>. DEFINE Endless == {T \in SUBSET S : T # {} /\ \A p \in T : \E q \in T : ~(q.age <= p.age)}
<1>1. SUFFICES ASSUME S \in Endless PROVE FALSE
  OBVIOUS
<1>2. IsWellFoundedOn(StrictSubsetOrdering(S), FiniteSubsetsOf(S))
  BY FS_StrictSubsetOrderingWellFounded
<1>3. Endless \subseteq FiniteSubsetsOf(S)
  BY FS_FiniteSubsetsOfFinite
<1>4. PICK T \in Endless : \A U \in Endless : <<U, T>> \notin StrictSubsetOrdering(S)
  <2>. HIDE DEF Endless
  <2>. QED
    BY <1>1, <1>2, <1>3, WFMin
<1>5. PICK p \in T : TRUE
  OBVIOUS
<1>6. T \ {p} \notin Endless
  <2>1. <<T \ {p}, T>> \in StrictSubsetOrdering(S)
    <3>1. <<T \ {p}, T>>[1] = T \ {p} /\ <<T \ {p}, T>>[2] = T
      OBVIOUS
    <3>2. <<T \ {p}, T>> \in (SUBSET S) \X (SUBSET S)
      OBVIOUS
    <3>3. T \ {p} \subseteq T /\ T \ {p} # T
      BY <1>5
    <3>. QED
      BY <3>1, <3>2, <3>3 DEF StrictSubsetOrdering
  <2>. QED
    BY <1>4, <2>1
<1>7. PICK q \in T : ~(q.age <= p.age)
  OBVIOUS
<1>8. q \in T \ {p} /\ p.age \in Nat /\ q.age \in Nat
  BY <1>5, <1>7
<1>9. PICK m \in T \ {p} : \A x \in T \ {p} : x.age <= m.age
  BY <1>6, <1>8
<1>10. m.age \in Nat /\ q.age <= m.age
  BY <1>8, <1>9
<1>11. \A x \in T : x.age <= m.age
  BY <1>7, <1>8, <1>9, <1>10
<1>. QED
  BY <1>9, <1>11

\* parkedStudyStates holds one entry for a room, in the order of parking, and
\* no more than its limit.
ParkedInOrder ==
  /\ IsFiniteSet(parked)
  /\ Cardinality(parked) <= MaxParked
  /\ \A p, q \in parked : p.room = q.room \/ p.age = q.age => p = q

Aged(p) == [p EXCEPT !.age = @ + 1]

\* Parking keeps the order.  It adds the study as the youngest entry and gives
\* up another one only when there is no place.
LEMMA ParkKeepsOrder ==
  ASSUME NEW r \in Room, NEW n \in Nat, parked \subseteq Parked, ParkedInOrder
  PROVE  /\ IsFiniteSet(Park(r, n)) /\ Cardinality(Park(r, n)) <= MaxParked
         /\ \A p, q \in Park(r, n) : p.room = q.room \/ p.age = q.age => p = q
         /\ [room |-> r, study |-> n, retained |-> TRUE, age |-> 0] \in Park(r, n)
         /\ \A p \in parked : p.retained /\ p.room # r =>
              Aged(p) \in Park(r, n) \/ Cardinality(Park(r, n)) = MaxParked
         /\ \A p \in Park(r, n) : p.room # r =>
              \E q \in parked : q.room = p.room /\ q.study = p.study
<1>. DEFINE kept == {p \in parked : p.retained /\ p.room # r}
            aged == {Aged(p) : p \in kept}
            new == [room |-> r, study |-> n, retained |-> TRUE, age |-> 0]
            grown == aged \cup {new}
            young == {p \in grown : \E q \in grown : q.age > p.age}
            f == [p \in kept |-> Aged(p)]
<1>1. Park(r, n) = IF Cardinality(grown) <= MaxParked THEN grown ELSE young
  BY DEF Park, Aged
<1>2. IsFiniteSet(kept) /\ Cardinality(kept) <= MaxParked /\ kept \subseteq parked
  <2>1. kept \in SUBSET parked
    OBVIOUS
  <2>2. IsFiniteSet(kept) /\ Cardinality(kept) <= Cardinality(parked)
    BY <2>1, FS_Subset DEF ParkedInOrder
  <2>3. Cardinality(kept) \in Nat /\ Cardinality(parked) \in Nat /\ MaxParked \in Nat
    BY <2>2, FS_CardinalityType, LimitAssumption DEF ParkedInOrder
  <2>. QED
    BY <2>1, <2>2, <2>3 DEF ParkedInOrder
<1>3. IsFiniteSet(aged) /\ Cardinality(aged) <= MaxParked
  <2>1. f \in Surjection(kept, aged)
    <3>1. f \in [kept -> aged] /\ \A t \in aged : \E s \in kept : f[s] = t
      OBVIOUS
    <3>. QED
      BY <3>1 DEF Surjection
  <2>2. IsFiniteSet(aged) /\ Cardinality(aged) <= Cardinality(kept)
    <3>. HIDE DEF f, kept, aged
    <3>. QED
      BY <1>2, <2>1, FS_Surjection
  <2>3. Cardinality(kept) \in Nat /\ Cardinality(aged) \in Nat /\ MaxParked \in Nat
    BY <1>2, <2>2, FS_CardinalityType, LimitAssumption
  <2>. QED
    BY <1>2, <2>2, <2>3
<1>4. \A p \in parked : /\ Aged(p).room = p.room /\ Aged(p).age = p.age + 1 /\ p.age \in Nat
                        /\ Aged(p).study = p.study /\ Aged(p).retained = p.retained
  BY DEF Aged, Parked
<1>5. new \notin aged /\ \A p \in aged : p.age \in Nat /\ p.age > 0 /\ p.room # r
  BY <1>2, <1>4
<1>6. /\ IsFiniteSet(grown) /\ Cardinality(grown) = Cardinality(aged) + 1
      /\ Cardinality(aged) \in Nat /\ MaxParked \in Nat \ {0}
  <2>. HIDE DEF aged, new
  <2>. QED
    BY <1>3, <1>5, FS_AddElement, FS_CardinalityType, LimitAssumption
<1>7. \A p, q \in grown : p.room = q.room \/ p.age = q.age => p = q
  <2>1. ASSUME NEW p \in aged, NEW q \in aged, p.room = q.room \/ p.age = q.age PROVE p = q
    <3>1. PICK x \in kept : p = Aged(x)
      OBVIOUS
    <3>2. PICK y \in kept : q = Aged(y)
      OBVIOUS
    <3>3. x.room = y.room \/ x.age = y.age
      BY <1>2, <1>4, <2>1, <3>1, <3>2
    <3>. QED
      BY <1>2, <3>1, <3>2, <3>3 DEF ParkedInOrder
  <2>2. new.room = r /\ new.age = 0
    OBVIOUS
  <2>3. ASSUME NEW p \in aged PROVE p.room # new.room /\ p.age # new.age
    <3>. HIDE DEF aged, new
    <3>. QED
      BY <1>5, <2>2, <2>3
  <2>. HIDE DEF aged, new
  <2>. QED
    BY <2>1, <2>3
<1>8. \A p \in grown : p.room # r => \E q \in parked : q.room = p.room /\ q.study = p.study
  BY <1>2, <1>4
<1>9. CASE Cardinality(grown) <= MaxParked
  BY <1>1, <1>6, <1>7, <1>8, <1>9
<1>10. CASE ~(Cardinality(grown) <= MaxParked)
  <2>1. Cardinality(grown) = MaxParked + 1 /\ Cardinality(aged) > 0
    BY <1>3, <1>6, <1>10
  <2>2. \A p \in grown : p.age \in Nat
    BY <1>5
  <2>3. PICK old \in grown : \A q \in grown : q.age <= old.age
    <3>. HIDE DEF grown
    <3>1. grown # {}
      BY DEF grown
    <3>. QED
      BY <1>6, <2>2, <3>1, OldestExists
  <2>4. young = grown \ {old}
    <3>1. ASSUME NEW p \in grown, p # old PROVE old.age > p.age
      BY <1>7, <2>2, <2>3, <3>1
    <3>2. \A q \in grown : ~(q.age > old.age)
      BY <2>2, <2>3
    <3>. HIDE DEF grown
    <3>. QED
      BY <3>1, <3>2
  <2>5. IsFiniteSet(young) /\ Cardinality(young) = MaxParked
    <3>. HIDE DEF grown
    <3>1. /\ IsFiniteSet(grown \ {old})
          /\ Cardinality(grown \ {old}) = Cardinality(grown) - 1
      BY <1>6, <2>3, FS_RemoveElement
    <3>. HIDE DEF young
    <3>. QED
      BY <1>6, <2>1, <2>4, <3>1
  <2>6. new \in young
    <3>1. aged # {}
      <4>. HIDE DEF aged
      <4>. QED
        BY <2>1, FS_EmptySet
    <3>2. PICK p \in aged : p.age > 0
      BY <1>5, <3>1
    <3>. QED
      BY <3>2
  <2>. HIDE DEF grown, young, new
  <2>7. Park(r, n) = young /\ MaxParked <= MaxParked
    BY <1>1, <1>6, <1>10
  <2>. QED
    BY <1>7, <1>8, <2>4, <2>5, <2>6, <2>7 DEF new
<1>. QED
  BY <1>9, <1>10

\* What a join finds, from the studies and the parked studies.
Recall(st, pk, r) ==
  LET kept == {p \in pk : p.room = r /\ p.retained}
  IN IF st[r] = None /\ kept # {} THEN (CHOOSE p \in kept : TRUE).study ELSE st[r]

\* What a room would be entered with, looked up in the maps of now and of after.
LEMMA RememberedIs ==
  ASSUME NEW r
  PROVE  Remembered(r) = Recall(study, parked, r) /\ Remembered(r)' = Recall(study', parked', r)
BY DEF Remembered, StudyOnEntry, Recall

\* A room has its own study, or the one parked entry it has, or none.
LEMMA RecallIs ==
  ASSUME NEW st, NEW pk, NEW r, \A p, q \in pk : p.room = q.room => p = q
  PROVE  /\ st[r] # None => Recall(st, pk, r) = st[r]
         /\ \A p \in pk : st[r] = None /\ p.room = r /\ p.retained => Recall(st, pk, r) = p.study
         /\ Recall(st, pk, r) # None =>
              st[r] # None \/ \E p \in pk : p.room = r /\ p.retained /\ Recall(st, pk, r) = p.study
<1>. DEFINE kept == {p \in pk : p.room = r /\ p.retained}
<1>1. Recall(st, pk, r) = IF st[r] = None /\ kept # {} THEN (CHOOSE p \in kept : TRUE).study ELSE st[r]
  BY DEF Recall
<1>2. kept # {} => (CHOOSE p \in kept : TRUE) \in kept
  OBVIOUS
<1>. QED
  BY <1>1, <1>2

\* What StudySurvives says of room r.
GivenUp(r) ==
  \/ \E c \in Conn : members[r] = {c} /\ conn'[c] = "open" /\ members'[r] = {}
  \/ ~running'
  \/ \E p \in parked : p.room = r /\ [p EXCEPT !.retained = FALSE] \in parked'
  \/ /\ members[r] = {} /\ Cardinality(parked') = MaxParked
     /\ \E q \in parked' : q.room # r /\ q.age = 0
Survives(r) ==
  Remembered(r) # None => Remembered(r)' \in {Remembered(r), Remembered(r) + 1} \/ GivenUp(r)

\* A step that leaves the rooms alone loses no study.
LEMMA SameStudySurvives ==
  ASSUME ParkedInOrder, UNCHANGED <<study, parked>>
  PROVE  ParkedInOrder' /\ \A r \in Room : Survives(r)
<1>1. ParkedInOrder'
  BY DEF ParkedInOrder
<1>2. \A r \in Room : Recall(study', parked', r) = Recall(study, parked, r)
  OBVIOUS
<1>. QED
  BY <1>1, <1>2, RememberedIs DEF Survives

\* A departure parks the study of the room it empties.
LEMMA DepartureKeepsStudy ==
  ASSUME TypeOK, Maps, ParkedInOrder, NEW c \in Conn, NEW w, NEW b \in BOOLEAN,
         RemovePeerFromRoom(c, w, b), b => conn'[c] = "open"
  PROVE  /\ ParkedInOrder' /\ \A r \in Room : Survives(r)
         /\ \A r \in Room : study'[r] \in {study[r], None}
         /\ \A p \in parked' : \/ study[p.room] # None /\ p.study = study[p.room]
                               \/ \E q \in parked : q.room = p.room /\ q.study = p.study
<1>1. CASE UNCHANGED <<study, parked>>
  BY <1>1, SameStudySurvives
<1>2. CASE roomOf[c] # None /\ members[roomOf[c]] = {c} /\ EmptyRoom(roomOf[c], b)
  <2>0. PICK e \in Room : e = roomOf[c]
    BY <1>2 DEF TypeOK
  <2>1. members[e] = {c} /\ members'[e] = {} /\ study' = [study EXCEPT ![e] = None]
        /\ \A p \in parked : p.room # e
    BY <1>2, <2>0 DEF RemovePeerFromRoom, EmptyRoom, TypeOK, Maps, ParkedRoomsAreEmpty
  <2>2. \A r \in Room \ {e} : study'[r] = study[r]
    BY <2>1 DEF TypeOK
  <2>3. study'[e] = None
    BY <2>1 DEF TypeOK
  <2>4. CASE parked' = parked /\ (b \/ study[e] = None)
    <3>1. ParkedInOrder'
      BY <2>4 DEF ParkedInOrder
    <3>2. ASSUME NEW r \in Room, r # e \/ study[e] = None PROVE Survives(r)
      <4>1. Recall(study', parked', r) = Recall(study, parked, r)
        BY <2>2, <2>3, <2>4, <3>2 DEF Recall
      <4>. QED
        BY <4>1, RememberedIs DEF Survives
    <3>3. ASSUME b PROVE Survives(e)
      BY <2>1, <3>3 DEF Survives, GivenUp
    <3>. QED
      BY <2>2, <2>3, <2>4, <3>1, <3>2, <3>3
  <2>5. CASE study[e] # None /\ parked' = Park(e, study[e])
    <3>. DEFINE new == [room |-> e, study |-> study[e], retained |-> TRUE, age |-> 0]
    <3>1. study[e] \in Nat /\ parked \subseteq Parked
      BY <2>1, <2>5 DEF TypeOK
    <3>2. /\ ParkedInOrder' /\ new \in parked'
          /\ \A p \in parked : p.retained /\ p.room # e =>
               Aged(p) \in parked' \/ Cardinality(parked') = MaxParked
          /\ \A p \in parked' : p.room # e =>
               \E q \in parked : q.room = p.room /\ q.study = p.study
      BY <2>1, <2>5, <3>1, ParkKeepsOrder DEF ParkedInOrder
    <3>3. new.room = e /\ new.study = study[e] /\ new.retained /\ new.age = 0
      OBVIOUS
    <3>. HIDE DEF new
    <3>4. \A p, q \in parked' : p.room = q.room => p = q
      BY <3>2 DEF ParkedInOrder
    <3>5. \A p, q \in parked : p.room = q.room => p = q
      BY DEF ParkedInOrder
    <3>6. Survives(e)
      <4>1. Recall(study, parked, e) = study[e] /\ Recall(study', parked', e) = study[e]
        BY <2>3, <2>5, <3>2, <3>3, <3>4, <3>5, RecallIs
      <4>. QED
        BY <4>1, RememberedIs DEF Survives
    <3>7. ASSUME NEW r \in Room, r # e PROVE Survives(r)
      <4>1. CASE study[r] # None
        <5>1. Recall(study, parked, r) = study[r] /\ Recall(study', parked', r) = study[r]
          BY <2>2, <3>4, <3>5, <3>7, <4>1, RecallIs
        <5>. QED
          BY <5>1, RememberedIs DEF Survives
      <4>2. ASSUME study[r] = None, NEW p \in parked, p.room = r, p.retained,
                   Recall(study, parked, r) = p.study
            PROVE  Survives(r)
        <5>1. Aged(p).room = r /\ Aged(p).retained /\ Aged(p).study = p.study
          BY <3>1, <4>2 DEF Aged, Parked
        <5>2. CASE Aged(p) \in parked'
          <6>1. Recall(study', parked', r) = p.study
            BY <2>2, <3>4, <3>7, <4>2, <5>1, <5>2, RecallIs
          <6>. QED
            BY <4>2, <6>1, RememberedIs DEF Survives
        <5>3. CASE Cardinality(parked') = MaxParked
          <6>1. members[r] = {} /\ new.room # r
            BY <3>3, <3>7, <4>2 DEF Maps, ParkedRoomsAreEmpty
          <6>. QED
            BY <3>2, <3>3, <5>3, <6>1 DEF Survives, GivenUp
        <5>. QED
          BY <3>2, <3>7, <4>2, <5>2, <5>3
      <4>. QED
        BY <3>5, <4>1, <4>2, RecallIs, RememberedIs DEF Survives
    <3>8. \A p \in parked' : p.room = e => p.study = study[e]
      BY <3>2, <3>3, <3>4
    <3>9. \A p \in parked' : \/ study[p.room] # None /\ p.study = study[p.room]
                             \/ \E q \in parked : q.room = p.room /\ q.study = p.study
      BY <2>5, <3>2, <3>8
    <3>. QED
      BY <2>2, <2>3, <3>2, <3>6, <3>7, <3>9
  <2>. QED
    BY <1>2, <2>0, <2>4, <2>5 DEF EmptyRoom
<1>. QED
  BY <1>1, <1>2 DEF RemovePeerFromRoom, roomVars, ReportDeparture

\* The study a join saved from the session it replaced is the study of its room,
\* there or parked, whatever the cascade in between did to the room.
Kept(r, saved) ==
  study[r] \in {None, saved} /\ \A p \in parked : p.room = r => p.study = saved
SavedIsCurrent == then.op = "join" /\ then.study # None => Kept(then.room, then.study)

\* A join takes the study of its room over.
LEMMA EntryKeepsParked ==
  ASSUME TypeOK, ParkedInOrder, NEW c, NEW e \in Room, NEW as, NEW saved,
         EnterRoom(c, e, as, saved), saved = None \/ Kept(e, saved)
  PROVE  ParkedInOrder' /\ \A r \in Room : Survives(r)
<1>1. study' = [study EXCEPT ![e] = StudyOnEntry(e, saved)] /\ parked' = {p \in parked : p.room # e}
  BY DEF EnterRoom
<1>2. ParkedInOrder'
  <2>1. parked' \in SUBSET parked
    BY <1>1
  <2>2. IsFiniteSet(parked') /\ Cardinality(parked') <= Cardinality(parked)
    BY <2>1, FS_Subset DEF ParkedInOrder
  <2>3. Cardinality(parked) \in Nat /\ Cardinality(parked') \in Nat /\ MaxParked \in Nat
    BY <2>2, FS_CardinalityType, LimitAssumption DEF ParkedInOrder
  <2>. QED
    BY <2>1, <2>2, <2>3 DEF ParkedInOrder
<1>3. /\ \A p, q \in parked : p.room = q.room => p = q
      /\ \A p, q \in parked' : p.room = q.room => p = q
  BY <1>1 DEF ParkedInOrder
<1>4. ASSUME NEW r \in Room, r # e PROVE Survives(r)
  <2>1. study'[r] = study[r] /\ \A p : p \in parked /\ p.room = r <=> p \in parked' /\ p.room = r
    BY <1>1, <1>4 DEF TypeOK
  <2>2. Recall(study, parked, r) # None => Recall(study', parked', r) = Recall(study, parked, r)
    BY <1>3, <2>1, RecallIs
  <2>. QED
    BY <2>2, RememberedIs DEF Survives
<1>5. Survives(e)
  <2>1. study'[e] = StudyOnEntry(e, saved)
    BY <1>1 DEF TypeOK
  <2>2. ASSUME Recall(study, parked, e) # None PROVE StudyOnEntry(e, saved) = Recall(study, parked, e)
    <3>. DEFINE kept == {p \in parked : p.room = e /\ p.retained}
                own == IF study[e] # None THEN study[e] ELSE saved
    <3>1. StudyOnEntry(e, saved) =
            IF own = None /\ kept # {} THEN (CHOOSE p \in kept : TRUE).study ELSE own
      BY DEF StudyOnEntry
    <3>2. CASE study[e] # None
      <4>1. Recall(study, parked, e) = study[e]
        BY <1>3, <3>2, RecallIs
      <4>. QED
        BY <3>1, <3>2, <4>1
    <3>3. CASE study[e] = None
      <4>1. PICK p \in parked : p.room = e /\ p.retained /\ Recall(study, parked, e) = p.study
        BY <1>3, <2>2, <3>3, RecallIs
      <4>2. kept = {p}
        BY <1>3, <4>1
      <4>3. (CHOOSE x \in kept : TRUE) = p
        BY <4>2
      <4>4. saved # None => saved = p.study
        BY <4>1 DEF Kept
      <4>. QED
        BY <3>1, <3>3, <4>1, <4>2, <4>3, <4>4
    <3>. QED
      BY <3>2, <3>3
  <2>3. Recall(study, parked, e) # None => Recall(study', parked', e) = Recall(study, parked, e)
    BY <1>3, <2>1, <2>2, RecallIs
  <2>. QED
    BY <2>3, RememberedIs DEF Survives
<1>. QED
  BY <1>2, <1>4, <1>5

\* A member's room has nothing parked, so its own study is all there is to lose.
LEMMA MemberKeepsStudy ==
  ASSUME TypeOK, Maps, ParkedInOrder, NEW c \in Conn, roomOf[c] # None, NEW n \in Nat,
         parked' = parked, study' = [study EXCEPT ![roomOf[c]] = n],
         study[roomOf[c]] # None => n \in {study[roomOf[c]], study[roomOf[c]] + 1}
  PROVE  ParkedInOrder' /\ \A r \in Room : Survives(r)
<1>1. PICK e \in Room : e = roomOf[c]
  BY DEF TypeOK
<1>2. ParkedInOrder' /\ \A p, q \in parked : p.room = q.room => p = q
  BY DEF ParkedInOrder
<1>3. study'[e] = n /\ (\A r \in Room \ {e} : study'[r] = study[r]) /\ n # None
  BY <1>1, NoneAssumption DEF TypeOK
<1>4. \A p \in parked : p.room # e
  BY <1>1 DEF Maps, ParkedRoomsAreEmpty, MembersAgree
<1>5. Survives(e)
  <2>1. Recall(study, parked, e) # None => study[e] # None /\ Recall(study, parked, e) = study[e]
    BY <1>2, <1>4, RecallIs
  <2>2. Recall(study', parked', e) = n
    BY <1>3 DEF Recall
  <2>3. study[e] # None => n \in {study[e], study[e] + 1}
    BY <1>1
  <2>4. Recall(study, parked, e) # None =>
          Recall(study', parked', e) \in {Recall(study, parked, e), Recall(study, parked, e) + 1}
    BY <2>1, <2>2, <2>3
  <2>. QED
    BY <2>4, RememberedIs DEF Survives
<1>6. ASSUME NEW r \in Room, r # e PROVE Survives(r)
  <2>1. Recall(study', parked', r) = Recall(study, parked, r)
    BY <1>3, <1>6 DEF Recall
  <2>. QED
    BY <2>1, RememberedIs DEF Survives
<1>. QED
  BY <1>2, <1>5, <1>6

\* Retention that elapses takes one entry out of use.
LEMMA RetentionKeepsOthers ==
  ASSUME TypeOK, ParkedInOrder, RetentionElapses
  PROVE  /\ ParkedInOrder' /\ \A r \in Room : Survives(r)
         /\ study' = study
         /\ \A p \in parked' : \E q \in parked : q.room = p.room /\ q.study = p.study
<1>1. PICK p \in parked : /\ parked' = (parked \ {p}) \cup {[p EXCEPT !.retained = FALSE]}
                          /\ study' = study
  BY DEF RetentionElapses
<1>. DEFINE lapsed == [p EXCEPT !.retained = FALSE]
<1>2. lapsed.room = p.room /\ lapsed.study = p.study /\ lapsed.age = p.age /\ ~lapsed.retained
  BY DEF TypeOK, Parked
<1>. HIDE DEF lapsed
<1>3. parked' = (parked \ {p}) \cup {lapsed}
  BY <1>1 DEF lapsed
<1>4. ParkedInOrder'
  <2>1. IsFiniteSet(parked \ {p}) /\ Cardinality(parked \ {p}) = Cardinality(parked) - 1
    BY FS_RemoveElement DEF ParkedInOrder
  <2>2. /\ IsFiniteSet(parked')
        /\ Cardinality(parked') \in {Cardinality(parked) - 1, Cardinality(parked) - 1 + 1}
    BY <1>3, <2>1, FS_AddElement
  <2>3. Cardinality(parked) \in Nat /\ MaxParked \in Nat /\ Cardinality(parked) <= MaxParked
    BY FS_CardinalityType, LimitAssumption DEF ParkedInOrder
  <2>4. Cardinality(parked') <= MaxParked
    BY <2>2, <2>3
  <2>5. \A x, y \in parked' : x.room = y.room \/ x.age = y.age => x = y
    BY <1>2, <1>3 DEF ParkedInOrder
  <2>. QED
    BY <2>2, <2>4, <2>5 DEF ParkedInOrder
<1>5. Survives(p.room)
  <2>1. [p EXCEPT !.retained = FALSE] \in parked'
    BY <1>3 DEF lapsed
  <2>2. GivenUp(p.room)
    BY <2>1 DEF GivenUp
  <2>. QED
    BY <2>2 DEF Survives
<1>6. ASSUME NEW r \in Room, r # p.room PROVE Survives(r)
  <2>1. \A x : x \in parked /\ x.room = r <=> x \in parked' /\ x.room = r
    BY <1>2, <1>3, <1>6
  <2>2. \A x, y \in parked : x.room = y.room => x = y
    BY DEF ParkedInOrder
  <2>3. \A x, y \in parked' : x.room = y.room => x = y
    BY <1>4 DEF ParkedInOrder
  <2>4. Recall(study, parked, r) # None => Recall(study', parked', r) = Recall(study, parked, r)
    BY <1>1, <2>1, <2>2, <2>3, RecallIs
  <2>. QED
    BY <2>4, RememberedIs DEF Survives
<1>. QED
  BY <1>1, <1>2, <1>3, <1>4, <1>5, <1>6

\* What the invariant keeps of a pending join while its room may change.
LEMMA PendingJoinKeeps ==
  ASSUME SavedIsCurrent, then' = then, then \in Continuation,
         \A r \in Room : study'[r] \in {study[r], None},
         \A p \in parked' : \/ study[p.room] # None /\ p.study = study[p.room]
                            \/ \E q \in parked : q.room = p.room /\ q.study = p.study
  PROVE  SavedIsCurrent'
<1>. SUFFICES ASSUME then.op = "join", then.study # None
              PROVE  SavedIsCurrent'
  BY DEF SavedIsCurrent
<1>1. PICK r \in Room : r = then.room
  BY DEF Continuation
<1>2. PICK s : s = then.study
  OBVIOUS
<1>3. s # None /\ study[r] \in {None, s} /\ \A p \in parked : p.room = r => p.study = s
  BY <1>1, <1>2 DEF SavedIsCurrent, Kept
<1>4. study'[r] \in {None, s} /\ \A p \in parked' : p.room = r => p.study = s
  BY <1>3
<1>. QED
  BY <1>1, <1>2, <1>4 DEF SavedIsCurrent, Kept

\* A step of a handler or beside it leaves no study behind.
LEMMA NextKeepsStudies ==
  ASSUME Consistent, ParkedInOrder, SavedIsCurrent, [Next]_vars
  PROVE  /\ ParkedInOrder' /\ SavedIsCurrent'
         /\ \A r \in Room : Survives(r)
<1>1. TypeOK /\ Maps /\ then \in Continuation
  BY DEF Consistent, TypeOK
<1>2. ASSUME NEW c \in Conn, NEW w, Disconnect(c, w), then' = then
      PROVE  ParkedInOrder' /\ SavedIsCurrent' /\ \A r \in Room : Survives(r)
  <2>1. RemovePeerFromRoom(c, w, FALSE)
    BY <1>2 DEF Disconnect
  <2>. QED
    BY <1>1, <1>2, <2>1, DepartureKeepsStudy, PendingJoinKeeps
<1>3. ASSUME UNCHANGED <<study, parked>>, then' = then \/ then'.op # "join"
      PROVE  ParkedInOrder' /\ SavedIsCurrent' /\ \A r \in Room : Survives(r)
  <2>1. SavedIsCurrent'
    BY <1>3 DEF SavedIsCurrent, Kept
  <2>. QED
    BY <1>3, <2>1, SameStudySurvives
<1>4. ASSUME NEW c \in Conn, EnqueueOne(c)
      PROVE  ParkedInOrder' /\ SavedIsCurrent' /\ \A r \in Room : Survives(r)
  <2>1. CASE SkipDisconnected(c) \/ Accept(c)
    BY <1>3, <1>4, <2>1 DEF SkipDisconnected, Accept, EnqueueOne, roomVars
  <2>2. CASE CloseExpiredTarget(c) \/ CloseOverflowingTarget(c) \/ CloseVictim(c)
    BY <1>2, <1>4, <2>2
    DEF CloseExpiredTarget, CloseOverflowingTarget, CloseVictim, Victims, Candidates, EnqueueOne
  <2>. QED
    BY <1>4, <2>1, <2>2 DEF EnqueueOne
<1>5. ASSUME NEW c, NEW e \in Room, NEW as, NEW saved, EnterRoom(c, e, as, saved),
             saved = None \/ Kept(e, saved)
      PROVE  ParkedInOrder' /\ SavedIsCurrent' /\ \A r \in Room : Survives(r)
  <2>1. then'.op # "join"
    <3>1. Done.op # "join" /\ [op |-> "announce", peer |-> c].op # "join"
      BY DEF Done
    <3>2. then' = Done \/ then' = [op |-> "announce", peer |-> c]
      BY <1>5 DEF EnterRoom
    <3>. QED
      BY <3>1, <3>2
  <2>. QED
    BY <1>1, <1>5, <2>1, EntryKeepsParked DEF SavedIsCurrent
<1>6. ASSUME NEW c \in Conn, NEW e \in Room, NEW as \in Role, Join(c, e, as)
      PROVE  ParkedInOrder' /\ SavedIsCurrent' /\ \A r \in Room : Survives(r)
  <2>1. CASE EnterRoom(c, e, as, None)
    BY <1>5, <2>1
  <2>2. ASSUME NEW f \in SameParticipant(c, e), Disconnect(f, <<>>),
               then' = [op |-> "join", peer |-> c, room |-> e, role |-> as, study |-> study[e]]
        PROVE  ParkedInOrder' /\ SavedIsCurrent' /\ \A r \in Room : Survives(r)
    <3>1. f \in Conn /\ f \in members[e] /\ RemovePeerFromRoom(f, <<>>, FALSE)
      BY <1>1, <2>2 DEF SameParticipant, TypeOK, Disconnect
    <3>2. /\ ParkedInOrder' /\ \A r \in Room : Survives(r)
          /\ \A r \in Room : study'[r] \in {study[r], None}
          /\ \A p \in parked' : \/ study[p.room] # None /\ p.study = study[p.room]
                                \/ \E q \in parked : q.room = p.room /\ q.study = p.study
      BY <1>1, <3>1, DepartureKeepsStudy
    <3>3. \A p \in parked : p.room # e
      BY <1>1, <3>1 DEF Maps, ParkedRoomsAreEmpty
    <3>4. PICK s : s = study[e]
      OBVIOUS
    <3>5. study'[e] \in {None, s} /\ \A p \in parked' : p.room = e => p.study = s
      BY <3>2, <3>3, <3>4
    <3>6. then'.room = e /\ then'.study = s
      BY <2>2, <3>4
    <3>. QED
      BY <3>2, <3>5, <3>6 DEF SavedIsCurrent, Kept
  <2>3. CASE Disconnect(c, <<>>) /\ then' = then
    BY <1>2, <2>3
  <2>. QED
    BY <1>6, <2>1, <2>2, <2>3 DEF Join, Supersede
<1>7. CASE ResumeJoin
  <2>1. CASE EnterRoom(then.peer, then.room, then.role, then.study)
    <3>1. PICK c, e, as, saved : <<c, e, as, saved>> = <<then.peer, then.room, then.role, then.study>>
      OBVIOUS
    <3>2. e \in Room /\ EnterRoom(c, e, as, saved) /\ (saved = None \/ Kept(e, saved))
      BY <1>1, <1>7, <2>1, <3>1 DEF ResumeJoin, Continuation, SavedIsCurrent
    <3>. QED
      BY <1>5, <3>2
  <2>2. CASE then' = Done /\ UNCHANGED roomVars
    BY <1>3, <2>2 DEF Done, roomVars
  <2>. QED
    BY <1>7, <2>1, <2>2 DEF ResumeJoin
<1>8. CASE Announce \/ AnswerReconnect \/ RefuseReconnect
  BY <1>3, <1>8 DEF Announce, AnswerReconnect, RefuseReconnect, Done, Unmoved, roomVars
<1>9. ASSUME NEW c \in Conn, NEW n \in Nat, then = Done, then' = then, roomOf[c] # None, parked' = parked,
             study' = [study EXCEPT ![roomOf[c]] = n],
             study[roomOf[c]] # None => n \in {study[roomOf[c]], study[roomOf[c]] + 1}
      PROVE  ParkedInOrder' /\ SavedIsCurrent' /\ \A r \in Room : Survives(r)
  <2>1. SavedIsCurrent'
    BY <1>9 DEF SavedIsCurrent, Done
  <2>. QED
    BY <1>1, <1>9, <2>1, MemberKeepsStudy
<1>10. ASSUME NEW c \in Conn, Command(c)
       PROVE  ParkedInOrder' /\ SavedIsCurrent' /\ \A r \in Room : Survives(r)
  <2>1. CASE Leave(c)
    <3>1. RemovePeerFromRoom(c, <<>>, TRUE) /\ conn'[c] = "open" /\ then = Done /\ then' = then
      BY <2>1 DEF Leave, Serving, Idle
    <3>2. SavedIsCurrent'
      BY <3>1 DEF SavedIsCurrent, Done
    <3>. QED
      BY <1>1, <3>1, <3>2, DepartureKeepsStudy
  <2>2. ASSUME NEW d \in Conn, Reconnect(c, d)
        PROVE  ParkedInOrder' /\ SavedIsCurrent' /\ \A r \in Room : Survives(r)
    <3>1. CASE Disconnect(d, <<>>) /\ then' = [op |-> "refuse", peer |-> c]
      <4>1. RemovePeerFromRoom(d, <<>>, FALSE) /\ then'.op # "join"
        BY <3>1 DEF Disconnect
      <4>. QED
        BY <1>1, <4>1, DepartureKeepsStudy DEF SavedIsCurrent
    <3>2. CASE UNCHANGED study /\ Unmoved /\ then'.op = "answer"
      BY <1>3, <3>2 DEF Unmoved
    <3>. QED
      BY <2>2, <3>1, <3>2 DEF Reconnect
  <2>3. CASE AskStudy(c)
    <3>1. StudyRevision(roomOf[c]) \in Nat
      BY <1>1, <2>3 DEF StudyRevision, TypeOK, AskStudy
    <3>. QED
      BY <1>9, <2>3, <3>1 DEF AskStudy, Serving, Idle, Unmoved, StudyRevision
  <2>4. ASSUME NEW expected \in 0..MaxRevision, CommandStudy(c, expected)
        PROVE  ParkedInOrder' /\ SavedIsCurrent' /\ \A r \in Room : Survives(r)
    <3>1. StudyRevision(roomOf[c]) \in Nat
      BY <1>1, <2>4 DEF StudyRevision, TypeOK, CommandStudy
    <3>2. PICK n \in {StudyRevision(roomOf[c]), StudyRevision(roomOf[c]) + 1} :
            study' = [study EXCEPT ![roomOf[c]] = n]
      BY <2>4 DEF CommandStudy
    <3>3. /\ n \in Nat /\ then = Done /\ then' = then /\ roomOf[c] # None /\ parked' = parked
          /\ study[roomOf[c]] # None => n \in {study[roomOf[c]], study[roomOf[c]] + 1}
      BY <2>4, <3>1, <3>2 DEF CommandStudy, Serving, Idle, Unmoved, StudyRevision
    <3>. QED
      BY <1>9, <3>2, <3>3
  <2>5. CASE \/ Refuse(c) \/ \E raised \in BOOLEAN : SetHand(c, raised)
             \/ \E d \in Conn : Relay(c, d) \/ Moderate(c, d)
    BY <1>3, <2>5 DEF Refuse, SetHand, Relay, Moderate, Unmoved
  <2>. QED
    BY <1>6, <1>10, <2>1, <2>2, <2>3, <2>4, <2>5 DEF Command
<1>11. CASE RetentionElapses
  <2>1. then' = then
    BY <1>11 DEF RetentionElapses
  <2>. QED
    BY <1>1, <1>11, <2>1, RetentionKeepsOthers, PendingJoinKeeps
<1>12. ASSUME NEW c \in Conn, Drop(c)
       PROVE  ParkedInOrder' /\ SavedIsCurrent' /\ \A r \in Room : Survives(r)
  BY <1>2, <1>12 DEF Drop
<1>13. CASE Stop
  <2>1. parked' = {} /\ ~running' /\ then' = Done
    BY <1>13 DEF Stop, Idle
  <2>. QED
    BY <2>1, FS_EmptySet, LimitAssumption DEF ParkedInOrder, SavedIsCurrent, Done, Survives, GivenUp
<1>14. CASE \/ Start \/ UNCHANGED vars
            \/ \E c \in Conn : Connect(c) \/ LeaseExpires(c) \/ BeginSend(c) \/ EndSend(c)
  BY <1>3, <1>14 DEF Start, vars, Connect, LeaseExpires, BeginSend, EndSend, roomVars
<1>. QED
  BY <1>4, <1>7, <1>8, <1>10, <1>11, <1>12, <1>13, <1>14 DEF Next, HoldingLock

\* A study is given up only on request, after its retention, for want of a place
\* or when the service stops, never because a connection is lost or replaced
\* (parkStudyLocked, and join with the study it saves from the old session).
THEOREM StudyOutlivesSessions == Spec => StudySurvives
<1>1. Init => ParkedInOrder /\ SavedIsCurrent
  BY FS_EmptySet, LimitAssumption DEF Init, ParkedInOrder, SavedIsCurrent, Done
<1>2. IInv => Consistent
  BY DEF IInv
<1>. DEFINE NoneIsLost ==
       \A r \in Room :
         LET was == Remembered(r)
         IN was # None =>
              \/ Remembered(r)' \in {was, was + 1}
              \/ \E c \in Conn : members[r] = {c} /\ conn'[c] = "open" /\ members'[r] = {}
              \/ ~running'
              \/ \E p \in parked : p.room = r /\ [p EXCEPT !.retained = FALSE] \in parked'
              \/ /\ members[r] = {} /\ Cardinality(parked') = MaxParked
                 /\ \E q \in parked' : q.room # r /\ q.age = 0
<1>3. (\A r \in Room : Survives(r)) => NoneIsLost
  BY DEF Survives, GivenUp
<1>4. Consistent /\ ParkedInOrder /\ SavedIsCurrent /\ [Next]_vars =>
        ParkedInOrder' /\ SavedIsCurrent' /\ NoneIsLost
  BY <1>3, NextKeepsStudies
<1>5. Spec => [][NoneIsLost]_vars
  BY <1>1, <1>2, <1>4, Invariance, PTL DEF Spec
<1>. QED
  BY <1>5 DEF StudySurvives

-----------------------------------------------------------------------------
(***************************************************************************)
(* What the members of a room are told.  RoomSessions states it of a       *)
(* server at rest; while a handler runs, frames are still to be enqueued,  *)
(* any of which may overflow a queue, disconnect its member and so bring   *)
(* more of them.  The invariant therefore looks ahead: the last frame of   *)
(* the list that concerns a topic, or else what the client holds already,  *)
(* is the truth of that topic.  Disconnecting one member takes nothing     *)
(* from the others, and what it adds comes last.                           *)
(***************************************************************************)

(* What a client will hold                                                 *)

\* What the frames for a client are about: whether another peer is in its
\* room, its reconnection with that peer, the hand queue and the study.
Topic == [on : {"roster", "calls"}, peer : Conn] \cup [on : {"hands", "study"}]

Roster(d) == [on |-> "roster", peer |-> d]
Calls(d) == [on |-> "calls", peer |-> d]
HandTopic == [on |-> "hands"]
StudyTopic == [on |-> "study"]

\* room.joined starts every topic anew.
Concerns(f, t) ==
  \/ f.kind = "room.joined"
  \/ f.kind \in {"peer.joined", "peer.left"} /\ t.on \in {"roster", "calls"} /\ f.peer = t.peer
  \/ f.kind = "peer.reconnect" /\ t.on = "calls" /\ f.peer = t.peer
  \/ f.kind = "hand.state" /\ t.on = "hands"
  \/ f.kind = "study.state" /\ t.on = "study"

\* What a frame that concerns topic t says of it.
Stated(f, t) ==
  CASE t.on = "roster" -> IF f.kind = "peer.joined" \/ (f.kind = "room.joined" /\ t.peer \in f.peers)
                          THEN "in" ELSE "out"
    [] t.on = "calls" -> IF f.kind = "peer.reconnect" THEN f.call ELSE None
    [] t.on = "hands" -> IF f.kind = "hand.state" THEN f.hands ELSE None
    [] t.on = "study" -> IF f.kind = "study.state" THEN f.study ELSE None

\* What a client in state x holds of it.
Holds(x, t) ==
  CASE t.on = "roster" -> IF t.peer \in x.roster THEN "in" ELSE "out"
    [] t.on = "calls" -> x.calls[t.peer]
    [] t.on = "hands" -> x.hands
    [] t.on = "study" -> x.study

\* The frames of list w that speak to c of topic t, and the last of them.
Speaks(item, c, t) == c \in item.to /\ Concerns(item.frame, t)
Silent(w, c, t) == \A i \in DOMAIN w : ~Speaks(w[i], c, t)
Latest(w, c, t) ==
  {i \in DOMAIN w : Speaks(w[i], c, t) /\ \A j \in DOMAIN w : j > i => ~Speaks(w[j], c, t)}

\* What the client of c, now in state x, will hold of topic t once list w is
\* enqueued: what the last frame says, else what it holds already.
WillHold(w, x, c, t) ==
  {Stated(w[i].frame, t) : i \in Latest(w, c, t)}
    \cup (IF Silent(w, c, t) THEN {Holds(x, t)} ELSE {})

\* The others know d when it is in their room and was announced.
Knows(c, d) == d # c /\ roomOf[d] = roomOf[c] /\ announced[d]

\* What the client of a member may hold in the end.
Truth(c, t) ==
  CASE t.on = "roster" -> IF Knows(c, t.peer) THEN {"in"} ELSE {"out"}
    [] t.on = "calls" -> IF Knows(c, t.peer) THEN Call \cup {None} ELSE {None}
    [] t.on = "hands" -> {None, hands[roomOf[c]]}
    [] t.on = "study" -> {None, study[roomOf[c]]}

\* Enqueueing what is left brings every member to the truth.
TruthIsOnItsWay ==
  \A c \in Conn : roomOf[c] # None => \A t \in Topic : WillHold(work, told[c], c, t) \subseteq Truth(c, t)

Paired(v, w) ==
  \/ v = None /\ w = None
  \/ v # None /\ w # None /\ v.id = w.id /\ v.initiator # w.initiator

\* The second frame of a reconnection is still to be sent.
Answering(c, d) == then.op = "answer" /\ {then.peer, then.target} = {c, d}

\* Two members will agree on their reconnection, or the handler is about to
\* send the second of its two frames.
PairsMatch ==
  \A c, d \in Conn : c # d /\ roomOf[c] # None /\ roomOf[c] = roomOf[d] /\ ~Answering(c, d) =>
    \A v \in WillHold(work, told[c], c, Calls(d)), w \in WillHold(work, told[d], d, Calls(c)) :
      Paired(v, w)
AnswerFits ==
  then.op = "answer" =>
    LET c == then.peer
        d == then.target
    IN /\ c # d
       /\ conn[d] = "open" => roomOf[d] # None /\ announced[d]
       /\ roomOf[c] # None /\ roomOf[d] # None =>
            /\ roomOf[c] = roomOf[d]
            /\ WillHold(work, told[d], d, Calls(c)) \subseteq {[id |-> then.id, initiator |-> c >= d]}

\* The member about to be announced was not announced before.
AnnouncedOnce == then.op = "announce" => ~announced[then.peer]

Delivered == TruthIsOnItsWay /\ PairsMatch /\ AnswerFits /\ AnnouncedOnce

-----------------------------------------------------------------------------
(* How a client's view grows frame by frame                                *)

\* Applying a frame changes the topics it concerns and no others.
LEMMA TellHolds ==
  ASSUME NEW x \in Told, NEW f \in Frame, NEW t \in Topic
  PROVE  Holds(Tell(x, f), t) = IF Concerns(f, t) THEN Stated(f, t) ELSE Holds(x, t)
<1>1. CASE f.kind = "room.joined"
  <2>1. Tell(x, f) = [Blank EXCEPT !.roster = f.peers] /\ Concerns(f, t)
    BY <1>1 DEF Tell, Concerns
  <2>. QED
    BY <1>1, <2>1 DEF Blank, Holds, Stated, Topic
<1>2. CASE f.kind = "peer.joined"
  <2>1. Tell(x, f) = [x EXCEPT !.roster = @ \cup {f.peer}, !.calls[f.peer] = None] /\ f.peer \in Conn
    BY <1>2 DEF Tell, Frame
  <2>. QED
    BY <1>2, <2>1 DEF Holds, Stated, Concerns, Topic, Told
<1>3. CASE f.kind = "peer.left"
  <2>1. Tell(x, f) = [x EXCEPT !.roster = @ \ {f.peer}, !.calls[f.peer] = None] /\ f.peer \in Conn
    BY <1>3 DEF Tell, Frame
  <2>. QED
    BY <1>3, <2>1 DEF Holds, Stated, Concerns, Topic, Told
<1>4. CASE f.kind = "hand.state"
  <2>1. Tell(x, f) = [x EXCEPT !.hands = f.hands]
    BY <1>4 DEF Tell
  <2>. QED
    BY <1>4, <2>1 DEF Holds, Stated, Concerns, Topic, Told
<1>5. CASE f.kind = "study.state"
  <2>1. Tell(x, f) = [x EXCEPT !.study = f.study]
    BY <1>5 DEF Tell
  <2>. QED
    BY <1>5, <2>1 DEF Holds, Stated, Concerns, Topic, Told
<1>6. CASE f.kind = "peer.reconnect"
  <2>1. Tell(x, f) = [x EXCEPT !.calls[f.peer] = f.call] /\ f.peer \in Conn
    BY <1>6 DEF Tell, Frame
  <2>. QED
    BY <1>6, <2>1 DEF Holds, Stated, Concerns, Topic, Told
<1>7. CASE f.kind \in {"error", "relay", "moderation.media-disabled"}
  BY <1>7 DEF Tell, Concerns
<1>. QED
  BY <1>1, <1>2, <1>3, <1>4, <1>5, <1>6, <1>7 DEF Frame

\* Nothing left to enqueue: the client holds what it was told.
LEMMA HoldNothing ==
  ASSUME NEW x, NEW c, NEW t
  PROVE  WillHold(<<>>, x, c, t) = {Holds(x, t)}
BY DEF WillHold, Latest, Silent

\* List w with one more broadcast.
Extended(w, f, S) == w \o Send(f, S)

\* A broadcast appended to the list has the last word with its receivers.
LEMMA HoldSend ==
  ASSUME NEW w \in Seq(Item), NEW f \in Frame, NEW S \in SUBSET Conn, NEW x, NEW c \in Conn, NEW t
  PROVE  /\ c \in S /\ Concerns(f, t) => WillHold(Extended(w, f, S), x, c, t) = {Stated(f, t)}
         /\ ~(c \in S /\ Concerns(f, t)) => WillHold(Extended(w, f, S), x, c, t) = WillHold(w, x, c, t)
<1>1. CASE S = {}
  <2>1. Extended(w, f, S) = w
    BY <1>1 DEF Extended, Send
  <2>. QED
    BY <1>1, <2>1
<1>2. CASE S # {}
  <2>. DEFINE item == [frame |-> f, to |-> S]
              v == w \o <<item>>
              n == Len(w)
  <2>1. Extended(w, f, S) = v
    BY <1>2 DEF Extended, Send
  <2>2. /\ n \in Nat /\ DOMAIN w = 1..n /\ DOMAIN v = 1..(n + 1)
        /\ \A i \in 1..n : v[i] = w[i]
        /\ v[n + 1] = item
    <3>1. item \in Item
      BY DEF Item
    <3>. QED
      BY <3>1
  <2>3. Speaks(item, c, t) <=> c \in S /\ Concerns(f, t)
    BY DEF Speaks
  <2>. HIDE DEF v, n, item
  <2>4. CASE Speaks(item, c, t)
    <3>1. Latest(v, c, t) = {n + 1}
      BY <2>2, <2>4 DEF Latest
    <3>2. ~Silent(v, c, t)
      BY <2>2, <2>4 DEF Silent
    <3>3. v[n + 1].frame = f
      BY <2>2 DEF item
    <3>. QED
      BY <2>1, <2>3, <2>4, <3>1, <3>2, <3>3 DEF WillHold
  <2>5. CASE ~Speaks(item, c, t)
    <3>1. Latest(v, c, t) = Latest(w, c, t)
      BY <2>2, <2>5 DEF Latest
    <3>2. Silent(v, c, t) <=> Silent(w, c, t)
      BY <2>2, <2>5 DEF Silent
    <3>3. \A i \in Latest(w, c, t) : v[i] = w[i]
      BY <2>2 DEF Latest
    <3>. QED
      BY <2>1, <2>3, <2>5, <3>1, <3>2, <3>3 DEF WillHold
  <2>. QED
    BY <2>4, <2>5
<1>. QED
  BY <1>1, <1>2

\* The list after its first frame was handled for c, position by position.
LEMMA WithoutShape ==
  ASSUME work \in Seq(Item), work # <<>>, NEW c \in Conn
  PROVE  /\ Len(work) \in Nat \ {0} /\ DOMAIN work = 1..Len(work) /\ work[1] = Head(work)
         /\ \/ /\ Head(work).to \subseteq {c}
               /\ DOMAIN Without(c) = 1..(Len(work) - 1)
               /\ \A i \in 1..(Len(work) - 1) : Without(c)[i] = work[i + 1]
            \/ /\ DOMAIN Without(c) = 1..Len(work)
               /\ Without(c)[1] = [frame |-> Head(work).frame, to |-> Head(work).to \ {c}]
               /\ \A i \in 2..Len(work) : Without(c)[i] = work[i]
<1>. DEFINE n == Len(work)
            item == [frame |-> Head(work).frame, to |-> Head(work).to \ {c}]
<1>1. n \in Nat \ {0} /\ DOMAIN work = 1..n /\ work[1] = Head(work)
  OBVIOUS
<1>2. /\ Tail(work) \in Seq(Item) /\ Len(Tail(work)) = n - 1
      /\ \A i \in 1..(n - 1) : Tail(work)[i] = work[i + 1]
      /\ DOMAIN Tail(work) = 1..(n - 1)
  OBVIOUS
<1>3. Head(work) \in Item
  OBVIOUS
<1>4. item \in Item
  BY <1>3 DEF Item
<1>5. CASE Head(work).to \ {c} = {}
  <2>1. Without(c) = Tail(work)
    BY <1>2, <1>5 DEF Without, Send
  <2>2. Head(work).to \subseteq {c}
    BY <1>5
  <2>. QED
    BY Zenon, <1>1, <1>2, <2>1, <2>2
<1>6. CASE Head(work).to \ {c} # {}
  <2>1. Without(c) = <<item>> \o Tail(work)
    BY <1>6 DEF Without, Send
  <2>2. /\ Len(Without(c)) = n /\ Without(c)[1] = item
        /\ \A i \in 2..n : Without(c)[i] = Tail(work)[i - 1]
    BY <1>1, <1>2, <1>4, <2>1
  <2>3. \A i \in 2..n : Without(c)[i] = work[i]
    BY <1>1, <1>2, <2>2
  <2>4. DOMAIN Without(c) = 1..n
    BY <1>2, <1>4, <2>1, <2>2
  <2>. QED
    BY Zenon, <1>1, <2>2, <2>3, <2>4
<1>. QED
  BY <1>5, <1>6

\* Handling a frame for c takes nothing from what the others are told.
LEMMA HoldOthers ==
  ASSUME work \in Seq(Item), work # <<>>, NEW c \in Conn, NEW e \in Conn \ {c}, NEW x, NEW t
  PROVE  WillHold(Without(c), x, e, t) = WillHold(work, x, e, t)
<1>. DEFINE n == Len(work)
            v == Without(c)
<1>1. n \in Nat \ {0} /\ DOMAIN work = 1..n /\ work[1] = Head(work)
  BY WithoutShape
<1>. HIDE DEF n, v
<1>2. CASE /\ Head(work).to \subseteq {c} /\ DOMAIN v = 1..(n - 1)
           /\ \A i \in 1..(n - 1) : v[i] = work[i + 1]
  <2>1. ~Speaks(work[1], e, t)
    BY <1>1, <1>2 DEF Speaks
  <2>2. Silent(v, e, t) <=> Silent(work, e, t)
    <3>1. ASSUME Silent(v, e, t), NEW i \in 1..n PROVE ~Speaks(work[i], e, t)
      <4>1. CASE i = 1
        BY <2>1, <4>1
      <4>2. CASE i # 1
        <5>1. i - 1 \in 1..(n - 1) /\ work[i] = v[i - 1]
          BY <1>1, <1>2, <4>2
        <5>. QED
          BY <1>2, <3>1, <5>1 DEF Silent
      <4>. QED
        BY <4>1, <4>2
    <3>2. ASSUME Silent(work, e, t), NEW i \in 1..(n - 1) PROVE ~Speaks(v[i], e, t)
      BY <1>1, <1>2, <3>2 DEF Silent
    <3>. QED
      BY <1>1, <1>2, <3>1, <3>2 DEF Silent
  <2>3. \A i \in Latest(v, e, t) : i + 1 \in Latest(work, e, t) /\ work[i + 1] = v[i]
    <3>. SUFFICES ASSUME NEW i \in Latest(v, e, t)
                  PROVE  i + 1 \in Latest(work, e, t) /\ work[i + 1] = v[i]
      OBVIOUS
    <3>1. i \in 1..(n - 1) /\ Speaks(v[i], e, t)
      BY <1>2 DEF Latest
    <3>2. i + 1 \in 1..n /\ work[i + 1] = v[i]
      BY <1>1, <1>2, <3>1
    <3>3. ASSUME NEW j \in 1..n, j > i + 1 PROVE ~Speaks(work[j], e, t)
      <4>1. j - 1 \in 1..(n - 1) /\ j - 1 > i /\ work[j] = v[j - 1]
        BY <1>1, <1>2, <3>1, <3>3
      <4>. QED
        BY <1>2, <4>1 DEF Latest
    <3>. QED
      BY <1>1, <3>1, <3>2, <3>3 DEF Latest
  <2>4. \A i \in Latest(work, e, t) : i - 1 \in Latest(v, e, t) /\ v[i - 1] = work[i]
    <3>. SUFFICES ASSUME NEW i \in Latest(work, e, t)
                  PROVE  i - 1 \in Latest(v, e, t) /\ v[i - 1] = work[i]
      OBVIOUS
    <3>1. i \in 1..n /\ Speaks(work[i], e, t) /\ i # 1
      BY <1>1, <2>1 DEF Latest
    <3>2. i - 1 \in 1..(n - 1) /\ v[i - 1] = work[i]
      BY <1>1, <1>2, <3>1
    <3>3. ASSUME NEW j \in 1..(n - 1), j > i - 1 PROVE ~Speaks(v[j], e, t)
      <4>1. j + 1 \in 1..n /\ j + 1 > i /\ v[j] = work[j + 1]
        BY <1>1, <1>2, <3>1, <3>3
      <4>. QED
        BY <1>1, <4>1 DEF Latest
    <3>. QED
      BY <1>2, <3>1, <3>2, <3>3 DEF Latest
  <2>5. {Stated(v[i].frame, t) : i \in Latest(v, e, t)} = {Stated(work[i].frame, t) : i \in Latest(work, e, t)}
    BY <2>3, <2>4
  <2>. QED
    BY <2>2, <2>5 DEF WillHold, v
<1>3. CASE /\ DOMAIN v = 1..n
           /\ v[1] = [frame |-> Head(work).frame, to |-> Head(work).to \ {c}]
           /\ \A i \in 2..n : v[i] = work[i]
  <2>1. \A i \in 1..n : /\ Speaks(v[i], e, t) <=> Speaks(work[i], e, t)
                        /\ v[i].frame = work[i].frame
    BY <1>1, <1>3 DEF Speaks
  <2>2. Silent(v, e, t) <=> Silent(work, e, t)
    BY <1>1, <1>3, <2>1 DEF Silent
  <2>3. Latest(v, e, t) = Latest(work, e, t)
    BY <1>1, <1>3, <2>1 DEF Latest
  <2>4. \A i \in Latest(work, e, t) : v[i].frame = work[i].frame
    BY <1>1, <2>1 DEF Latest
  <2>. QED
    BY <2>2, <2>3, <2>4 DEF WillHold, v
<1>. QED
  BY <1>2, <1>3, WithoutShape DEF n, v

\* A frame that is accepted for c only moves from the list to its client.
LEMMA HoldAccepted ==
  ASSUME work \in Seq(Item), work # <<>>, NEW c \in Head(work).to, NEW x \in Told, NEW t \in Topic
  PROVE  WillHold(Without(c), Tell(x, Head(work).frame), c, t) \subseteq WillHold(work, x, c, t)
<1>. DEFINE n == Len(work)
            v == Without(c)
            f == Head(work).frame
            y == Tell(x, f)
<1>1. c \in Conn /\ f \in Frame
  <2>1. Head(work) \in Item
    OBVIOUS
  <2>. QED
    BY <2>1 DEF Item
<1>2. n \in Nat \ {0} /\ DOMAIN work = 1..n /\ work[1] = Head(work)
  BY <1>1, WithoutShape
<1>3. Holds(y, t) = IF Concerns(f, t) THEN Stated(f, t) ELSE Holds(x, t)
  BY <1>1, TellHolds
<1>4. Speaks(work[1], c, t) <=> Concerns(f, t)
  BY <1>2 DEF Speaks
<1>. HIDE DEF n, v, f, y
<1>5. /\ \A i \in Latest(v, c, t) : \E k \in Latest(work, c, t) : work[k].frame = v[i].frame
      /\ Silent(v, c, t) => \A k \in 2..n : ~Speaks(work[k], c, t)
  <2>1. CASE DOMAIN v = 1..(n - 1) /\ \A i \in 1..(n - 1) : v[i] = work[i + 1]
    <3>1. ASSUME NEW i \in Latest(v, c, t) PROVE i + 1 \in Latest(work, c, t) /\ work[i + 1] = v[i]
      <4>1. i \in 1..(n - 1) /\ Speaks(v[i], c, t)
        BY <2>1 DEF Latest
      <4>2. i + 1 \in 1..n /\ work[i + 1] = v[i]
        BY <1>2, <2>1, <4>1
      <4>3. ASSUME NEW j \in 1..n, j > i + 1 PROVE ~Speaks(work[j], c, t)
        <5>1. j - 1 \in 1..(n - 1) /\ j - 1 > i /\ work[j] = v[j - 1]
          BY <1>2, <2>1, <4>1, <4>3
        <5>. QED
          BY <2>1, <5>1 DEF Latest
      <4>. QED
        BY <1>2, <4>1, <4>2, <4>3 DEF Latest
    <3>2. ASSUME Silent(v, c, t), NEW k \in 2..n PROVE ~Speaks(work[k], c, t)
      <4>1. k - 1 \in 1..(n - 1) /\ work[k] = v[k - 1]
        BY <1>2, <2>1
      <4>. QED
        BY <2>1, <3>2, <4>1 DEF Silent
    <3>. QED
      BY <3>1, <3>2
  <2>2. CASE /\ DOMAIN v = 1..n
             /\ v[1] = [frame |-> Head(work).frame, to |-> Head(work).to \ {c}]
             /\ \A i \in 2..n : v[i] = work[i]
    <3>1. ~Speaks(v[1], c, t)
      BY <2>2 DEF Speaks
    <3>2. ASSUME NEW i \in Latest(v, c, t) PROVE i \in Latest(work, c, t) /\ work[i] = v[i]
      <4>1. i \in 2..n
        BY <1>2, <2>2, <3>1 DEF Latest
      <4>. QED
        BY <1>2, <2>2, <4>1 DEF Latest
    <3>3. ASSUME Silent(v, c, t), NEW k \in 2..n PROVE ~Speaks(work[k], c, t)
      BY <1>2, <2>2, <3>3 DEF Silent
    <3>. QED
      BY <3>2, <3>3
  <2>. QED
    BY <1>1, <2>1, <2>2, WithoutShape DEF n, v
<1>6. Silent(v, c, t) => Holds(y, t) \in WillHold(work, x, c, t)
  <2>. SUFFICES ASSUME Silent(v, c, t) PROVE Holds(y, t) \in WillHold(work, x, c, t)
    OBVIOUS
  <2>1. CASE Concerns(f, t)
    <3>1. 1 \in Latest(work, c, t) /\ work[1].frame = f
      BY <1>2, <1>4, <1>5, <2>1 DEF Latest, f
    <3>. QED
      BY <1>3, <2>1, <3>1 DEF WillHold
  <2>2. CASE ~Concerns(f, t)
    <3>1. Silent(work, c, t)
      BY <1>2, <1>4, <1>5, <2>2 DEF Silent
    <3>. QED
      BY <1>3, <2>2, <3>1 DEF WillHold
  <2>. QED
    BY <2>1, <2>2
<1>. QED
  BY <1>5, <1>6 DEF WillHold, v, f, y

-----------------------------------------------------------------------------
(* Steps that tell nobody anything new                                     *)

\* The order of the rooms stays, no truth is taken back and every member will
\* hold no more than before.
LEMMA NothingNew ==
  ASSUME TypeOK, Delivered, UNCHANGED <<roomOf, announced>>,
         then' = then \/ (then.op # "answer" /\ then'.op \notin {"answer", "announce"}),
         then.op = "answer" => \A e \in Conn : conn'[e] = "open" => conn[e] = "open",
         \A e \in Conn : roomOf[e] # None =>
           \A t \in Topic : /\ WillHold(work', told'[e], e, t) \subseteq WillHold(work, told[e], e, t)
                            /\ Truth(e, t) \subseteq Truth(e, t)'
  PROVE  Delivered'
<1>1. TruthIsOnItsWay'
  BY DEF Delivered, TruthIsOnItsWay
<1>2. \A e, d \in Conn : Calls(d) \in Topic
  BY DEF Calls, Topic
<1>3. PairsMatch'
  <2>. SUFFICES ASSUME NEW e \in Conn, NEW d \in Conn, e # d, roomOf[e] # None, roomOf[e] = roomOf[d],
                       ~Answering(e, d)',
                       NEW v \in WillHold(work', told'[e], e, Calls(d)),
                       NEW w \in WillHold(work', told'[d], d, Calls(e))
                PROVE  Paired(v, w)
    BY DEF PairsMatch
  <2>1. ~Answering(e, d)
    BY DEF Answering
  <2>2. v \in WillHold(work, told[e], e, Calls(d)) /\ w \in WillHold(work, told[d], d, Calls(e))
    BY <1>2
  <2>. QED
    BY <2>1, <2>2 DEF Delivered, PairsMatch
<1>4. AnswerFits'
  <2>. SUFFICES ASSUME then'.op = "answer" PROVE AnswerFits'
    BY DEF AnswerFits
  <2>1. then' = then /\ then.peer \in Conn /\ then.target \in Conn
    BY DEF TypeOK, Continuation
  <2>. QED
    BY <1>2, <2>1 DEF Delivered, AnswerFits
<1>5. AnnouncedOnce'
  BY DEF Delivered, AnnouncedOnce
<1>. QED
  BY <1>1, <1>3, <1>4, <1>5 DEF Delivered

\* The truth does not change with what it is not about.
LEMMA SameTruth ==
  ASSUME UNCHANGED <<roomOf, announced, hands, study>>, NEW e, NEW t \in Topic
  PROVE  Truth(e, t)' = Truth(e, t)
BY DEF Truth, Knows

\* Answers and relayed messages concern no topic.
LEMMA NoticesAreSilent ==
  ASSUME NEW t, NEW k \in {"error", "relay", "moderation.media-disabled"}
  PROVE  ~Concerns(Notice(k), t) /\ Notice(k) \in Frame
BY DEF Concerns, Notice, Frame

\* A handler that only sends a notice, or nothing.
LEMMA NoticeDelivers ==
  ASSUME TypeOK, Delivered, UNCHANGED <<roomOf, announced, hands, study, told, conn>>,
         then' = then \/ (then.op # "answer" /\ then'.op \notin {"answer", "announce"}),
         work' = work \/ \E S \in SUBSET Conn, k \in {"error", "relay", "moderation.media-disabled"} :
                            work' = Extended(work, Notice(k), S)
  PROVE  Delivered'
<1>. SUFFICES ASSUME NEW e \in Conn, NEW t \in Topic
              PROVE  WillHold(work', told[e], e, t) = WillHold(work, told[e], e, t)
  BY SameTruth, NothingNew
<1>1. ASSUME NEW S \in SUBSET Conn, NEW k \in {"error", "relay", "moderation.media-disabled"},
             work' = Extended(work, Notice(k), S)
      PROVE  WillHold(work', told[e], e, t) = WillHold(work, told[e], e, t)
  <2>1. work \in Seq(Item) /\ Notice(k) \in Frame /\ ~Concerns(Notice(k), t)
    BY NoticesAreSilent DEF TypeOK
  <2>. QED
    BY <1>1, <2>1, HoldSend
<1>. QED
  BY <1>1

-----------------------------------------------------------------------------
(* Departures                                                              *)

\* Whoever stays in a room will know that c is gone and its hand is down, and
\* holds everything else as before.
LEMMA DepartureIsTold ==
  ASSUME Consistent, TruthIsOnItsWay, NEW c \in Conn, NEW w \in Seq(Item), NEW b \in BOOLEAN,
         RemovePeerFromRoom(c, w, b),
         \A e \in Conn \ {c}, t \in Topic : WillHold(w, told[e], e, t) = WillHold(work, told[e], e, t)
  PROVE  \A e \in Conn : roomOf'[e] # None =>
           /\ e # c /\ roomOf'[e] = roomOf[e] /\ told'[e] = told[e]
           /\ \A t \in Topic : WillHold(work', told'[e], e, t) \subseteq Truth(e, t)'
           /\ \A d \in Conn \ {c} :
                WillHold(work', told'[e], e, Calls(d)) = WillHold(work, told[e], e, Calls(d))
<1>. SUFFICES ASSUME NEW e \in Conn, roomOf'[e] # None
              PROVE  /\ e # c /\ roomOf'[e] = roomOf[e] /\ told'[e] = told[e]
                     /\ \A t \in Topic : WillHold(work', told'[e], e, t) \subseteq Truth(e, t)'
                     /\ \A d \in Conn \ {c} :
                          WillHold(work', told'[e], e, Calls(d)) = WillHold(work, told[e], e, Calls(d))
  OBVIOUS
<1>. DEFINE r == roomOf[c]
            others == members[r] \ {c}
<1>1. TypeOK /\ Maps /\ ContinuationFits
  BY DEF Consistent
<1>2. /\ roomOf' = [roomOf EXCEPT ![c] = None]
      /\ \A d \in Conn \ {c} : announced'[d] = announced[d]
  BY ZenonT(40), <1>1, RemoveShape DEF Maps
<1>3. e # c /\ \A d \in Conn : roomOf'[d] = IF d = c THEN None ELSE roomOf[d]
  BY <1>1, <1>2 DEF TypeOK
<1>4. told'[e] = told[e]
  BY <1>1, <1>3 DEF RemovePeerFromRoom, TypeOK
<1>5. \A d \in Conn : Knows(e, d)' <=> d # c /\ Knows(e, d)
  BY <1>2, <1>3 DEF Knows
<1>6. \A t \in Topic : WillHold(w, told[e], e, t) \subseteq Truth(e, t)
  BY <1>3 DEF TruthIsOnItsWay
<1>7. \A d \in Conn : Calls(d) \in Topic /\ Calls(d).on = "calls" /\ Calls(d).peer = d
  BY DEF Calls, Topic
<1>8. ASSUME ~Knows(e, c), hands'[roomOf[e]] = hands[roomOf[e]], study'[roomOf[e]] = study[roomOf[e]],
             \A t \in Topic : WillHold(work', told[e], e, t) = WillHold(w, told[e], e, t)
      PROVE  /\ \A t \in Topic : WillHold(work', told'[e], e, t) \subseteq Truth(e, t)'
             /\ \A d \in Conn \ {c} :
                  WillHold(work', told'[e], e, Calls(d)) = WillHold(work, told[e], e, Calls(d))
  <2>1. \A d \in Conn : Knows(e, d)' <=> Knows(e, d)
    BY <1>5, <1>8
  <2>2. ASSUME NEW t \in Topic PROVE Truth(e, t)' = Truth(e, t)
    BY <1>3, <1>8, <2>1 DEF Truth, Topic
  <2>. QED
    BY <1>3, <1>4, <1>6, <1>7, <1>8, <2>2
<1>9. CASE r = None
  <2>1. work' = w /\ hands' = hands /\ study' = study
    BY <1>9 DEF RemovePeerFromRoom, roomVars
  <2>2. ~Knows(e, c)
    BY <1>3, <1>9 DEF Knows
  <2>. QED
    BY <1>3, <1>4, <1>8, <2>1, <2>2
<1>10. CASE r # None /\ members[r] = {c}
  <2>1. work' = w /\ EmptyRoom(r, b)
    <3>1. ~ReportDeparture(c, r, w) \/ members[r] = {c}
      BY <1>10
    <3>. QED
      BY <1>10 DEF RemovePeerFromRoom
  <2>2. roomOf[e] # r
    BY <1>1, <1>3, <1>10 DEF Maps, MembersAgree, TypeOK
  <2>3. ~Knows(e, c)
    BY <2>2 DEF Knows
  <2>4. hands'[roomOf[e]] = hands[roomOf[e]] /\ study'[roomOf[e]] = study[roomOf[e]]
    BY <1>1, <2>1, <2>2 DEF EmptyRoom, TypeOK
  <2>. QED
    BY <1>3, <1>4, <1>8, <2>1, <2>3, <2>4
<1>11. CASE r # None /\ members[r] # {c}
  <2>1. r \in Room /\ others \in SUBSET Conn /\ roomOf[e] \in Room
    BY <1>1, <1>3, <1>11 DEF TypeOK
  <2>2. ReportDeparture(c, r, w) /\ study' = study
    BY <1>11 DEF RemovePeerFromRoom, ReportDeparture
  <2>3. e \in others <=> roomOf[e] = r
    BY <1>1, <1>3, <2>1 DEF Maps, MembersAgree
  <2>4. PeerLeft(c) \in Frame
    BY DEF PeerLeft, Frame
  <2>5. CASE ~announced[c]
    <3>1. work' = w /\ hands' = hands
      BY <2>2, <2>5 DEF ReportDeparture
    <3>2. ~Knows(e, c)
      BY <2>5 DEF Knows
    <3>. QED
      BY <1>3, <1>4, <1>8, <2>2, <3>1, <3>2
  <2>6. CASE announced[c]
    <3>. DEFINE w1 == w \o Send(PeerLeft(c), others)
    <3>1. \A t \in Topic : WillHold(w1, told[e], e, t) =
            IF e \in others /\ Concerns(PeerLeft(c), t) THEN {Stated(PeerLeft(c), t)}
            ELSE WillHold(w, told[e], e, t)
      <4>1. w1 = Extended(w, PeerLeft(c), others)
        BY DEF Extended
      <4>. HIDE DEF w1, others
      <4>. SUFFICES ASSUME NEW t \in Topic
                    PROVE  WillHold(w1, told[e], e, t) =
                             IF e \in others /\ Concerns(PeerLeft(c), t) THEN {Stated(PeerLeft(c), t)}
                             ELSE WillHold(w, told[e], e, t)
        OBVIOUS
      <4>2. CASE e \in others /\ Concerns(PeerLeft(c), t)
        <5>1. WillHold(w1, told[e], e, t) = {Stated(PeerLeft(c), t)}
          BY <2>1, <2>4, <4>1, <4>2, HoldSend
        <5>. QED
          BY <4>2, <5>1
      <4>3. CASE ~(e \in others /\ Concerns(PeerLeft(c), t))
        <5>1. WillHold(w1, told[e], e, t) = WillHold(w, told[e], e, t)
          BY <2>1, <2>4, <4>1, <4>3, HoldSend
        <5>. QED
          BY <4>3, <5>1
      <4>. QED
        BY <4>2, <4>3
    <3>2. w1 \in Seq(Item)
      BY <2>1, <2>4, SendType
    <3>3. PICK last \in {"left", "hands"} :
            \/ last = "left" /\ work' = w1 /\ hands' = hands
            \/ /\ last = "hands"
               /\ hands[r] # None /\ c \in hands[r].raised
               /\ hands' = [hands EXCEPT ![r] = Lower(hands[r], c)]
               /\ work' = w1 \o Send(HandState(Lower(hands[r], c)), others)
      BY <2>2, <2>6 DEF ReportDeparture
    <3>4. ASSUME NEW t \in Topic
          PROVE  WillHold(work', told[e], e, t) =
                   IF last = "hands" /\ e \in others /\ t.on = "hands" THEN {hands'[r]}
                   ELSE WillHold(w1, told[e], e, t)
      <4>1. CASE last = "left"
        BY <3>3, <4>1
      <4>2. CASE last = "hands"
        <5>. DEFINE f == HandState(Lower(hands[r], c))
        <5>1. f \in Frame /\ hands'[r] = Lower(hands[r], c) /\ f.kind = "hand.state"
              /\ f.hands = Lower(hands[r], c)
          BY <1>1, <2>1, <3>3, <4>2 DEF HandState, Frame, Lower, Hands, TypeOK
        <5>2. Concerns(f, t) <=> t.on = "hands"
          BY <5>1 DEF Concerns
        <5>3. t.on = "hands" => Stated(f, t) = hands'[r]
          BY <5>1 DEF Stated
        <5>4. work' = Extended(w1, f, others)
          BY <3>3, <4>2 DEF Extended
        <5>. HIDE DEF f, w1, others
        <5>5. CASE e \in others /\ t.on = "hands"
          <6>1. WillHold(work', told[e], e, t) = {Stated(f, t)}
            BY <2>1, <3>2, <5>1, <5>2, <5>4, <5>5, HoldSend
          <6>. QED
            BY <4>2, <5>3, <5>5, <6>1
        <5>6. CASE ~(e \in others /\ t.on = "hands")
          <6>1. WillHold(work', told[e], e, t) = WillHold(w1, told[e], e, t)
            BY <2>1, <3>2, <5>1, <5>2, <5>4, <5>6, HoldSend
          <6>. QED
            BY <4>2, <5>6, <6>1
        <5>. QED
          BY <5>5, <5>6
      <4>. QED
        BY <4>1, <4>2
    <3>. HIDE DEF w1
    <3>5. hands'[roomOf[e]] = IF last = "hands" /\ e \in others THEN hands'[r] ELSE hands[roomOf[e]]
      BY <1>1, <2>1, <2>3, <3>3 DEF TypeOK
    <3>6. ASSUME NEW t \in Topic
          PROVE  WillHold(work', told'[e], e, t) \subseteq Truth(e, t)'
      <4>0. PeerLeft(c).kind = "peer.left" /\ PeerLeft(c).peer = c
        BY DEF PeerLeft
      <4>1. CASE t.on = "hands"
        <5>1. WillHold(w1, told[e], e, t) = WillHold(w, told[e], e, t)
          BY <3>1, <4>0, <4>1 DEF Concerns
        <5>2. WillHold(w, told[e], e, t) \subseteq {None, hands[roomOf[e]]}
          BY <1>6, <4>1 DEF Truth
        <5>3. Truth(e, t)' = {None, hands'[roomOf[e]]}
          BY <1>3, <4>1 DEF Truth
        <5>. QED
          BY <1>4, <3>4, <3>5, <4>1, <5>1, <5>2, <5>3
      <4>2. CASE t.on = "study"
        <5>1. WillHold(work', told[e], e, t) = WillHold(w, told[e], e, t)
          BY <3>1, <3>4, <4>0, <4>2 DEF Concerns
        <5>2. Truth(e, t)' = Truth(e, t)
          BY <1>3, <2>2, <4>2 DEF Truth
        <5>. QED
          BY <1>4, <1>6, <5>1, <5>2
      <4>3. CASE t.on \in {"roster", "calls"}
        <5>1. t.peer \in Conn /\ WillHold(work', told[e], e, t) = WillHold(w1, told[e], e, t)
          BY <3>4, <4>3 DEF Topic
        <5>2. CASE t.peer = c /\ e \in others
          <6>1. Concerns(PeerLeft(c), t)
            BY <4>0, <4>3, <5>2 DEF Concerns
          <6>2. Stated(PeerLeft(c), t) = IF t.on = "roster" THEN "out" ELSE None
            BY <4>0, <4>3 DEF Stated
          <6>3. Truth(e, t)' = IF t.on = "roster" THEN {"out"} ELSE {None}
            BY <1>5, <4>3, <5>2 DEF Truth
          <6>. QED
            BY <1>4, <3>1, <5>1, <5>2, <6>1, <6>2, <6>3
        <5>3. CASE ~(t.peer = c /\ e \in others)
          <6>1. ~Concerns(PeerLeft(c), t) \/ e \notin others
            BY <4>0, <5>3 DEF Concerns
          <6>2. Knows(e, t.peer)' <=> Knows(e, t.peer)
            BY <1>5, <2>3, <5>1, <5>3 DEF Knows
          <6>3. Truth(e, t)' = Truth(e, t)
            BY <4>3, <6>2 DEF Truth
          <6>. QED
            BY <1>4, <1>6, <3>1, <5>1, <6>1, <6>3
        <5>. QED
          BY <5>2, <5>3
      <4>. QED
        BY <4>1, <4>2, <4>3 DEF Topic
    <3>7. ASSUME NEW d \in Conn \ {c}
          PROVE  WillHold(work', told'[e], e, Calls(d)) = WillHold(work, told[e], e, Calls(d))
      <4>1. ~Concerns(PeerLeft(c), Calls(d))
        BY <1>7 DEF Concerns, PeerLeft
      <4>2. WillHold(work', told[e], e, Calls(d)) = WillHold(w1, told[e], e, Calls(d))
        BY <1>7, <3>4
      <4>. QED
        BY <1>3, <1>4, <1>7, <3>1, <4>1, <4>2
    <3>. QED
      BY <1>3, <1>4, <3>6, <3>7
  <2>. QED
    BY <2>5, <2>6
<1>. QED
  BY <1>9, <1>10, <1>11

\* A departure during a handler, which goes on or is none that answers.
LEMMA DepartureDelivers ==
  ASSUME Consistent, Delivered, NEW c \in Conn, NEW w \in Seq(Item), NEW b \in BOOLEAN,
         RemovePeerFromRoom(c, w, b),
         \A e \in Conn \ {c}, t \in Topic : WillHold(w, told[e], e, t) = WillHold(work, told[e], e, t),
         \/ then' = then /\ conn' = [conn EXCEPT ![c] = "gone"]
         \/ then = Done /\ then'.op \notin {"answer", "announce"}
  PROVE  Delivered'
<1>1. \A e \in Conn : roomOf'[e] # None =>
        /\ e # c /\ roomOf'[e] = roomOf[e] /\ told'[e] = told[e]
        /\ \A t \in Topic : WillHold(work', told'[e], e, t) \subseteq Truth(e, t)'
        /\ \A d \in Conn \ {c} :
             WillHold(work', told'[e], e, Calls(d)) = WillHold(work, told[e], e, Calls(d))
  BY DepartureIsTold DEF Delivered
<1>2. /\ roomOf' = [roomOf EXCEPT ![c] = None]
      /\ \A d \in Conn \ {c} : announced'[d] = announced[d]
      /\ roomOf[c] # None => announced'[c] = FALSE
      /\ roomOf[c] = None => announced' = announced
  BY ZenonT(40), RemoveShape DEF Consistent, Maps
<1>3. \A d \in Conn : roomOf'[d] = IF d = c THEN None ELSE roomOf[d]
  BY <1>2 DEF Consistent, TypeOK
<1>4. TruthIsOnItsWay'
  BY <1>1 DEF TruthIsOnItsWay
<1>5. PairsMatch'
  <2>. SUFFICES ASSUME NEW e \in Conn, NEW d \in Conn, e # d, roomOf'[e] # None, roomOf'[e] = roomOf'[d],
                       ~Answering(e, d)',
                       NEW v \in WillHold(work', told'[e], e, Calls(d)),
                       NEW u \in WillHold(work', told'[d], d, Calls(e))
                PROVE  Paired(v, u)
    BY DEF PairsMatch
  <2>1. /\ e # c /\ d # c /\ roomOf[e] # None /\ roomOf[e] = roomOf[d]
        /\ v \in WillHold(work, told[e], e, Calls(d)) /\ u \in WillHold(work, told[d], d, Calls(e))
    <3>1. e # c /\ d # c /\ roomOf[e] # None /\ roomOf[e] = roomOf[d]
      BY <1>1
    <3>2. /\ WillHold(work', told'[e], e, Calls(d)) = WillHold(work, told[e], e, Calls(d))
          /\ WillHold(work', told'[d], d, Calls(e)) = WillHold(work, told[d], d, Calls(e))
      BY <1>1, <3>1
    <3>. QED
      BY <3>1, <3>2
  <2>2. ~Answering(e, d)
    <3>1. CASE then' = then
      BY <3>1 DEF Answering
    <3>2. CASE then = Done
      BY <3>2 DEF Answering, Done
    <3>. QED
      BY <3>1, <3>2
  <2>3. \A x \in WillHold(work, told[e], e, Calls(d)), y \in WillHold(work, told[d], d, Calls(e)) :
          Paired(x, y)
    BY <2>1, <2>2 DEF Delivered, PairsMatch
  <2>. QED
    BY <2>1, <2>3
<1>6. AnswerFits'
  <2>. SUFFICES ASSUME then'.op = "answer" PROVE AnswerFits'
    BY DEF AnswerFits
  <2>1. then' = then /\ then.peer \in Conn /\ then.target \in Conn /\ conn' = [conn EXCEPT ![c] = "gone"]
    BY DEF Consistent, TypeOK, Continuation, Done
  <2>2. \A d \in Conn : conn'[d] = "open" => conn[d] = "open" /\ d # c
    BY <2>1 DEF Consistent, TypeOK
  <2>3. /\ then.peer # then.target
        /\ conn[then.target] = "open" => roomOf[then.target] # None /\ announced[then.target]
        /\ roomOf[then.peer] # None /\ roomOf[then.target] # None =>
            /\ roomOf[then.peer] = roomOf[then.target]
            /\ WillHold(work, told[then.target], then.target, Calls(then.peer))
                 \subseteq {[id |-> then.id, initiator |-> then.peer >= then.target]}
    BY <2>1 DEF Delivered, AnswerFits
  <2>4. conn'[then.target] = "open" => roomOf'[then.target] # None /\ announced'[then.target]
    BY <1>2, <1>3, <2>1, <2>2, <2>3
  <2>5. ASSUME roomOf'[then.peer] # None, roomOf'[then.target] # None
        PROVE  /\ roomOf'[then.peer] = roomOf'[then.target]
               /\ WillHold(work', told'[then.target], then.target, Calls(then.peer))
                    \subseteq {[id |-> then.id, initiator |-> then.peer >= then.target]}
    BY <1>1, <2>1, <2>3, <2>5
  <2>. QED
    BY <2>1, <2>3, <2>4, <2>5 DEF AnswerFits
<1>7. AnnouncedOnce'
  <2>. SUFFICES ASSUME then'.op = "announce" PROVE ~announced'[then'.peer]
    BY DEF AnnouncedOnce
  <2>1. then' = then /\ then.peer \in Conn
    BY DEF Consistent, TypeOK, Continuation, Done
  <2>2. ~announced[then.peer]
    BY <2>1 DEF Delivered, AnnouncedOnce
  <2>. QED
    BY <1>2, <2>1, <2>2
<1>. QED
  BY <1>4, <1>5, <1>6, <1>7 DEF Delivered

-----------------------------------------------------------------------------
(* Every step keeps the promise of delivery                                *)

NothingPending == work = <<>>

\* A handler that starts with an empty list.
LEMMA FirstSend ==
  ASSUME NothingPending, NEW f \in Frame, NEW S \in SUBSET Conn
  PROVE  /\ Send(f, S) = Extended(work, f, S) /\ work \in Seq(Item)
         /\ \A x, e, t : WillHold(work, x, e, t) = {Holds(x, t)}
<1>1. Send(f, S) \in Seq(Item)
  BY SendType
<1>. QED
  BY <1>1, HoldNothing DEF NothingPending, Extended

\* A frame is accepted for c, or the queue of c overflows and c is disconnected,
\* with the peer.left and the lowered hand this cascades to.
LEMMA EnqueueOneDelivers ==
  ASSUME Consistent, Delivered, NEW c \in Conn, EnqueueOne(c)
  PROVE  Delivered'
<1>1. /\ work \in Seq(Item) /\ work # <<>> /\ then' = then /\ c \in Head(work).to
      /\ TypeOK /\ Maps
  BY DEF EnqueueOne, Consistent, TypeOK
<1>2. /\ Without(c) \in Seq(Item)
      /\ \A e \in Conn \ {c}, t \in Topic : WillHold(Without(c), told[e], e, t) = WillHold(work, told[e], e, t)
  BY <1>1, WithoutType, HoldOthers
<1>3. CASE SkipDisconnected(c)
  <2>1. /\ work' = Without(c) /\ conn[c] # "open"
        /\ UNCHANGED <<roomOf, announced, hands, study, told, conn>>
    BY <1>3 DEF SkipDisconnected, peerVars, roomVars
  <2>2. roomOf[c] = None
    BY <1>1, <2>1 DEF Maps, MembersAgree
  <2>3. ASSUME NEW e \in Conn, roomOf[e] # None, NEW t \in Topic
        PROVE  /\ WillHold(work', told'[e], e, t) \subseteq WillHold(work, told[e], e, t)
               /\ Truth(e, t) \subseteq Truth(e, t)'
    BY <1>2, <2>1, <2>2, <2>3, SameTruth
  <2>. QED
    BY <1>1, <2>1, <2>3, NothingNew
<1>4. ASSUME NEW v \in Conn, NEW w \in Seq(Item), Disconnect(v, w),
             \A e \in Conn \ {v}, t \in Topic : WillHold(w, told[e], e, t) = WillHold(work, told[e], e, t)
      PROVE  Delivered'
  <2>1. RemovePeerFromRoom(v, w, FALSE) /\ conn' = [conn EXCEPT ![v] = "gone"]
    BY <1>4 DEF Disconnect
  <2>. QED
    BY <1>1, <1>4, <2>1, DepartureDelivers
<1>5. CASE CloseExpiredTarget(c) \/ CloseOverflowingTarget(c)
  BY <1>2, <1>4, <1>5 DEF CloseExpiredTarget, CloseOverflowingTarget
<1>6. CASE CloseVictim(c)
  <2>1. PICK v \in Conn : Disconnect(v, IF v = c THEN Without(c) ELSE work)
    BY <1>6 DEF CloseVictim, Victims, Candidates
  <2>2. CASE v = c
    BY <1>2, <1>4, <2>1, <2>2
  <2>3. CASE v # c
    BY <1>1, <1>4, <2>1, <2>3
  <2>. QED
    BY <2>2, <2>3
<1>7. CASE Accept(c)
  <2>1. /\ told' = [told EXCEPT ![c] = Tell(@, Head(work).frame)]
        /\ work' = Without(c)
        /\ UNCHANGED <<roomOf, announced, hands, study, conn>>
    BY <1>7 DEF Accept, peerVars, roomVars
  <2>2. /\ told'[c] = Tell(told[c], Head(work).frame) /\ told[c] \in Told
        /\ \A e \in Conn \ {c} : told'[e] = told[e]
    BY <1>1, <2>1 DEF TypeOK
  <2>3. ASSUME NEW e \in Conn, NEW t \in Topic
        PROVE  WillHold(work', told'[e], e, t) \subseteq WillHold(work, told[e], e, t)
    <3>1. CASE e = c
      BY <1>1, <2>1, <2>2, <3>1, HoldAccepted
    <3>2. CASE e # c
      BY <1>2, <2>1, <2>2, <3>2
    <3>. QED
      BY <3>1, <3>2
  <2>4. \A e \in Conn, t \in Topic : Truth(e, t)' = Truth(e, t)
    BY <2>1, SameTruth
  <2>. QED
    BY <1>1, <2>1, <2>3, <2>4, NothingNew
<1>. QED
  BY <1>3, <1>5, <1>6, <1>7 DEF EnqueueOne

\* What is true of the study after a join: others hold it already or nothing.
LEMMA EntryKeepsStudy ==
  ASSUME Consistent, NEW c \in Conn, NEW r \in Room, NEW as, NEW saved, EnterRoom(c, r, as, saved),
         NEW e \in Conn, roomOf[e] # None
  PROVE  {None, study[roomOf[e]]} \subseteq {None, study'[roomOf[e]]} /\ hands' = hands
<1>1. study' = [study EXCEPT ![r] = StudyOnEntry(r, saved)] /\ hands' = hands
  BY DEF EnterRoom
<1>2. roomOf[e] \in Room
  BY DEF Consistent, TypeOK
<1>3. CASE roomOf[e] = r /\ study[r] # None
  BY <1>1, <1>2, <1>3 DEF StudyOnEntry, Consistent, TypeOK
<1>4. CASE roomOf[e] # r \/ study[r] = None
  BY <1>1, <1>2, <1>4 DEF Consistent, TypeOK
<1>. QED
  BY <1>1, <1>3, <1>4

\* A join into a room that its peer and the rest of the room are not in doubt
\* about: the room is full, or the peer is told all of it.
LEMMA EnterDelivers ==
  ASSUME Consistent, Delivered, NothingPending, NEW c \in Conn, NEW r \in Room, NEW as \in Role, NEW saved,
         EnterRoom(c, r, as, saved), roomOf[c] = None, then.op \in {"done", "join"},
         \A d \in Conn : announced[d] <=> roomOf[d] # None
  PROVE  Delivered'
<1>1. TypeOK /\ Maps /\ UNCHANGED <<conn, announced, hands, told>>
  BY DEF Consistent, EnterRoom
<1>2. \A e \in Conn : roomOf[e] # None => {None, study[roomOf[e]]} \subseteq {None, study'[roomOf[e]]}
  BY EntryKeepsStudy
<1>3. CASE Cardinality(members[r]) >= MaxRoomSize
  <2>1. work' = Send(Notice("error"), {c}) /\ then' = Done /\ roomOf' = roomOf
    BY <1>3 DEF EnterRoom, Refusal
  <2>2. Notice("error") \in Frame /\ \A t : ~Concerns(Notice("error"), t)
    BY NoticesAreSilent
  <2>3. work' = Extended(work, Notice("error"), {c}) /\ work \in Seq(Item)
    BY <2>1, <2>2, FirstSend
  <2>4. ASSUME NEW e \in Conn, roomOf[e] # None, NEW t \in Topic
        PROVE  /\ WillHold(work', told'[e], e, t) \subseteq WillHold(work, told[e], e, t)
               /\ Truth(e, t) \subseteq Truth(e, t)'
    <3>1. WillHold(work', told[e], e, t) = WillHold(work, told[e], e, t)
      BY <2>2, <2>3, HoldSend
    <3>2. Truth(e, t) \subseteq Truth(e, t)'
      <4>1. CASE t.on = "study"
        BY <1>2, <2>1, <2>4, <4>1 DEF Truth
      <4>2. CASE t.on # "study"
        BY <1>1, <2>1, <4>2 DEF Truth, Knows, Topic
      <4>. QED
        BY <4>1, <4>2
    <3>. QED
      BY <1>1, <3>1, <3>2
  <2>5. then'.op \notin {"answer", "announce"} /\ then.op # "answer"
    BY <2>1 DEF Done
  <2>. QED
    BY <1>1, <2>1, <2>4, <2>5, NothingNew
<1>4. CASE ~(Cardinality(members[r]) >= MaxRoomSize)
  <2>. DEFINE f == [kind |-> "room.joined", peers |-> members[r]]
  <2>1. /\ roomOf' = [roomOf EXCEPT ![c] = r]
        /\ work' = Send(f, {c})
        /\ then' = [op |-> "announce", peer |-> c]
    BY <1>4 DEF EnterRoom
  <2>2. f \in Frame /\ f.kind = "room.joined" /\ f.peers = members[r]
    BY <1>1 DEF TypeOK, Frame
  <2>3. work' = Extended(work, f, {c}) /\ work \in Seq(Item)
    BY <2>1, <2>2, FirstSend
  <2>4. \A d \in Conn : roomOf'[d] = IF d = c THEN r ELSE roomOf[d]
    BY <1>1, <2>1 DEF TypeOK
  <2>. HIDE DEF f
  <2>5. \A t \in Topic : Concerns(f, t)
    BY <2>2 DEF Concerns
  <2>6. \A t \in Topic : WillHold(work', told'[c], c, t) = {Stated(f, t)}
    BY <2>2, <2>3, <2>5, HoldSend
  <2>7. ASSUME NEW e \in Conn \ {c}, NEW t \in Topic
        PROVE  WillHold(work', told'[e], e, t) = WillHold(work, told[e], e, t)
    <3>. DEFINE S == {c}
    <3>1. e \in Conn /\ e \notin S /\ S \in SUBSET Conn
      OBVIOUS
    <3>. HIDE DEF S
    <3>2. WillHold(Extended(work, f, S), told[e], e, t) = WillHold(work, told[e], e, t)
      BY <2>2, <2>3, <3>1, HoldSend
    <3>. QED
      BY <1>1, <2>3, <3>2 DEF S
  <2>8. \A d \in members[r] : d \in Conn /\ d # c
    BY <1>1, RoomAssumption DEF TypeOK, Maps, MembersAgree
  <2>9. ASSUME NEW d \in Conn PROVE Knows(c, d)' <=> d \in members[r]
    <3>1. Knows(c, d)' <=> d # c /\ roomOf[d] = r /\ announced[d]
      BY <1>1, <2>4 DEF Knows
    <3>2. roomOf[d] = r => announced[d]
      BY RoomAssumption
    <3>3. d \in members[r] <=> roomOf[d] = r
      BY <1>1 DEF Maps, MembersAgree
    <3>. QED
      BY <2>8, <3>1, <3>2, <3>3
  <2>10. ASSUME NEW e \in Conn \ {c}, roomOf[e] # None, NEW d \in Conn PROVE Knows(e, d)' <=> Knows(e, d)
    <3>1. CASE d = c
      BY <1>1, <3>1 DEF Knows
    <3>2. CASE d # c
      BY <1>1, <2>4, <3>2 DEF Knows
    <3>. QED
      BY <3>1, <3>2
  <2>11. ASSUME NEW t \in Topic PROVE Stated(f, t) \in Truth(c, t)'
    <3>1. CASE t.on = "roster"
      BY <2>2, <2>9, <3>1 DEF Stated, Truth, Topic
    <3>2. CASE t.on # "roster"
      BY <2>2, <3>2 DEF Stated, Truth, Topic
    <3>. QED
      BY <3>1, <3>2
  <2>12. ASSUME NEW e \in Conn \ {c}, roomOf[e] # None, NEW t \in Topic
         PROVE  Truth(e, t) \subseteq Truth(e, t)'
    <3>1. CASE t.on = "study"
      BY <1>2, <2>4, <2>12, <3>1 DEF Truth
    <3>2. CASE t.on = "hands"
      BY <1>1, <2>4, <3>2 DEF Truth
    <3>3. CASE t.on \in {"roster", "calls"}
      <4>1. Knows(e, t.peer)' <=> Knows(e, t.peer)
        BY <2>10, <2>12, <3>3 DEF Topic
      <4>. QED
        BY <3>3, <4>1 DEF Truth
    <3>. QED
      BY <3>1, <3>2, <3>3 DEF Topic
  <2>13. TruthIsOnItsWay'
    <3>. SUFFICES ASSUME NEW e \in Conn, roomOf'[e] # None, NEW t \in Topic
                  PROVE  WillHold(work', told'[e], e, t) \subseteq Truth(e, t)'
      BY DEF TruthIsOnItsWay
    <3>1. CASE e = c
      <4>1. WillHold(work', told'[c], c, t) = {Stated(f, t)} /\ Stated(f, t) \in Truth(c, t)'
        BY <2>6, <2>11
      <4>. QED
        BY <3>1, <4>1
    <3>2. CASE e # c
      <4>1. roomOf[e] # None
        BY <2>4, <3>2
      <4>2. WillHold(work, told[e], e, t) \subseteq Truth(e, t)
        BY <4>1 DEF Delivered, TruthIsOnItsWay
      <4>. QED
        BY <2>7, <2>12, <3>2, <4>1, <4>2
    <3>. QED
      BY <3>1, <3>2
  <2>14. \A d \in Conn : Calls(d) \in Topic /\ Calls(d).on = "calls" /\ Calls(d).peer = d
    BY DEF Calls, Topic
  <2>15. ASSUME NEW d \in Conn \ {c}
         PROVE  /\ WillHold(work', told'[c], c, Calls(d)) = {None}
                /\ roomOf'[d] = r => WillHold(work', told'[d], d, Calls(c)) \subseteq {None}
    <3>1. Stated(f, Calls(d)) = None
      BY <2>2, <2>14 DEF Stated
    <3>2. ASSUME roomOf'[d] = r PROVE WillHold(work', told'[d], d, Calls(c)) \subseteq {None}
      <4>1. roomOf[d] # None
        BY <2>4, <3>2, RoomAssumption
      <4>2. ~Knows(d, c)
        BY DEF Knows
      <4>3. WillHold(work, told[d], d, Calls(c)) \subseteq Truth(d, Calls(c))
        BY <2>14, <4>1 DEF Delivered, TruthIsOnItsWay
      <4>4. Truth(d, Calls(c)) = {None}
        BY <2>14, <4>2 DEF Truth
      <4>. QED
        BY <2>7, <2>14, <4>3, <4>4
    <3>. QED
      BY <2>6, <2>14, <3>1, <3>2
  <2>16. PairsMatch'
    <3>. SUFFICES ASSUME NEW e \in Conn, NEW d \in Conn, e # d, roomOf'[e] # None, roomOf'[e] = roomOf'[d],
                         NEW v \in WillHold(work', told'[e], e, Calls(d)),
                         NEW u \in WillHold(work', told'[d], d, Calls(e))
                  PROVE  Paired(v, u)
      BY DEF PairsMatch
    <3>1. CASE e = c \/ d = c
      <4>1. v = None /\ u = None
        <5>1. CASE e = c
          <6>1. d \in Conn \ {c} /\ roomOf'[d] = r
            BY <2>4, <5>1
          <6>2. /\ WillHold(work', told'[c], c, Calls(d)) = {None}
                /\ WillHold(work', told'[d], d, Calls(c)) \subseteq {None}
            BY <2>15, <6>1
          <6>. QED
            BY <5>1, <6>2
        <5>2. CASE d = c
          <6>1. e \in Conn \ {c} /\ roomOf'[e] = r
            BY <2>4, <5>2
          <6>2. /\ WillHold(work', told'[c], c, Calls(e)) = {None}
                /\ WillHold(work', told'[e], e, Calls(c)) \subseteq {None}
            BY <2>15, <6>1
          <6>. QED
            BY <5>2, <6>2
        <5>. QED
          BY <3>1, <5>1, <5>2
      <4>. QED
        BY <4>1 DEF Paired
    <3>2. CASE e # c /\ d # c
      <4>1. roomOf[e] # None /\ roomOf[e] = roomOf[d]
        BY <2>4, <3>2
      <4>2. v \in WillHold(work, told[e], e, Calls(d)) /\ u \in WillHold(work, told[d], d, Calls(e))
        BY <2>7, <2>14, <3>2
      <4>3. ~Answering(e, d)
        BY DEF Answering
      <4>. QED
        BY <4>1, <4>2, <4>3 DEF Delivered, PairsMatch
    <3>. QED
      BY <3>1, <3>2
  <2>17. AnswerFits' /\ AnnouncedOnce'
    <3>1. then'.op = "announce" /\ then'.peer = c /\ ~announced'[c]
      BY <1>1, <2>1
    <3>. QED
      BY <3>1 DEF AnswerFits, AnnouncedOnce
  <2>. QED
    BY <2>13, <2>16, <2>17 DEF Delivered
<1>. QED
  BY <1>3, <1>4

\* The others are told of the new member once its own room.joined is accepted,
\* and it is in doubt no longer whether they know it.
LEMMA AnnounceDelivers ==
  ASSUME Consistent, Delivered, Announce
  PROVE  Delivered'
<1>. DEFINE c == then.peer
            others == Roommates(c)
            f == PeerJoined(c)
<1>1. /\ then.op = "announce" /\ TypeOK /\ Maps /\ ContinuationFits /\ NothingPending /\ then' = Done
      /\ UNCHANGED <<conn, roomOf, members, study, hands, told>>
  BY DEF Announce, Consistent, roomVars, NothingPending
<1>2. c \in Conn /\ ~announced[c] /\ then'.op = "done"
  BY <1>1 DEF TypeOK, Continuation, Done, Delivered, AnnouncedOnce
<1>3. CASE conn[c] # "open" /\ UNCHANGED <<announced, work>>
  BY <1>1, <1>2, <1>3, NoticeDelivers
<1>4. CASE conn[c] = "open" /\ announced' = [announced EXCEPT ![c] = TRUE] /\ work' = Send(f, others)
  <2>1. /\ f \in Frame /\ f.kind = "peer.joined" /\ f.peer = c
        /\ others \in SUBSET Conn /\ roomOf[c] \in Room
    BY <1>1, <1>2, <1>4 DEF PeerJoined, Frame, Roommates, TypeOK, ContinuationFits
  <2>2. \A e \in Conn : e \in others <=> e # c /\ roomOf[e] = roomOf[c]
    BY <1>1, <1>2, <2>1, RoomAssumption DEF Roommates, Maps, MembersAgree
  <2>3. /\ work' = Extended(work, f, others) /\ work \in Seq(Item)
        /\ \A x, e, t : WillHold(work, x, e, t) = {Holds(x, t)}
    BY <1>1, <1>4, <2>1, FirstSend
  <2>4. \A e \in Conn, t \in Topic :
          Concerns(f, t) <=> t.on \in {"roster", "calls"} /\ t.peer = c
    BY <2>1 DEF Concerns
  <2>. HIDE DEF f, others, c
  <2>5. ASSUME NEW e \in Conn, NEW t \in Topic
        PROVE  /\ e \in others /\ t.on \in {"roster", "calls"} /\ t.peer = c =>
                    WillHold(work', told'[e], e, t) = {Stated(f, t)}
               /\ ~(e \in others /\ t.on \in {"roster", "calls"} /\ t.peer = c) =>
                    WillHold(work', told'[e], e, t) = WillHold(work, told[e], e, t)
    BY <1>1, <2>1, <2>3, <2>4, HoldSend
  <2>6. \A d \in Conn : announced'[d] = (announced[d] \/ d = c)
    BY <1>1, <1>2, <1>4 DEF TypeOK, c
  <2>7. TruthIsOnItsWay'
    <3>. SUFFICES ASSUME NEW e \in Conn, roomOf[e] # None, NEW t \in Topic
                  PROVE  WillHold(work', told'[e], e, t) \subseteq Truth(e, t)'
      BY <1>1 DEF TruthIsOnItsWay
    <3>1. CASE e \in others /\ t.on \in {"roster", "calls"} /\ t.peer = c
      <4>1. Knows(e, t.peer)'
        BY <1>1, <1>2, <2>2, <2>6, <3>1 DEF Knows, c
      <4>2. Stated(f, t) \in Truth(e, t)'
        BY <2>1, <3>1, <4>1 DEF Stated, Truth
      <4>3. WillHold(work', told'[e], e, t) = {Stated(f, t)}
        BY <2>5, <3>1
      <4>. QED
        BY <4>2, <4>3
    <3>2. CASE ~(e \in others /\ t.on \in {"roster", "calls"} /\ t.peer = c)
      <4>1. WillHold(work', told'[e], e, t) = WillHold(work, told[e], e, t)
        BY <2>5, <3>2
      <4>2. WillHold(work, told[e], e, t) \subseteq Truth(e, t)
        BY DEF Delivered, TruthIsOnItsWay
      <4>3. CASE t.on \in {"roster", "calls"}
        <5>1. Knows(e, t.peer)' <=> Knows(e, t.peer)
          BY <1>1, <2>2, <2>6, <3>2, <4>3 DEF Knows, Topic
        <5>. QED
          BY <4>1, <4>2, <4>3, <5>1 DEF Truth
      <4>4. CASE t.on \in {"hands", "study"}
        BY <1>1, <4>1, <4>2, <4>4 DEF Truth
      <4>. QED
        BY <4>3, <4>4 DEF Topic
    <3>. QED
      BY <3>1, <3>2
  <2>8. \A d \in Conn : Calls(d) \in Topic /\ Calls(d).on = "calls" /\ Calls(d).peer = d
    BY DEF Calls, Topic
  <2>9. ASSUME NEW e \in Conn, e # c, roomOf[e] # None
        PROVE  /\ WillHold(work', told'[e], e, Calls(c)) \subseteq {None}
               /\ WillHold(work, told[e], e, Calls(c)) = {None}
    <3>1. ~Knows(e, c)
      BY <1>2 DEF Knows, c
    <3>2. WillHold(work, told[e], e, Calls(c)) \subseteq Truth(e, Calls(c))
      BY <1>2, <2>8, <2>9 DEF Delivered, TruthIsOnItsWay, c
    <3>3. Truth(e, Calls(c)) = {None}
      BY <1>2, <2>8, <3>1 DEF Truth, c
    <3>4. WillHold(work, told[e], e, Calls(c)) = {None}
      <4>1. WillHold(work, told[e], e, Calls(c)) = {Holds(told[e], Calls(c))}
        BY <2>3
      <4>. QED
        BY <3>2, <3>3, <4>1
    <3>5. Stated(f, Calls(c)) = None
      BY <1>2, <2>1, <2>8 DEF Stated, c
    <3>6. WillHold(work', told'[e], e, Calls(c)) \subseteq {None}
      <4>1. c \in Conn
        BY <1>2 DEF c
      <4>2. CASE e \in others
        <5>1. WillHold(work', told'[e], e, Calls(c)) = {Stated(f, Calls(c))}
          BY <2>5, <2>8, <4>1, <4>2
        <5>. QED
          BY <3>5, <5>1
      <4>3. CASE e \notin others
        BY <2>5, <2>8, <3>4, <4>1, <4>3
      <4>. QED
        BY <4>2, <4>3
    <3>. QED
      BY <3>4, <3>6
  <2>10. ASSUME NEW e \in Conn, NEW d \in Conn, d # c
         PROVE  WillHold(work', told'[e], e, Calls(d)) = WillHold(work, told[e], e, Calls(d))
    BY <2>5, <2>8, <2>10
  <2>11. ASSUME NEW d \in Conn, d # c, roomOf[d] # None, roomOf[d] = roomOf[c],
                NEW v \in WillHold(work', told'[c], c, Calls(d)),
                NEW u \in WillHold(work', told'[d], d, Calls(c))
         PROVE  v = None /\ u = None
    <3>1. c \in Conn /\ roomOf[c] # None
      BY <1>2, <2>11 DEF c
    <3>2. u = None
      BY <2>9, <2>11
    <3>3. v \in WillHold(work, told[c], c, Calls(d))
      BY <2>10, <2>11, <3>1
    <3>4. None \in WillHold(work, told[d], d, Calls(c))
      BY <2>9, <2>11
    <3>5. ~Answering(c, d)
      BY <1>1 DEF Answering
    <3>6. Paired(v, None)
      BY <2>11, <3>1, <3>3, <3>4, <3>5 DEF Delivered, PairsMatch
    <3>. QED
      BY <3>2, <3>6 DEF Paired
  <2>12. PairsMatch'
    <3>. SUFFICES ASSUME NEW e \in Conn, NEW d \in Conn, e # d, roomOf[e] # None, roomOf[e] = roomOf[d],
                         NEW v \in WillHold(work', told'[e], e, Calls(d)),
                         NEW u \in WillHold(work', told'[d], d, Calls(e))
                  PROVE  Paired(v, u)
      BY <1>1 DEF PairsMatch
    <3>1. CASE e = c
      BY <2>11, <3>1 DEF Paired
    <3>2. CASE d = c
      BY <2>11, <3>2 DEF Paired
    <3>3. CASE e # c /\ d # c
      <4>1. v \in WillHold(work, told[e], e, Calls(d)) /\ u \in WillHold(work, told[d], d, Calls(e))
        BY <2>10, <3>3
      <4>2. ~Answering(e, d)
        BY <1>1 DEF Answering
      <4>. QED
        BY <4>1, <4>2 DEF Delivered, PairsMatch
    <3>. QED
      BY <3>1, <3>2, <3>3
  <2>13. AnswerFits' /\ AnnouncedOnce'
    BY <1>2 DEF AnswerFits, AnnouncedOnce
  <2>. QED
    BY <2>7, <2>12, <2>13 DEF Delivered
<1>. QED
  BY <1>3, <1>4 DEF Announce

\* A join with or without an earlier connection of the participant to replace.
LEMMA JoinDelivers ==
  ASSUME Consistent, Delivered, NEW c \in Conn, NEW r \in Room, NEW as \in Role, Join(c, r, as)
  PROVE  Delivered'
<1>1. then = Done /\ NothingPending /\ roomOf[c] = None /\ TypeOK /\ ContinuationFits
  BY DEF Join, Serving, Idle, Consistent, NothingPending
<1>2. then.op = "done" /\ \A d \in Conn : announced[d] <=> roomOf[d] # None
  BY <1>1, AtRest DEF Done
<1>3. CASE EnterRoom(c, r, as, None)
  BY <1>1, <1>2, <1>3, EnterDelivers
<1>4. CASE Supersede(c, r, as)
  <2>1. PICK e \in Conn :
          /\ Disconnect(e, <<>>)
          /\ \/ UNCHANGED then
             \/ then' = [op |-> "join", peer |-> c, room |-> r, role |-> as, study |-> study[r]]
    <3>1. SameParticipant(c, r) \subseteq Conn
      BY <1>1 DEF SameParticipant, TypeOK
    <3>. QED
      BY <1>4, <3>1 DEF Supersede
  <2>2. /\ RemovePeerFromRoom(e, <<>>, FALSE) /\ conn' = [conn EXCEPT ![e] = "gone"]
        /\ <<>> \in Seq(Item)
        /\ \A d \in Conn \ {e}, t \in Topic : WillHold(<<>>, told[d], d, t) = WillHold(work, told[d], d, t)
    <3>1. RemovePeerFromRoom(e, <<>>, FALSE) /\ conn' = [conn EXCEPT ![e] = "gone"]
      BY <2>1 DEF Disconnect
    <3>2. <<>> \in Seq(Item)
      OBVIOUS
    <3>3. work = <<>>
      BY <1>1 DEF NothingPending
    <3>. QED
      BY <3>1, <3>2, <3>3
  <2>3. then'.op \notin {"answer", "announce"}
    <3>1. CASE UNCHANGED then
      BY <1>2, <3>1
    <3>2. CASE then' = [op |-> "join", peer |-> c, room |-> r, role |-> as, study |-> study[r]]
      BY <3>2
    <3>. QED
      BY <2>1, <3>1, <3>2
  <2>. QED
    BY <1>1, <2>2, <2>3, DepartureDelivers
<1>. QED
  BY <1>3, <1>4 DEF Join

\* The join goes on after the replaced connection was announced as gone.
LEMMA ResumeJoinDelivers ==
  ASSUME Consistent, Delivered, ResumeJoin
  PROVE  Delivered'
<1>1. then.op = "join" /\ NothingPending /\ TypeOK /\ ContinuationFits
  BY DEF ResumeJoin, Consistent, NothingPending
<1>2. then.peer \in Conn /\ then.room \in Room /\ then.role \in Role /\ roomOf[then.peer] = None
  BY <1>1 DEF TypeOK, Continuation, ContinuationFits
<1>3. \A d \in Conn : announced[d] <=> roomOf[d] # None
  BY <1>1, AtRest
<1>4. CASE EnterRoom(then.peer, then.room, then.role, then.study)
  BY <1>1, <1>2, <1>3, <1>4, EnterDelivers
<1>5. CASE then' = Done /\ UNCHANGED <<running, peerVars, roomVars, lineVars, calls, work, told>>
  <2>1. then'.op = "done" /\ UNCHANGED <<roomOf, announced, hands, study, told, conn, work>>
    BY <1>5 DEF Done, peerVars, roomVars
  <2>. QED
    BY <1>1, <2>1, NoticeDelivers
<1>. QED
  BY <1>4, <1>5 DEF ResumeJoin

\* A member leaves, or its transport is gone.
LEMMA LeaveDelivers ==
  ASSUME Consistent, Delivered, NEW c \in Conn, Leave(c) \/ Drop(c)
  PROVE  Delivered'
<1>1. then = Done /\ NothingPending
  BY DEF Leave, Drop, Serving, Idle, NothingPending
<1>2. /\ <<>> \in Seq(Item)
      /\ \A d \in Conn \ {c}, t \in Topic : WillHold(<<>>, told[d], d, t) = WillHold(work, told[d], d, t)
  <2>1. work = <<>>
    BY <1>1 DEF NothingPending
  <2>. QED
    BY <2>1
<1>3. \E b \in BOOLEAN : RemovePeerFromRoom(c, <<>>, b)
  BY DEF Leave, Drop, Disconnect
<1>4. then = Done /\ then'.op \notin {"answer", "announce"}
  <2>1. then' = then
    BY DEF Leave, Drop
  <2>. QED
    BY <1>1, <2>1 DEF Done
<1>. QED
  BY <1>2, <1>3, <1>4, DepartureDelivers

\* Refuse, Relay and Moderate, and the refusal that ends a reconnection.
LEMMA ForwardDelivers ==
  ASSUME Consistent, Delivered,
         \/ RefuseReconnect
         \/ \E c \in Conn : Refuse(c) \/ \E d \in Conn : Relay(c, d) \/ Moderate(c, d)
  PROVE  Delivered'
<1>1. TypeOK
  BY DEF Consistent
<1>2. \E S \in SUBSET Conn, k \in {"error", "relay", "moderation.media-disabled"} : work' = Send(Notice(k), S)
  <2>1. CASE RefuseReconnect
    <3>1. then.peer \in Conn /\ work' = Send(Notice("error"), {then.peer})
      BY <1>1, <2>1 DEF RefuseReconnect, Refusal, TypeOK, Continuation
    <3>. QED
      BY <3>1
  <2>2. ASSUME NEW c \in Conn, Refuse(c) \/ \E d \in Conn : Relay(c, d) \/ Moderate(c, d)
        PROVE  \E d \in Conn, k \in {"error", "relay", "moderation.media-disabled"} : work' = Send(Notice(k), {d})
    <3>1. CASE Refuse(c)
      BY <2>2, <3>1 DEF Refuse, Refusal
    <3>2. ASSUME NEW d \in Conn, Relay(c, d)
          PROVE  \E e \in Conn, k \in {"error", "relay", "moderation.media-disabled"} : work' = Send(Notice(k), {e})
      BY <3>2 DEF Relay
    <3>3. ASSUME NEW d \in Conn, Moderate(c, d)
          PROVE  \E e \in Conn, k \in {"error", "relay", "moderation.media-disabled"} : work' = Send(Notice(k), {e})
      BY <3>3 DEF Moderate, Refusal
    <3>. QED
      BY <2>2, <3>1, <3>2, <3>3
  <2>3. \A d \in Conn : {d} \in SUBSET Conn
    OBVIOUS
  <2>. QED
    BY <2>1, <2>2, <2>3
<1>3. /\ NothingPending /\ UNCHANGED <<roomOf, announced, hands, study, told, conn>>
      /\ then' = then \/ (then.op # "answer" /\ then'.op \notin {"answer", "announce"})
  <2>1. CASE RefuseReconnect
    BY <2>1 DEF RefuseReconnect, NothingPending, Unmoved, peerVars, Done
  <2>2. CASE ~RefuseReconnect
    BY <2>2 DEF Refuse, Relay, Moderate, Serving, Idle, NothingPending, Unmoved, peerVars
  <2>. QED
    BY <2>1, <2>2
<1>4. \E S \in SUBSET Conn, k \in {"error", "relay", "moderation.media-disabled"} :
        work' = Extended(work, Notice(k), S)
  BY <1>2, <1>3, FirstSend, NoticesAreSilent
<1>. QED
  BY <1>1, <1>3, <1>4, NoticeDelivers

\* The step tells d that topic t stands at v, and nobody anything else.
OnlyTold(d, t, v) ==
  /\ t \in Topic
  /\ WillHold(work', told'[d], d, t) = {v}
  /\ \A e \in Conn, s \in Topic : ~(e = d /\ s = t) =>
       WillHold(work', told'[e], e, s) = WillHold(work, told[e], e, s)

\* The ids of a reconnection reach the two peers they are for, and nobody else
\* holds anything new.
LEMMA CallTold ==
  ASSUME TypeOK, NEW c \in Conn, NEW d \in Conn, NEW n \in Nat, NEW b \in BOOLEAN,
         work' = Extended(work, Reconnected(c, n, b), {d}), told' = told
  PROVE  OnlyTold(d, Calls(c), [id |-> n, initiator |-> b])
<1>. DEFINE f == Reconnected(c, n, b)
            S == {d}
<1>1. /\ f \in Frame /\ f.kind = "peer.reconnect" /\ f.peer = c
      /\ f.call = [id |-> n, initiator |-> b]
  BY DEF Reconnected, Frame, Call
<1>2. /\ Calls(c) \in Topic /\ Calls(c).on = "calls" /\ Calls(c).peer = c
      /\ \A t \in Topic : t.on = "calls" /\ t.peer = c => t = Calls(c)
  BY DEF Calls, Topic
<1>3. \A t \in Topic : Concerns(f, t) <=> t = Calls(c)
  BY <1>1, <1>2 DEF Concerns
<1>4. S \in SUBSET Conn /\ (\A e : e \in S <=> e = d) /\ work \in Seq(Item)
  BY DEF TypeOK
<1>5. Stated(f, Calls(c)) = [id |-> n, initiator |-> b]
  BY <1>1, <1>2 DEF Stated
<1>. HIDE DEF f, S
<1>6. WillHold(work', told[d], d, Calls(c)) = {Stated(f, Calls(c))}
  BY <1>1, <1>2, <1>3, <1>4, HoldSend DEF f, S
<1>7. ASSUME NEW e \in Conn, NEW t \in Topic, ~(e = d /\ t = Calls(c))
      PROVE  WillHold(work', told[e], e, t) = WillHold(work, told[e], e, t)
  BY <1>1, <1>3, <1>4, <1>7, HoldSend DEF f, S
<1>. QED
  BY <1>2, <1>5, <1>6, <1>7 DEF OnlyTold

\* The first frame of a reconnection, after which its target holds the new id
\* and the caller still has the old one: AnswerFits is what remains to be told.
LEMMA ReconnectDelivers ==
  ASSUME Consistent, Delivered, NEW c \in Conn, NEW d \in Conn, Reconnect(c, d)
  PROVE  Delivered'
<1>1. /\ TypeOK /\ Maps /\ ContinuationFits /\ then = Done /\ NothingPending /\ d \in Roommates(c)
  BY DEF Consistent, Reconnect, Serving, Idle, NothingPending
<1>2. /\ then.op = "done" /\ d # c /\ roomOf[c] # None /\ roomOf[d] = roomOf[c]
      /\ \A e \in Conn : announced[e] <=> roomOf[e] # None
  <2>1. then.op = "done" /\ \A e \in Conn : announced[e] <=> roomOf[e] # None
    BY <1>1, AtRest DEF Done
  <2>2. roomOf[c] # None /\ d \in members[roomOf[c]] \ {c}
    BY <1>1 DEF Roommates
  <2>3. roomOf[c] \in Room
    BY <1>1, <2>2 DEF TypeOK
  <2>. QED
    BY <1>1, <2>1, <2>2, <2>3 DEF Maps, MembersAgree
<1>3. CASE Disconnect(d, <<>>) /\ then' = [op |-> "refuse", peer |-> c]
  <2>1. RemovePeerFromRoom(d, <<>>, FALSE)
    BY <1>3 DEF Disconnect
  <2>2. /\ <<>> \in Seq(Item)
        /\ \A e \in Conn \ {d}, t \in Topic : WillHold(<<>>, told[e], e, t) = WillHold(work, told[e], e, t)
    BY <1>1 DEF NothingPending
  <2>3. then'.op \notin {"answer", "announce"}
    BY <1>3
  <2>. QED
    BY <1>1, <2>1, <2>2, <2>3, DepartureDelivers
<1>4. CASE /\ calls' = calls + 1
           /\ work' = Send(Reconnected(c, calls + 1, c >= d), {d})
           /\ then' = [op |-> "answer", peer |-> c, target |-> d, id |-> calls + 1]
           /\ UNCHANGED <<study, hands>> /\ Unmoved
  <2>. DEFINE b == c >= d
              n == calls + 1
  <2>1. n \in Nat /\ b \in BOOLEAN
    BY <1>1 DEF TypeOK
  <2>2. Reconnected(c, n, b) \in Frame
    BY <2>1 DEF Reconnected, Frame, Call
  <2>3. UNCHANGED <<roomOf, announced, hands, study, told, conn>>
    BY <1>4 DEF Unmoved, peerVars
  <2>4. work' = Extended(work, Reconnected(c, n, b), {d})
    BY <1>1, <1>4, <2>2, FirstSend
  <2>. HIDE DEF b, n
  <2>0. TypeOK /\ told' = told
    BY <1>1, <2>3
  <2>5. /\ Calls(c) \in Topic
        /\ WillHold(work', told'[d], d, Calls(c)) = {[id |-> n, initiator |-> b]}
        /\ \A e \in Conn, t \in Topic : ~(e = d /\ t = Calls(c)) =>
              WillHold(work', told'[e], e, t) = WillHold(work, told[e], e, t)
    <3>1. OnlyTold(d, Calls(c), [id |-> n, initiator |-> b])
      BY <2>0, <2>1, <2>4, CallTold
    <3>. QED
      BY <3>1 DEF OnlyTold
  <2>6. \A e \in Conn, t \in Topic : Truth(e, t)' = Truth(e, t)
    BY <2>3, SameTruth
  <2>7. TruthIsOnItsWay'
    <3>. SUFFICES ASSUME NEW e \in Conn, roomOf[e] # None, NEW t \in Topic
                  PROVE  WillHold(work', told'[e], e, t) \subseteq Truth(e, t)
      BY <2>3, <2>6 DEF TruthIsOnItsWay
    <3>1. CASE e = d /\ t = Calls(c)
      <4>1. Truth(d, Calls(c)) = Call \cup {None}
        BY <1>2, RoomAssumption DEF Truth, Calls, Knows
      <4>2. [id |-> n, initiator |-> b] \in Call
        BY <2>1 DEF Call
      <4>. QED
        BY <2>5, <3>1, <4>1, <4>2
    <3>2. CASE ~(e = d /\ t = Calls(c))
      BY <2>5, <3>2 DEF Delivered, TruthIsOnItsWay
    <3>. QED
      BY <3>1, <3>2
  <2>8. \A e \in Conn : Calls(e) \in Topic /\ (Calls(e) = Calls(c) => e = c)
    <3>1. \A e \in Conn : Calls(e) \in Topic /\ Calls(e).peer = e
      BY DEF Calls, Topic
    <3>. QED
      BY <3>1
  <2>9. /\ then'.op = "answer" /\ then'.peer = c /\ then'.target = d /\ then'.id = n
    BY <1>4 DEF n
  <2>10. PairsMatch'
    <3>. SUFFICES ASSUME NEW e \in Conn, NEW g \in Conn, e # g, roomOf[e] # None, roomOf[e] = roomOf[g],
                         ~Answering(e, g)',
                         NEW v \in WillHold(work', told'[e], e, Calls(g)),
                         NEW u \in WillHold(work', told'[g], g, Calls(e))
                  PROVE  Paired(v, u)
      BY <2>3 DEF PairsMatch
    <3>1. ~Answering(e, g)
      BY <1>2 DEF Answering
    <3>2. ~(e = d /\ g = c) /\ ~(g = d /\ e = c)
      BY <2>9 DEF Answering
    <3>3. v \in WillHold(work, told[e], e, Calls(g)) /\ u \in WillHold(work, told[g], g, Calls(e))
      <4>1. WillHold(work', told'[e], e, Calls(g)) = WillHold(work, told[e], e, Calls(g))
        BY <2>5, <2>8, <3>2
      <4>2. WillHold(work', told'[g], g, Calls(e)) = WillHold(work, told[g], g, Calls(e))
        BY <2>5, <2>8, <3>2
      <4>. QED
        BY <4>1, <4>2
    <3>. QED
      BY <3>1, <3>3 DEF Delivered, PairsMatch
  <2>11. AnswerFits'
    BY <1>2, <2>3, <2>5, <2>9 DEF AnswerFits, b
  <2>12. AnnouncedOnce'
    BY <2>9 DEF AnnouncedOnce
  <2>. QED
    BY <2>7, <2>10, <2>11, <2>12 DEF Delivered
<1>. QED
  BY <1>3, <1>4 DEF Reconnect

\* The second frame of a reconnection completes the pair, unless the first one
\* cost its receiver the connection.
LEMMA AnswerDelivers ==
  ASSUME Consistent, Delivered, AnswerReconnect
  PROVE  Delivered'
<1>. DEFINE c == then.peer
            d == then.target
            b == c < d
<1>1. /\ TypeOK /\ Maps /\ NothingPending /\ then.op = "answer" /\ then' = Done
      /\ UNCHANGED <<roomOf, announced, hands, study, told, conn>>
      /\ work' = IF conn[d] = "open" THEN Send(Reconnected(d, then.id, b), {c}) ELSE <<>>
  BY DEF Consistent, AnswerReconnect, NothingPending, Unmoved, peerVars
<1>2. c \in Conn /\ d \in Conn /\ then.id \in Nat /\ b \in BOOLEAN /\ then'.op = "done"
  BY <1>1 DEF TypeOK, Continuation, Done
<1>3. /\ c # d
      /\ conn[d] = "open" => roomOf[d] # None /\ announced[d]
      /\ roomOf[c] # None /\ roomOf[d] # None =>
           /\ roomOf[c] = roomOf[d]
           /\ WillHold(work, told[d], d, Calls(c)) \subseteq {[id |-> then.id, initiator |-> c >= d]}
  BY <1>1 DEF Delivered, AnswerFits
<1>4. AnswerFits' /\ AnnouncedOnce'
  BY <1>2 DEF AnswerFits, AnnouncedOnce
<1>5. \A e \in Conn, t \in Topic : Truth(e, t)' = Truth(e, t)
  BY <1>1, SameTruth
<1>6. ASSUME NEW e \in Conn, NEW g \in Conn PROVE Answering(e, g) <=> {e, g} = {c, d}
  BY <1>1 DEF Answering
<1>7. CASE conn[d] # "open"
  <2>1. roomOf[d] = None
    BY <1>1, <1>2, <1>7 DEF Maps, MembersAgree
  <2>2. work' = work
    BY <1>1, <1>7 DEF NothingPending
  <2>3. TruthIsOnItsWay'
    BY <1>1, <1>5, <2>2 DEF Delivered, TruthIsOnItsWay
  <2>4. PairsMatch'
    <3>. SUFFICES ASSUME NEW e \in Conn, NEW g \in Conn, e # g, roomOf[e] # None, roomOf[e] = roomOf[g],
                         NEW v \in WillHold(work, told[e], e, Calls(g)),
                         NEW u \in WillHold(work, told[g], g, Calls(e))
                  PROVE  Paired(v, u)
      BY <1>1, <2>2 DEF PairsMatch
    <3>1. ~Answering(e, g)
      BY <1>6, <2>1
    <3>. QED
      BY <3>1 DEF Delivered, PairsMatch
  <2>. QED
    BY <1>4, <2>3, <2>4 DEF Delivered
<1>8. CASE conn[d] = "open"
  <2>1. Reconnected(d, then.id, b) \in Frame
    BY <1>2 DEF Reconnected, Frame, Call
  <2>2. work' = Extended(work, Reconnected(d, then.id, b), {c})
    BY <1>1, <1>2, <1>8, <2>1, FirstSend
  <2>. DEFINE n == then.id
  <2>. HIDE DEF b, c, d, n
  <2>0. TypeOK /\ told' = told /\ n \in Nat
    BY <1>1, <1>2 DEF n
  <2>3. /\ Calls(d) \in Topic
        /\ WillHold(work', told'[c], c, Calls(d)) = {[id |-> n, initiator |-> b]}
        /\ \A e \in Conn, t \in Topic : ~(e = c /\ t = Calls(d)) =>
              WillHold(work', told'[e], e, t) = WillHold(work, told[e], e, t)
    <3>1. OnlyTold(c, Calls(d), [id |-> n, initiator |-> b])
      BY <1>2, <2>0, <2>2, CallTold DEF n
    <3>. QED
      BY <3>1 DEF OnlyTold
  <2>4. TruthIsOnItsWay'
    <3>. SUFFICES ASSUME NEW e \in Conn, roomOf[e] # None, NEW t \in Topic
                  PROVE  WillHold(work', told'[e], e, t) \subseteq Truth(e, t)
      BY <1>1, <1>5 DEF TruthIsOnItsWay
    <3>1. CASE e = c /\ t = Calls(d)
      <4>1. Knows(c, d)
        BY <1>2, <1>3, <1>8, <3>1 DEF Knows
      <4>2. Truth(c, Calls(d)) = Call \cup {None}
        BY <4>1 DEF Truth, Calls
      <4>3. [id |-> n, initiator |-> b] \in Call
        BY <1>2, <2>0 DEF Call
      <4>. QED
        BY <2>3, <3>1, <4>2, <4>3
    <3>2. CASE ~(e = c /\ t = Calls(d))
      BY <2>3, <3>2 DEF Delivered, TruthIsOnItsWay
    <3>. QED
      BY <3>1, <3>2
  <2>5. \A e \in Conn : Calls(e) \in Topic /\ (Calls(e) = Calls(d) => e = d)
    <3>1. \A e \in Conn : Calls(e) \in Topic /\ Calls(e).peer = e
      BY DEF Calls, Topic
    <3>. QED
      BY <1>2, <3>1
  <2>6. ASSUME roomOf[c] # None, roomOf[c] = roomOf[d],
               NEW v \in WillHold(work', told'[c], c, Calls(d)),
               NEW u \in WillHold(work', told'[d], d, Calls(c))
        PROVE  Paired(v, u) /\ Paired(u, v)
    <3>1. v = [id |-> n, initiator |-> b]
      BY <2>3, <2>6
    <3>2. u = [id |-> n, initiator |-> c >= d]
      <4>1. WillHold(work', told'[d], d, Calls(c)) = WillHold(work, told[d], d, Calls(c))
        BY <1>2, <1>3, <2>3, <2>5
      <4>. QED
        BY <1>3, <2>6, <4>1 DEF n
    <3>3. b # (c >= d)
      BY <1>2, ConnAssumption DEF b
    <3>4. v # None /\ u # None /\ v.id = u.id /\ v.initiator = b /\ u.initiator = (c >= d)
      <4>1. v \in Call /\ u \in Call
        BY <1>2, <2>0, <3>1, <3>2 DEF Call
      <4>2. None \notin Call
        BY NoneAssumption DEF Call
      <4>. QED
        BY <3>1, <3>2, <4>1, <4>2
    <3>. QED
      BY <3>3, <3>4 DEF Paired
  <2>7. PairsMatch'
    <3>. SUFFICES ASSUME NEW e \in Conn, NEW g \in Conn, e # g, roomOf[e] # None, roomOf[e] = roomOf[g],
                         NEW v \in WillHold(work', told'[e], e, Calls(g)),
                         NEW u \in WillHold(work', told'[g], g, Calls(e))
                  PROVE  Paired(v, u)
      BY <1>1 DEF PairsMatch
    <3>1. CASE e = c /\ g = d
      BY <2>6, <3>1
    <3>2. CASE e = d /\ g = c
      BY <2>6, <3>2
    <3>3. CASE ~(e = c /\ g = d) /\ ~(e = d /\ g = c)
      <4>1. ~Answering(e, g)
        BY <1>6, <3>3 DEF c, d
      <4>2. WillHold(work', told'[e], e, Calls(g)) = WillHold(work, told[e], e, Calls(g))
        BY <2>3, <2>5, <3>3
      <4>3. WillHold(work', told'[g], g, Calls(e)) = WillHold(work, told[g], g, Calls(e))
        BY <2>3, <2>5, <3>3
      <4>. QED
        BY <4>1, <4>2, <4>3 DEF Delivered, PairsMatch
    <3>. QED
      BY <3>1, <3>2, <3>3
  <2>. QED
    BY <1>4, <2>4, <2>7 DEF Delivered
<1>. QED
  BY <1>7, <1>8

\* A room-wide state, hands or study, is told to those it is new to.
LEMMA BroadcastDelivers ==
  ASSUME TypeOK, Delivered, then.op = "done", then' = then,
         UNCHANGED <<roomOf, announced, told>>,
         NEW T \in {HandTopic, StudyTopic}, NEW f \in Frame, NEW S \in SUBSET Conn,
         work' = Extended(work, f, S),
         \A t \in Topic : Concerns(f, t) <=> t = T,
         \A e \in S : roomOf[e] # None => Stated(f, T) \in Truth(e, T)',
         \A e \in Conn \ S : roomOf[e] # None => Truth(e, T) \subseteq Truth(e, T)',
         \A e \in Conn, t \in Topic \ {T} : Truth(e, t)' = Truth(e, t)
  PROVE  Delivered'
<1>1. /\ work \in Seq(Item) /\ T \in Topic /\ T.on \in {"hands", "study"}
      /\ \A d \in Conn : Calls(d) \in Topic /\ Calls(d).on = "calls"
  BY DEF TypeOK, HandTopic, StudyTopic, Calls, Topic
<1>2. ASSUME NEW e \in S PROVE WillHold(work', told'[e], e, T) = {Stated(f, T)}
  BY <1>1, HoldSend
<1>3. ASSUME NEW e \in Conn, NEW t \in Topic, ~(e \in S /\ t = T)
      PROVE  WillHold(work', told'[e], e, t) = WillHold(work, told[e], e, t)
  BY <1>1, <1>3, HoldSend
<1>4. TruthIsOnItsWay'
  <2>. SUFFICES ASSUME NEW e \in Conn, roomOf[e] # None, NEW t \in Topic
                PROVE  WillHold(work', told'[e], e, t) \subseteq Truth(e, t)'
    BY DEF TruthIsOnItsWay
  <2>1. WillHold(work, told[e], e, t) \subseteq Truth(e, t)
    BY DEF Delivered, TruthIsOnItsWay
  <2>2. CASE e \in S /\ t = T
    <3>1. WillHold(work', told'[e], e, t) = {Stated(f, T)} /\ Stated(f, T) \in Truth(e, T)'
      BY <1>2, <2>2
    <3>. QED
      BY <2>2, <3>1
  <2>3. CASE e \notin S /\ t = T
    <3>1. WillHold(work', told'[e], e, t) = WillHold(work, told[e], e, t)
      BY <1>3, <2>3
    <3>2. Truth(e, T) \subseteq Truth(e, T)'
      BY <2>3
    <3>. QED
      BY <2>1, <2>3, <3>1, <3>2
  <2>4. CASE t # T
    <3>1. WillHold(work', told'[e], e, t) = WillHold(work, told[e], e, t)
      BY <1>3, <2>4
    <3>2. Truth(e, t)' = Truth(e, t)
      BY <2>4
    <3>. QED
      BY <2>1, <3>1, <3>2
  <2>. QED
    BY <2>2, <2>3, <2>4
<1>5. PairsMatch'
  <2>. SUFFICES ASSUME NEW e \in Conn, NEW g \in Conn, e # g, roomOf[e] # None, roomOf[e] = roomOf[g],
                       NEW v \in WillHold(work', told'[e], e, Calls(g)),
                       NEW u \in WillHold(work', told'[g], g, Calls(e))
                PROVE  Paired(v, u)
    BY DEF PairsMatch
  <2>1. Calls(g) # T /\ Calls(e) # T
    BY <1>1
  <2>2. v \in WillHold(work, told[e], e, Calls(g)) /\ u \in WillHold(work, told[g], g, Calls(e))
    BY <1>1, <1>3, <2>1
  <2>3. ~Answering(e, g)
    BY DEF Answering
  <2>. QED
    BY <2>2, <2>3 DEF Delivered, PairsMatch
<1>6. AnswerFits' /\ AnnouncedOnce'
  BY DEF AnswerFits, AnnouncedOnce
<1>. QED
  BY <1>4, <1>5, <1>6 DEF Delivered

\* A raised or lowered hand.
LEMMA SetHandDelivers ==
  ASSUME Consistent, Delivered, NEW c \in Conn, NEW raised \in BOOLEAN, SetHand(c, raised)
  PROVE  Delivered'
<1>. DEFINE r == roomOf[c]
            h == HandQueue(r)
            changed == raised # (c \in h.raised)
            next == IF ~changed THEN h
                    ELSE [rev |-> h.rev + 1,
                          raised |-> IF raised THEN h.raised \cup {c} ELSE h.raised \ {c}]
            S == IF changed THEN members[r] ELSE {c}
            f == HandState(next)
<1>1. /\ TypeOK /\ Maps /\ then = Done /\ NothingPending /\ r # None
      /\ hands' = [hands EXCEPT ![r] = next]
      /\ work' = Send(f, S) /\ then' = then
      /\ UNCHANGED <<roomOf, announced, study, told>>
  BY DEF Consistent, SetHand, Serving, Idle, Unmoved, peerVars, NothingPending
<1>2. r \in Room /\ c \in members[r] /\ then.op = "done"
  BY <1>1 DEF TypeOK, Maps, MembersAgree, Done
<1>3. h \in Hands /\ (hands[r] # None => h = hands[r])
  BY <1>1, <1>2 DEF HandQueue, Hands, TypeOK
<1>4. next \in Hands /\ (~changed => next = h)
  <2>1. CASE ~changed
    BY <1>3, <2>1
  <2>2. CASE changed
    <3>1. next = [rev |-> h.rev + 1,
                  raised |-> IF raised THEN h.raised \cup {c} ELSE h.raised \ {c}]
      BY <2>2
    <3>. QED
      BY <1>2, <1>3, <2>2, <3>1 DEF Hands
  <2>. QED
    BY <2>1, <2>2
<1>. HIDE DEF next, changed, h
<1>5. S \in SUBSET Conn /\ \A e \in S : e \in members[r]
  BY <1>1, <1>2 DEF TypeOK
<1>6. /\ f \in Frame /\ f.kind = "hand.state" /\ f.hands = next
      /\ HandTopic \in Topic /\ HandTopic.on = "hands"
      /\ \A t \in Topic : t.on = "hands" => t = HandTopic
  BY <1>4 DEF HandState, Frame, HandTopic, Topic
<1>7. changed => \A e \in Conn \ S : roomOf[e] # r
  BY <1>1, <1>2 DEF Maps, MembersAgree
<1>8. \A e \in S : roomOf[e] = r
  BY <1>1, <1>2, <1>5 DEF Maps, MembersAgree, TypeOK
<1>. HIDE DEF S, f
<1>9. work' = Extended(work, f, S)
  BY <1>1, <1>5, <1>6, FirstSend
<1>10. \A t \in Topic : Concerns(f, t) <=> t = HandTopic
  BY <1>6 DEF Concerns
<1>11. Stated(f, HandTopic) = next
  BY <1>6 DEF Stated
<1>12. \A q \in Room : hands'[q] = IF q = r THEN next ELSE hands[q]
  BY <1>1 DEF TypeOK
<1>13. ASSUME NEW e \in S PROVE Stated(f, HandTopic) \in Truth(e, HandTopic)'
  BY <1>1, <1>2, <1>6, <1>8, <1>11, <1>12 DEF Truth
<1>14. ASSUME NEW e \in Conn \ S, roomOf[e] # None PROVE Truth(e, HandTopic) \subseteq Truth(e, HandTopic)'
  <2>1. roomOf[e] \in Room
    BY <1>1, <1>14 DEF TypeOK
  <2>2. {None, hands[roomOf[e]]} \subseteq {None, hands'[roomOf[e]]}
    BY <1>3, <1>4, <1>7, <1>12, <2>1
  <2>. QED
    BY <1>1, <1>6, <2>2 DEF Truth
<1>15. ASSUME NEW e \in Conn, NEW t \in Topic \ {HandTopic} PROVE Truth(e, t)' = Truth(e, t)
  <2>1. t.on # "hands"
    BY <1>6
  <2>. QED
    BY <1>1, <2>1 DEF Truth, Knows, Topic
<1>16. HandTopic \in {HandTopic, StudyTopic}
  OBVIOUS
<1>. QED
  BY <1>1, <1>2, <1>5, <1>6, <1>9, <1>10, <1>13, <1>14, <1>15, <1>16, BroadcastDelivers

\* A study command or request.
LEMMA StudyDelivers ==
  ASSUME Consistent, Delivered, NEW c \in Conn,
         AskStudy(c) \/ (\E expected \in 0..MaxRevision : CommandStudy(c, expected))
  PROVE  Delivered'
<1>. DEFINE r == roomOf[c]
<1>1. /\ TypeOK /\ Maps /\ then = Done /\ NothingPending /\ r # None
      /\ then' = then
      /\ UNCHANGED <<roomOf, announced, hands, told>>
  BY DEF Consistent, AskStudy, CommandStudy, Serving, Idle, Unmoved, peerVars, NothingPending
<1>2. r \in Room /\ c \in members[r] /\ then.op = "done"
  BY <1>1 DEF TypeOK, Maps, MembersAgree, Done
<1>3. StudyRevision(r) \in Nat /\ (study[r] # None => StudyRevision(r) = study[r])
  BY <1>1, <1>2 DEF StudyRevision, TypeOK
<1>4. PICK n \in Nat, S \in SUBSET Conn :
        /\ study' = [study EXCEPT ![r] = n]
        /\ work' = Send(StudyState(n), S)
        /\ S = members[r] \/ (S = {c} /\ n = StudyRevision(r))
  <2>1. CASE AskStudy(c)
    BY <1>3, <2>1 DEF AskStudy
  <2>2. ASSUME NEW expected \in 0..MaxRevision, CommandStudy(c, expected)
        PROVE  \E n \in Nat, S \in SUBSET Conn :
                 /\ study' = [study EXCEPT ![r] = n]
                 /\ work' = Send(StudyState(n), S)
                 /\ S = members[r] \/ (S = {c} /\ n = StudyRevision(r))
    <3>. DEFINE n == IF expected = StudyRevision(r) THEN StudyRevision(r) + 1 ELSE StudyRevision(r)
                S == IF expected = StudyRevision(r) THEN members[r] ELSE {c}
    <3>1. study' = [study EXCEPT ![r] = n] /\ work' = Send(StudyState(study'[r]), S)
      BY <2>2 DEF CommandStudy
    <3>2. n \in Nat /\ S \in SUBSET Conn /\ study'[r] = n
      BY <1>1, <1>2, <1>3, <3>1 DEF TypeOK
    <3>. QED
      BY <3>1, <3>2
  <2>. QED
    BY <2>1, <2>2
<1>. DEFINE f == StudyState(n)
<1>5. \A e \in S : roomOf[e] = r
  BY <1>1, <1>2, <1>4 DEF Maps, MembersAgree, TypeOK
<1>6. /\ f \in Frame /\ f.kind = "study.state" /\ f.study = n
      /\ StudyTopic \in Topic /\ StudyTopic.on = "study"
      /\ \A t \in Topic : t.on = "study" => t = StudyTopic
  BY DEF StudyState, Frame, StudyTopic, Topic
<1>7. S = members[r] => \A e \in Conn \ S : roomOf[e] # r
  BY <1>1, <1>2 DEF Maps, MembersAgree
<1>. HIDE DEF f
<1>8. work' = Extended(work, f, S)
  BY <1>1, <1>4, <1>6, FirstSend DEF f
<1>9. \A t \in Topic : Concerns(f, t) <=> t = StudyTopic
  BY <1>6 DEF Concerns
<1>10. Stated(f, StudyTopic) = n
  BY <1>6 DEF Stated
<1>11. \A q \in Room : study'[q] = IF q = r THEN n ELSE study[q]
  BY <1>1, <1>4 DEF TypeOK
<1>12. ASSUME NEW e \in S PROVE Stated(f, StudyTopic) \in Truth(e, StudyTopic)'
  BY <1>1, <1>2, <1>5, <1>6, <1>10, <1>11 DEF Truth
<1>13. ASSUME NEW e \in Conn \ S, roomOf[e] # None PROVE Truth(e, StudyTopic) \subseteq Truth(e, StudyTopic)'
  <2>1. roomOf[e] \in Room
    BY <1>1, <1>13 DEF TypeOK
  <2>2. {None, study[roomOf[e]]} \subseteq {None, study'[roomOf[e]]}
    BY <1>3, <1>4, <1>7, <1>11, <2>1
  <2>. QED
    BY <1>1, <1>6, <2>2 DEF Truth
<1>14. ASSUME NEW e \in Conn, NEW t \in Topic \ {StudyTopic} PROVE Truth(e, t)' = Truth(e, t)
  <2>1. t.on # "study"
    BY <1>6
  <2>. QED
    BY <1>1, <2>1 DEF Truth, Knows, Topic
<1>15. StudyTopic \in {HandTopic, StudyTopic}
  OBVIOUS
<1>. QED
  BY <1>1, <1>2, <1>6, <1>8, <1>9, <1>12, <1>13, <1>14, <1>15, BroadcastDelivers

\* What happens beside the handlers: timers, the sender threads, new connections.
LEMMA BackgroundDelivers ==
  ASSUME TypeOK, Delivered,
         \/ RetentionElapses \/ Start \/ UNCHANGED vars
         \/ \E c \in Conn : LeaseExpires(c) \/ BeginSend(c) \/ EndSend(c) \/ Connect(c)
  PROVE  Delivered'
<1>1. UNCHANGED <<roomOf, announced, study, hands, told, work, then>>
  BY DEF RetentionElapses, Start, vars, LeaseExpires, BeginSend, EndSend, Connect, peerVars, roomVars
<1>2. then.op # "answer" \/ conn' = conn
  <2>1. ASSUME NEW c \in Conn, Connect(c) PROVE then.op # "answer"
    BY <2>1 DEF Connect, Idle, Done
  <2>. QED
    BY <2>1 DEF RetentionElapses, Start, vars, LeaseExpires, BeginSend, EndSend, peerVars
<1>. QED
  BY <1>1, <1>2, SameTruth, NothingNew

\* After a stop there are no members to owe anything.
LEMMA StopDelivers ==
  ASSUME TypeOK, Stop
  PROVE  Delivered'
<1>1. then'.op = "done" /\ \A c \in Conn : roomOf'[c] = None
  BY DEF Stop, Idle, Done
<1>. QED
  BY <1>1 DEF Delivered, TruthIsOnItsWay, PairsMatch, AnswerFits, AnnouncedOnce

\* Every step keeps what is owed to the members on its way.
LEMMA NextDelivered == Consistent /\ Delivered /\ [Next]_vars => Delivered'
<1>. SUFFICES ASSUME Consistent, Delivered, [Next]_vars PROVE Delivered'
  OBVIOUS
<1>1. TypeOK
  BY DEF Consistent
<1>2. CASE HoldingLock
  BY <1>2, EnqueueOneDelivers, ResumeJoinDelivers, AnnounceDelivers, AnswerDelivers, ForwardDelivers
  DEF HoldingLock
<1>3. ASSUME NEW c \in Conn, Command(c) PROVE Delivered'
  BY <1>3, JoinDelivers, LeaveDelivers, ForwardDelivers, ReconnectDelivers, SetHandDelivers, StudyDelivers
  DEF Command
<1>4. CASE Stop
  BY <1>1, <1>4, StopDelivers
<1>5. ASSUME NEW c \in Conn, Drop(c) PROVE Delivered'
  BY <1>5, LeaveDelivers
<1>6. CASE \/ RetentionElapses \/ Start \/ UNCHANGED vars
           \/ \E c \in Conn : LeaseExpires(c) \/ BeginSend(c) \/ EndSend(c) \/ Connect(c)
  BY <1>1, <1>6, BackgroundDelivers
<1>. QED
  BY <1>2, <1>3, <1>4, <1>5, <1>6 DEF Next

\* The strengthened invariant holds of the specification.
LEMMA Delivery == Spec => [](Consistent /\ Delivered)
<1>1. Init => Delivered
  BY DEF Init, Delivered, TruthIsOnItsWay, PairsMatch, AnswerFits, AnnouncedOnce, Done
<1>2. IInv => Consistent
  BY DEF IInv
<1>. QED
  BY <1>1, <1>2, Invariance, NextDelivered, PTL DEF Spec

\* What is on its way has arrived when no handler runs.
LEMMA ArrivedAtRest ==
  ASSUME Delivered, Idle
  PROVE  /\ \A c \in Conn : roomOf[c] # None => \A t \in Topic : Holds(told[c], t) \in Truth(c, t)
         /\ \A c, d \in Conn : c # d /\ roomOf[c] # None /\ roomOf[c] = roomOf[d] =>
              Paired(told[c].calls[d], told[d].calls[c])
<1>1. \A x, c, t : WillHold(work, x, c, t) = {Holds(x, t)}
  BY HoldNothing DEF Idle
<1>2. \A c, d \in Conn : Holds(told[c], Calls(d)) = told[c].calls[d] /\ ~Answering(c, d)
  BY DEF Holds, Calls, Answering, Idle, Done
<1>3. ASSUME NEW c \in Conn, roomOf[c] # None, NEW t \in Topic PROVE Holds(told[c], t) \in Truth(c, t)
  BY <1>1, <1>3 DEF Delivered, TruthIsOnItsWay
<1>4. ASSUME NEW c \in Conn, NEW d \in Conn, c # d, roomOf[c] # None, roomOf[c] = roomOf[d]
      PROVE  Paired(told[c].calls[d], told[d].calls[c])
  <2>1. /\ told[c].calls[d] \in WillHold(work, told[c], c, Calls(d))
        /\ told[d].calls[c] \in WillHold(work, told[d], d, Calls(c))
    BY <1>1, <1>2
  <2>. QED
    BY <1>2, <1>4, <2>1 DEF Delivered, PairsMatch
<1>. QED
  BY <1>3, <1>4

\* Every member was told the roster of its room and the current hand queue,
\* whatever closed, overflowed, expired or was replaced on the way.
THEOREM EveryoneIsTold == Spec => []MembersAreTold
<1>1. Consistent /\ Delivered => MembersAreTold
  <2>. SUFFICES ASSUME Consistent, Delivered, Idle, NEW c \in Conn, roomOf[c] # None
                PROVE  /\ told[c].roster = Roommates(c)
                       /\ told[c].hands \in {None, hands[roomOf[c]]}
    BY DEF MembersAreTold, RosterIsTold, HandsAreTold
  <2>1. \A t \in Topic : Holds(told[c], t) \in Truth(c, t)
    BY ArrivedAtRest
  <2>2. TypeOK /\ Maps /\ told[c] \in Told /\ \A d \in Conn : announced[d] <=> roomOf[d] # None
    BY AtRest DEF Consistent, TypeOK, Idle, Done
  <2>3. told[c].roster \subseteq Conn
    BY <2>2 DEF Told
  <2>4. Roommates(c) = {d \in Conn : d # c /\ roomOf[d] = roomOf[c]}
    BY <2>2 DEF Roommates, Maps, MembersAgree, TypeOK
  <2>5. ASSUME NEW d \in Conn PROVE d \in told[c].roster <=> d # c /\ roomOf[d] = roomOf[c]
    <3>1. Roster(d) \in Topic /\ Roster(d).on = "roster" /\ Roster(d).peer = d
      BY DEF Roster, Topic
    <3>2. Truth(c, Roster(d)) = IF Knows(c, d) THEN {"in"} ELSE {"out"}
      BY <3>1 DEF Truth
    <3>3. Holds(told[c], Roster(d)) = IF d \in told[c].roster THEN "in" ELSE "out"
      BY <3>1 DEF Holds
    <3>4. Knows(c, d) <=> d # c /\ roomOf[d] = roomOf[c]
      BY <2>2 DEF Knows
    <3>. QED
      BY <2>1, <3>1, <3>2, <3>3, <3>4
  <2>6. told[c].hands \in {None, hands[roomOf[c]]}
    <3>1. HandTopic \in Topic /\ HandTopic.on = "hands"
      BY DEF HandTopic, Topic
    <3>. QED
      BY <2>1, <3>1 DEF Truth, Holds
  <2>. QED
    BY <2>3, <2>4, <2>5, <2>6
<1>. QED
  BY <1>1, Delivery, PTL

\* No member is left with a study the room has moved on from.
THEOREM StudyIsCurrent == Spec => []StudyIsTold
<1>1. Consistent /\ Delivered => StudyIsTold
  <2>. SUFFICES ASSUME Consistent, Delivered, Idle, NEW c \in Conn, roomOf[c] # None
                PROVE  told[c].study \in {None, study[roomOf[c]]}
    BY DEF StudyIsTold
  <2>1. StudyTopic \in Topic /\ StudyTopic.on = "study"
    BY DEF StudyTopic, Topic
  <2>2. Holds(told[c], StudyTopic) \in Truth(c, StudyTopic)
    BY <2>1, ArrivedAtRest
  <2>. QED
    BY <2>1, <2>2 DEF Truth, Holds
<1>. QED
  BY <1>1, Delivery, PTL

\* Two members of a room agree on their last reconnection: the same connection
\* id, and exactly one of them makes the offer.
THEOREM CallsStayPaired == Spec => []CallsArePaired
<1>1. Consistent /\ Delivered => CallsArePaired
  BY ArrivedAtRest DEF CallsArePaired, Paired
<1>. QED
  BY <1>1, Delivery, PTL

=============================================================================
