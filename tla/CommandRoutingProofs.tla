------------------------ MODULE CommandRoutingProofs ------------------------
(***************************************************************************)
(* What the abstract routing of commands promises, for any devices,        *)
(* sessions and calls.  ConnectionManagerProofs shows that the connection  *)
(* manager implements it, so the same holds of the manager.                *)
(***************************************************************************)
EXTENDS CommandRouting, TLAPS

\* Every command is for one of the devices.
WellAddressed == DeviceOf \in [Calls -> Devices]

Statuses == {"new", "open", "answered", "lost", "closed"}

\* Devices and commands have sessions that were used, and no others.
Tables ==
    /\ current \in [Devices -> used \cup {None}]
    /\ route \in [Calls -> used \cup {None}]
    /\ status \in [Calls -> Statuses]
    /\ reply \in [Calls -> Replies \cup {None}]
    /\ DOMAIN source = Calls

\* Before it is accepted a command has no route and no frame; it is answered over
\* its route, and its owner is told nothing while it is with its session.
Answers ==
    \A c \in Calls :
        /\ status[c] = "new" => route[c] = None /\ c \notin frames
        /\ status[c] \in {"open", "answered", "lost"} => route[c] # None
        /\ status[c] = "answered" => source[c] = route[c]
        /\ c \in handed => status[c] \in {"open", "answered", "lost"}

\* A session belongs to one device, and so do the commands routed to it.
Belongs ==
    /\ \A d, e \in Devices : current[d] = current[e] /\ current[d] # None => d = e
    /\ \A d \in Devices, c \in Calls :
          current[d] = route[c] /\ route[c] # None => DeviceOf[c] = d

\* A session sends one command at a time, and none besides its late one.
OneAtATime ==
    /\ handed \subseteq Calls /\ late \subseteq Calls
    /\ \A c, e \in handed : route[c] = route[e] => c = e
    /\ \A c \in late, e \in handed : route[c] = route[e] => c = e

\* The inductive invariant.
RoutingInv ==
    /\ Tables /\ Answers /\ Belongs /\ OneAtATime
    /\ OpenIsReachable /\ OwnerIsTold /\ LateFrameIsLast

LEMMA RoutingInit == RInit => RoutingInv
  BY DEF RInit, RoutingInv, Tables, Statuses, Answers, Belongs, OneAtATime,
         OpenIsReachable, OwnerIsTold, LateFrameIsLast

\* Whatever devices lose their sessions, every table stays one of its type.
LEMMA LoseKeepsType ==
    ASSUME Tables, NEW D
    PROVE  /\ Lose(D) \in [Calls -> Statuses]
           /\ \A c \in Calls :
                 Lose(D)[c] = IF status[c] = "open" /\ DeviceOf[c] \in D THEN "lost"
                              ELSE status[c]
  BY DEF Tables, Lose, OpenOn, Statuses

LEMMA JoinKeeps ==
    ASSUME WellAddressed, RoutingInv, NEW d \in Devices, NEW s \in Sessions, Join(d, s)
    PROVE  RoutingInv'
  <1>1. /\ s \notin used /\ used' = used \cup {s}
        /\ current' = [current EXCEPT ![d] = s]
        /\ UNCHANGED <<route, handed, frames, late, reply, source>>
        /\ status' = Lose({d})
    BY DEF Join
  <1>2. Tables
    BY DEF RoutingInv
  <1>3. /\ status' \in [Calls -> Statuses]
        /\ \A c \in Calls :
              status'[c] = IF status[c] = "open" /\ DeviceOf[c] = d THEN "lost"
                           ELSE status[c]
    BY <1>1, <1>2, LoseKeepsType
  <1>4. \A c \in Calls : route[c] \in used \cup {None} /\ DeviceOf[c] \in Devices
    BY <1>2 DEF WellAddressed, Tables
  <1>5. Tables'
    BY <1>1, <1>2, <1>3 DEF Tables
  <1>6. Answers'
    BY <1>1, <1>3 DEF RoutingInv, Answers, Statuses
  <1>7. OpenIsReachable'
    BY <1>1, <1>2, <1>3, <1>4 DEF RoutingInv, OpenIsReachable, Reachable, Tables
  <1>8. OwnerIsTold'
    BY <1>1, <1>2, <1>3, <1>4 DEF RoutingInv, OwnerIsTold, Tables
  <1>9. Belongs'
    BY <1>1, <1>2, <1>4 DEF RoutingInv, Belongs, Tables
  <1>10. OneAtATime'
    BY <1>1 DEF RoutingInv, OneAtATime
  <1>11. LateFrameIsLast'
    BY <1>1, <1>2, <1>3, <1>4
    DEF RoutingInv, LateFrameIsLast, OneAtATime, Reachable, Tables
  <1> QED
    BY <1>5, <1>6, <1>7, <1>8, <1>9, <1>10, <1>11 DEF RoutingInv

LEMMA LeaveKeeps ==
    ASSUME WellAddressed, RoutingInv, NEW D \in SUBSET Devices, Leave(D)
    PROVE  RoutingInv'
  <1>1. /\ current' = [d \in Devices |-> IF d \in D THEN None ELSE current[d]]
        /\ UNCHANGED <<used, route, handed, frames, late, reply, source>>
        /\ status' = Lose(D)
    BY DEF Leave
  <1>2. Tables
    BY DEF RoutingInv
  <1>3. /\ status' \in [Calls -> Statuses]
        /\ \A c \in Calls :
              status'[c] = IF status[c] = "open" /\ DeviceOf[c] \in D THEN "lost"
                           ELSE status[c]
    BY <1>1, <1>2, LoseKeepsType
  <1>4. \A c \in Calls : DeviceOf[c] \in Devices
    BY DEF WellAddressed
  <1>5. Tables'
    BY <1>1, <1>2, <1>3 DEF Tables
  <1>6. Answers'
    BY <1>1, <1>3 DEF RoutingInv, Answers, Statuses
  <1>7. OpenIsReachable'
    BY <1>1, <1>3, <1>4 DEF RoutingInv, OpenIsReachable, Reachable
  <1>8. OwnerIsTold'
    BY <1>1, <1>3, <1>4 DEF RoutingInv, OwnerIsTold
  <1>9. Belongs'
    BY <1>1 DEF RoutingInv, Belongs
  <1>10. OneAtATime'
    BY <1>1 DEF RoutingInv, OneAtATime
  <1>11. LateFrameIsLast'
    BY <1>1, <1>3, <1>4 DEF RoutingInv, LateFrameIsLast, OneAtATime, Reachable
  <1> QED
    BY <1>5, <1>6, <1>7, <1>8, <1>9, <1>10, <1>11 DEF RoutingInv

\* A failed write is the loss of the device's session, if it is the command's, and the
\* end of the command.
LEMMA WriteFailsKeeps ==
    ASSUME WellAddressed, RoutingInv, NEW c \in Calls, WriteFails(c)
    PROVE  RoutingInv'
  <1> DEFINE D == IF Reachable(c) THEN {DeviceOf[c]} ELSE {}
  <1>1. /\ current' = [d \in Devices |-> IF d \in D THEN None ELSE current[d]]
        /\ status' = [Lose(D) EXCEPT ![c] = "closed"]
        /\ reply' = [reply EXCEPT ![c] = "send_failed"]
        /\ UNCHANGED <<used, route, frames, late, source>>
        /\ handed' = handed \ {c}
        /\ status[c] \in {"open", "answered", "lost"}
    BY DEF WriteFails, RoutingInv, Answers
  <1> HIDE DEF D
  <1>2. Tables
    BY DEF RoutingInv
  <1>3. /\ status' \in [Calls -> Statuses] /\ status'[c] = "closed"
        /\ \A e \in Calls \ {c} :
              status'[e] = IF status[e] = "open" /\ DeviceOf[e] \in D THEN "lost"
                           ELSE status[e]
    BY <1>1, <1>2, LoseKeepsType DEF Statuses
  <1>4. \A e \in Calls : DeviceOf[e] \in Devices
    BY DEF WellAddressed
  <1>5. reply'[c] = "send_failed" /\ \A e \in Calls \ {c} : reply'[e] = reply[e]
    BY <1>1, <1>2 DEF Tables
  <1>6. Tables'
    BY <1>1, <1>2, <1>3 DEF Tables, Replies
  <1>7. Answers'
    BY <1>1, <1>3 DEF RoutingInv, Answers, Statuses
  <1>8. OpenIsReachable'
    BY <1>1, <1>3, <1>4 DEF RoutingInv, OpenIsReachable, Reachable
  <1>9. OwnerIsTold'
    BY <1>1, <1>3, <1>4, <1>5 DEF RoutingInv, OwnerIsTold
  <1>10. Belongs'
    BY <1>1 DEF RoutingInv, Belongs
  <1>11. OneAtATime'
    BY <1>1 DEF RoutingInv, OneAtATime
  <1>12. LateFrameIsLast'
    BY <1>1, <1>3, <1>4 DEF RoutingInv, LateFrameIsLast, OneAtATime, Reachable
  <1> QED
    BY <1>6, <1>7, <1>8, <1>9, <1>10, <1>11, <1>12 DEF RoutingInv

LEMMA AcceptKeeps ==
    ASSUME WellAddressed, RoutingInv, NEW c \in Calls, Accept(c)
    PROVE  RoutingInv'
  <1> DEFINE s == current[DeviceOf[c]]
  <1>1. /\ status[c] = "new" /\ s # None
        /\ status' = [status EXCEPT ![c] = "open"]
        /\ route' = [route EXCEPT ![c] = s]
        /\ handed' \subseteq handed \cup {c}
        /\ c \in handed' \ handed => Free(s)
        /\ UNCHANGED <<current, used, frames, late, reply, source>>
    BY DEF Accept
  <1>2. Tables /\ DeviceOf[c] \in Devices
    BY DEF RoutingInv, WellAddressed
  <1>3. /\ c \notin handed /\ c \notin frames /\ c \notin late /\ route[c] = None
        /\ s \in used
    BY <1>1, <1>2 DEF RoutingInv, Answers, LateFrameIsLast, Tables
  <1>4. /\ route'[c] = s /\ status'[c] = "open"
        /\ \A e \in Calls \ {c} : route'[e] = route[e] /\ status'[e] = status[e]
    BY <1>1, <1>2 DEF Tables
  <1>5. \A e \in late : route[e] # s
    BY <1>1, <1>2, <1>3
    DEF RoutingInv, LateFrameIsLast, OneAtATime, Belongs, Reachable
  <1>6. Tables'
    BY <1>1, <1>2, <1>3 DEF Tables, Statuses
  <1>7. Answers'
    BY <1>1, <1>3, <1>4 DEF RoutingInv, Answers, OneAtATime
  <1>8. Belongs'
    BY <1>1, <1>2, <1>3, <1>4 DEF RoutingInv, Belongs
  <1>9. OneAtATime'
    <2>1. \A x, e \in handed' : route'[x] = route'[e] => x = e
      BY <1>1, <1>3, <1>4 DEF RoutingInv, OneAtATime, Free
    <2>2. \A x \in late, e \in handed' : route'[x] = route'[e] => x = e
      BY <1>1, <1>3, <1>4, <1>5 DEF RoutingInv, OneAtATime
    <2> QED
      BY <1>1, <1>3, <1>4, <2>1, <2>2 DEF RoutingInv, OneAtATime
  <1>10. OpenIsReachable'
    BY <1>1, <1>4 DEF RoutingInv, OpenIsReachable, Reachable
  <1>11. OwnerIsTold'
    BY <1>1, <1>4 DEF RoutingInv, OwnerIsTold
  <1>12. LateFrameIsLast'
    BY <1>1, <1>3, <1>4 DEF RoutingInv, LateFrameIsLast, OneAtATime, Reachable
  <1> QED
    BY <1>6, <1>7, <1>8, <1>9, <1>10, <1>11, <1>12 DEF RoutingInv

\* A frame is late at most once for a session: whoever was written late before is
\* the command that is being sent.
LEMMA SendKeeps ==
    ASSUME WellAddressed, RoutingInv, NEW c \in Calls,
           Hand(c) \/ WriteFrame(c) \/ Written(c)
    PROVE  RoutingInv'
  <1> USE DEF RoutingInv, OneAtATime
  <1>1. UNCHANGED <<current, used, route, status, reply, source>>
    BY DEF Hand, WriteFrame, Written
  <1>2. Tables' /\ Belongs' /\ OpenIsReachable'
    BY <1>1 DEF Tables, Belongs, OpenIsReachable, Reachable
  <1>3. CASE Hand(c)
    <2>1. /\ Reachable(c) /\ Free(route[c]) /\ status[c] \in {"open", "answered"}
          /\ handed' = handed \cup {c} /\ UNCHANGED <<frames, late>>
      BY <1>3 DEF Hand
    <2>2. \A e \in late : route[e] # route[c]
      BY <2>1 DEF WellAddressed, Belongs, LateFrameIsLast, Reachable
    <2>3. OneAtATime'
      BY <1>1, <2>1, <2>2 DEF Free
    <2> QED
      BY <1>1, <1>2, <2>1, <2>3 DEF Answers, OwnerIsTold, LateFrameIsLast, Reachable
  <1>4. CASE WriteFrame(c)
    <2>1. /\ c \in handed /\ c \notin frames
          /\ frames' = frames \cup {c} /\ handed' = handed
          /\ late' = IF Reachable(c) THEN late ELSE late \cup {c}
      BY <1>4 DEF WriteFrame
    <2>2. status[c] \in {"open", "answered", "lost"} /\ route[c] # None
      BY <2>1 DEF Answers
    <2>3. \A e \in late : route[e] # route[c]
      BY <2>1 DEF LateFrameIsLast
    <2>4. c \in late' => status[c] # "open"
      BY <2>1, <2>3 DEF OpenIsReachable
    <2>5. Answers' /\ OwnerIsTold'
      BY <1>1, <2>1, <2>2 DEF Answers, OwnerIsTold
    <2>6. OneAtATime'
      BY <1>1, <2>1, <2>3
    <2>7. LateFrameIsLast'
      BY <1>1, <2>1, <2>2, <2>3, <2>4 DEF LateFrameIsLast, Reachable
    <2> QED
      BY <1>2, <2>5, <2>6, <2>7
  <1>5. CASE Written(c)
    BY <1>1, <1>2, <1>5 DEF Written, Answers, OwnerIsTold, LateFrameIsLast, Reachable
  <1> QED
    BY <1>3, <1>4, <1>5

LEMMA CallKeeps ==
    ASSUME WellAddressed, RoutingInv, NEW c \in Calls,
           \/ Refused(c) \/ Answered(c)
           \/ \E why \in {"result", "offline", "timeout"} : Tell(c, why)
    PROVE  RoutingInv'
  <1> USE DEF RoutingInv, Tables, Answers, Belongs, OneAtATime, OpenIsReachable,
              OwnerIsTold, LateFrameIsLast, Reachable
  <1>1. CASE Refused(c)
    BY <1>1 DEF Refused, Statuses, Replies
  <1>2. CASE Answered(c)
    BY <1>2 DEF Answered, Statuses
  <1>3. ASSUME NEW why \in {"result", "offline", "timeout"}, Tell(c, why)
        PROVE  RoutingInv'
    BY <1>3 DEF Tell, Statuses, Replies
  <1> QED
    BY <1>1, <1>2, <1>3

LEMMA RoutingStep ==
    ASSUME WellAddressed, RoutingInv, [RNext]_rvars
    PROVE  RoutingInv'
  <1>1. CASE UNCHANGED rvars
    BY <1>1
    DEF rvars, RoutingInv, Tables, Answers, Belongs, OneAtATime, OpenIsReachable,
        OwnerIsTold, LateFrameIsLast, Reachable
  <1> QED
    BY <1>1, JoinKeeps, LeaveKeeps, AcceptKeeps, SendKeeps, WriteFailsKeeps, CallKeeps
    DEF RNext

\* The inductive invariant of the abstract routing.
THEOREM RoutingInvariant ==
    ASSUME WellAddressed
    PROVE  RSpec => []RoutingInv
  <1>1. RoutingInv /\ [RNext]_rvars => RoutingInv'
    BY RoutingStep
  <1> QED
    BY <1>1, RoutingInit, PTL DEF RSpec

\* An open command can still be answered: its session is the device's current one.
THEOREM OpenReachable ==
    ASSUME WellAddressed
    PROVE  RSpec => []OpenIsReachable
  <1>1. RoutingInv => OpenIsReachable
    BY DEF RoutingInv
  <1> QED
    BY <1>1, RoutingInvariant, PTL

\* What the owner of a command was told is true, and stays true.
THEOREM OwnerToldTruth ==
    ASSUME WellAddressed
    PROVE  RSpec => []OwnerIsTold
  <1>1. RoutingInv => OwnerIsTold
    BY DEF RoutingInv
  <1> QED
    BY <1>1, RoutingInvariant, PTL

\* However the loss of a session and the sending of its commands interleave, at most
\* one more frame goes out on it, and that one is never answered.
THEOREM OneLateFrame ==
    ASSUME WellAddressed
    PROVE  RSpec => []LateFrameIsLast
  <1>1. RoutingInv => LateFrameIsLast
    BY DEF RoutingInv
  <1> QED
    BY <1>1, RoutingInvariant, PTL
=============================================================================
