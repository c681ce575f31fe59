--------------------------- MODULE SignalsProofs ---------------------------
(***************************************************************************)
(* Proofs about Signals, for any sets of signals and masks and any numbers *)
(* of signals sent and programs executed.                                  *)
(***************************************************************************)
EXTENDS Signals, FiniteSetTheorems, TLAPS

-----------------------------------------------------------------------------
(* The inductive invariant. *)

\* The two read-modify-writes of pending_signals work on values that held only
\* signals that were sent; the runner's is inside sig_handler_runner().
RaceInv ==
    /\ pending \subseteq ever
    /\ sending # <<>> => sending \in Sigs \X SUBSET Sigs /\ sending[2] \subseteq ever
    /\ clearing # <<>> => /\ mode = "runner"
                          /\ clearing \in Sigs \X SUBSET Sigs /\ clearing[1] \in clearing[2]
                          /\ clearing[2] \subseteq ever

\* Every code address is one of the current image.
ImagesInv ==
    /\ tf.at # "wild" => tf.img = img
    /\ \A d \in Depths : mem[d].at # "wild" => mem[d].img = img
    /\ \A s \in Sigs : handler[s] \in {SIG_DFL, SIG_IGN, img}

\* How many signals have been written to pending_signals, and how deep the
\* stack can be after so many.
Arrived == IF sending = <<>> THEN sends ELSE sends - 1
Room(k) == k * (k + 1)

\* The values of pending_signals that the runner may still work off.
Worklists == {pending} \cup (IF clearing = <<>> THEN {} ELSE {clearing[2]})

\* The stack has room for the frames of everything that is pending, on top of
\* the current frame and of any frame that sigret may go back to.
DepthInv ==
    /\ sending # <<>> => sends > 0 /\ Cardinality(sending[2]) <= Arrived
    /\ \A v \in Worklists :
         /\ Cardinality(v) <= Arrived
         /\ tf.esp + 2 * Cardinality(v) <= Room(Arrived)
         /\ \A d \in Depths : mem[d].esp + 2 * Cardinality(v) <= Room(Arrived) + 1
    /\ \A d \in Depths : mem[d].esp >= 1

\* With spaced signals there is one signal or one handler at a time, and the
\* backup pointer is at the frame that the handler interrupted.
OneInv ==
    spaced =>
      /\ sending # <<>> => pending = {} /\ clearing = <<>> /\ sending[2] = {} /\ ctx = <<>>
      /\ pending # {} => ctx = <<>> /\ \E s \in Sigs : pending = {s}
      /\ clearing # <<>> => pending = clearing[2] /\ ctx = <<>>
      /\ mode # "runner" => want = <<>>
FrameInv ==
    spaced /\ "fork" \notin HandlerCalls =>
      /\ ctx = <<>> => tf.at = "main"
      /\ ctx # <<>> =>
           /\ \E f \in Frames : ctx = <<f>>
           /\ ctx[1].at = "main" /\ tf.at \in {"handler", "tramp"}
           /\ backup = ctx[1].esp + 1 /\ backup <= tf.esp
           /\ mem[backup] = [ctx[1] EXCEPT !.esp = @ + 1]
      /\ Resumes

IInv == TypeOK /\ RaceInv /\ ImagesInv /\ DepthInv /\ OneInv /\ FrameInv

-----------------------------------------------------------------------------
(* The stack's depth. *)

\* Sets of signals are finite.
LEMMA SigsFinite == \A v \in SUBSET Sigs : IsFiniteSet(v) /\ Cardinality(v) \in Nat
<1>1. IsFiniteSet(0..31)
  <2>1. \A a, b \in Int : IsFiniteSet(a..b)
    BY FS_Interval
  <2>2. 0 \in Int /\ 31 \in Int
    OBVIOUS
  <2>3. QED
    BY <2>1, <2>2
<1>2. IsFiniteSet(Sigs)
  BY <1>1, SigsAssumption, FS_Subset
<1>3. QED
  BY <1>2, FS_Subset, FS_CardinalityType

\* One more signal adds two units for each that may be pending then.
LEMMA RoomGrows ==
    ASSUME NEW k \in Nat
    PROVE  Room(k) \in Nat /\ Room(k + 1) = Room(k) + 2 * (k + 1)
BY DEF Room

\* The room is monotonic.
LEMMA RoomMonotonic ==
    ASSUME NEW k \in Nat, NEW m \in Nat, k <= m
    PROVE  Room(k) <= Room(m)
<1>1. k * (k + 1) <= k * (m + 1)
  OBVIOUS
<1>2. k * (m + 1) <= m * (m + 1)
  OBVIOUS
<1>3. k * (k + 1) \in Nat /\ k * (m + 1) \in Nat /\ m * (m + 1) \in Nat
  OBVIOUS
<1>4. QED
  BY <1>1, <1>2, <1>3 DEF Room

\* No more signals have arrived than may be sent, and the depths go as far as
\* the room for all of them.
LEMMA ArrivedBound ==
    ASSUME TypeOK, DepthInv
    PROVE  /\ Arrived \in Nat /\ Room(Arrived) \in Nat
           /\ Depths = 0..(Room(MaxSends) + 1) /\ Room(MaxSends) \in Nat
           /\ Room(Arrived) <= Room(MaxSends)
<1>1. Arrived \in Nat /\ Arrived <= MaxSends /\ MaxSends \in Nat
  BY BoundsAssumption DEF TypeOK, DepthInv, Arrived
<1>2. Depths = 0..(Room(MaxSends) + 1)
  BY DEF Depths, Room
<1>3. QED
  BY <1>1, <1>2, RoomGrows, RoomMonotonic

\* There is room for the frame of the signal that the runner has found.
LEMMA DeliverRoom ==
    ASSUME TypeOK, RaceInv, DepthInv, clearing # <<>>
    PROVE  tf.esp \in Nat /\ tf.esp + 1 \in Depths /\ tf.esp + 2 \in Depths
<1> DEFINE c == Cardinality(clearing[2])
<1>1. clearing[2] \in SUBSET Sigs /\ clearing[2] # {}
  BY DEF RaceInv
<1>2. c \in Nat /\ c # 0
  BY <1>1, SigsFinite, FS_EmptySet
<1>3. tf.esp + 2 * c <= Room(Arrived)
  BY DEF DepthInv, Worklists
<1>4. tf.esp \in Nat
  BY DEF TypeOK, Frames, Depths
<1> HIDE DEF c
<1>5. QED
  BY <1>2, <1>3, <1>4, ArrivedBound

-----------------------------------------------------------------------------
(* Every step preserves every part of the invariant. *)

\* Every step keeps the types, and the frames within the stack's depths.
LEMMA TypeStep ==
    ASSUME TypeOK, RaceInv, DepthInv, [Next]_vars
    PROVE  TypeOK'
<1> USE DEF TypeOK, table, rmw, history
<1>1. 0 \in Depths /\ 1 \in Depths /\ Wild \in Frames
  <2>1. 0 \in Depths /\ 1 \in Depths /\ 2 \in Images
    BY ArrivedBound, BoundsAssumption DEF Images
  <2>2. MainFrame(2) \in Frames
    BY <2>1 DEF MainFrame, Frames
  <2>3. QED
    BY <2>1, <2>2 DEF Wild, Frames
<1>2. ASSUME NEW s \in Sigs, KillReads(s)
      PROVE  TypeOK'
  BY <1>2, BoundsAssumption DEF KillReads, MaySend
<1>3. CASE KillWrites
  BY <1>3 DEF KillWrites, RaceInv
<1>4. CASE Compute
  <2>1. mem' \in [Depths -> Frames]
    BY <1>1, <1>4 DEF Compute
  <2>2. tf' \in Frames
    BY <1>4 DEF Compute, Frames
  <2>3. QED
    BY <1>4, <2>1, <2>2 DEF Compute
<1>5. CASE HandlerReturns
  <2>1. tf' \in Frames
    BY <1>5 DEF HandlerReturns, Frames
  <2>2. QED
    BY <1>5, <2>1 DEF HandlerReturns
<1>6. CASE Exits \/ Timer
  BY <1>6 DEF Exits, Timer
<1>7. ASSUME NEW s \in Sigs, NEW h \in {SIG_DFL, SIG_IGN, img}, NEW m \in Masks, Sigaction(s, h, m)
      PROVE  TypeOK'
  <2>1. tf' \in Frames /\ mask' \subseteq Sigs
    BY <1>7, MasksAssumption DEF Sigaction, Frames
  <2>2. handler' \in [Sigs -> {SIG_DFL, SIG_IGN} \cup Images]
    BY <1>7 DEF Sigaction
  <2>3. QED
    BY <1>7, <2>1, <2>2 DEF Sigaction, Served, Traps
<1>8. ASSUME NEW m \in Masks, Sigprocmask(m)
      PROVE  TypeOK'
  <2>1. tf' \in Frames /\ mask' \subseteq Sigs
    BY <1>8, MasksAssumption DEF Sigprocmask, Frames
  <2>2. QED
    BY <1>8, <2>1 DEF Sigprocmask, Served, Traps
<1>9. ASSUME NEW c, CallFails(c)
      PROVE  TypeOK'
  <2>1. tf' \in Frames
    BY <1>9 DEF CallFails, Frames
  <2>2. QED
    BY <1>9, <2>1 DEF CallFails, Served, Traps
<1>10. CASE Exec
  <2>1. img' \in Images /\ tf' \in Frames
    BY <1>1, <1>10, BoundsAssumption DEF Exec, Images, MainFrame, Frames
  <2>2. mem' \in [Depths -> Frames]
    BY <1>1, <1>10 DEF Exec
  <2>3. handler' \in [Sigs -> {SIG_DFL, SIG_IGN} \cup Images]
    BY <1>10 DEF Exec, ExecHandlers
  <2>4. QED
    BY <1>10, <2>1, <2>2, <2>3 DEF Exec, Served, Traps
<1>11. CASE ForkChild
  <2>1. tf' \in Frames
    BY <1>11 DEF ForkChild, Frames
  <2>2. QED
    BY <1>11, <2>1 DEF ForkChild, Traps
<1>12. CASE Sigret
  <2>1. mem[backup] \in Frames /\ mem[backup].esp >= 1
    BY DEF DepthInv
  <2>2. mem[backup].esp - 1 \in Depths
    BY <2>1, ArrivedBound DEF Frames
  <2>3. Restored(backup) \in Frames
    BY <2>1, <2>2 DEF Restored, Frames
  <2>4. tf' \in Frames
    BY <1>12, <2>3 DEF Sigret, Frames
  <2>5. QED
    BY <1>12, <2>4 DEF Sigret
<1>13. ASSUME NEW s \in Sigs, ConsumeReads(s)
       PROVE  TypeOK'
  BY <1>13 DEF ConsumeReads
<1>14. ASSUME NEW s \in Sigs, ConsumeWrites(s)
       PROVE  TypeOK'
  <2>1. clearing # <<>> /\ clearing[2] \subseteq Sigs /\ sigi' \in 0..32
    <3>1. clearing # <<>> /\ sigi' = s + 1
      BY <1>14 DEF ConsumeWrites
    <3>2. s \in 0..31
      BY SigsAssumption
    <3>3. clearing \in Sigs \X SUBSET Sigs
      BY <3>1 DEF RaceInv
    <3>4. QED
      BY <3>1, <3>2, <3>3
  <2>2. pending' \subseteq Sigs /\ owed' \subseteq Sigs
    BY <1>14, <2>1 DEF ConsumeWrites
  <2>3. tf' \in Frames /\ mem' \in [Depths -> Frames] /\ backup' \in Depths
    <3>1. CASE UNCHANGED <<tf, mem, backup>>
      BY <3>1
    <3>2. CASE Deliver(s) /\ handler[s] \notin {SIG_DFL, SIG_IGN}
      <4>1. tf.esp + 1 \in Depths /\ tf.esp + 2 \in Depths /\ handler[s] \in Images
        BY <2>1, <3>2, DeliverRoom
      <4>2. tf' \in Frames /\ [tf EXCEPT !.esp = @ + 1] \in Frames
        BY <3>2, <4>1 DEF Deliver, Frames
      <4>3. QED
        BY <3>2, <4>1, <4>2 DEF Deliver
    <3>3. QED
      BY <1>14, <3>1, <3>2 DEF ConsumeWrites, Dispatch, KillDefault, SetFreeze, Discard
  <2>4. killed' \in BOOLEAN /\ freeze' \in BOOLEAN
    BY <1>14 DEF ConsumeWrites, Dispatch, KillDefault, SetFreeze, Discard, Deliver
  <2>5. QED
    BY <1>14, <2>1, <2>2, <2>3, <2>4 DEF ConsumeWrites
<1>15. CASE RunnerDone
  BY <1>15 DEF RunnerDone
<1>16. CASE UNCHANGED vars
  BY <1>16 DEF vars
<1>17. QED
  BY <1>2, <1>3, <1>4, <1>5, <1>6, <1>7, <1>8, <1>9, <1>10, <1>11, <1>12, <1>13, <1>14, <1>15,
     <1>16 DEF Next, Runner

\* What a step of the runner that clears a bit does to pending_signals.
LEMMA Clears ==
    ASSUME RaceInv, NEW s \in Sigs, ConsumeWrites(s)
    PROVE  /\ clearing # <<>> /\ clearing' = <<>> /\ s = clearing[1] /\ s \in clearing[2]
           /\ clearing[2] \in SUBSET Sigs /\ pending' = clearing[2] \ {s}
<1>1. clearing # <<>> /\ clearing[1] = s
  BY DEF ConsumeWrites
<1>2. clearing \in Sigs \X SUBSET Sigs /\ clearing[1] \in clearing[2]
  BY <1>1 DEF RaceInv
<1>3. QED
  BY <1>1, <1>2 DEF ConsumeWrites

\* Every step keeps signals that were never sent out of pending_signals.
LEMMA RaceStep ==
    ASSUME TypeOK, RaceInv, [Next]_vars
    PROVE  RaceInv'
<1> USE DEF RaceInv, table, rmw, history
<1>1. ASSUME NEW s \in Sigs, KillReads(s)
      PROVE  RaceInv'
  BY <1>1 DEF KillReads, MaySend, TypeOK
<1>2. CASE KillWrites
  BY <1>2 DEF KillWrites
<1>3. CASE Compute \/ HandlerReturns \/ Exits \/ Timer
  BY <1>3 DEF Compute, HandlerReturns, Exits, Timer, InUser
<1>4. ASSUME NEW s \in Sigs, NEW h, NEW m, Sigaction(s, h, m)
      PROVE  RaceInv'
  BY <1>4 DEF Sigaction, Served, Traps, InUser
<1>5. ASSUME NEW m, Sigprocmask(m)
      PROVE  RaceInv'
  BY <1>5 DEF Sigprocmask, Served, Traps, InUser
<1>6. ASSUME NEW c, CallFails(c)
      PROVE  RaceInv'
  BY <1>6 DEF CallFails, Served, Traps, InUser
<1>7. CASE Exec
  BY <1>7 DEF Exec, Served, Traps, InUser
<1>8. CASE ForkChild
  BY <1>8 DEF ForkChild, Traps, InUser
<1>9. CASE Sigret
  BY <1>9 DEF Sigret
<1>10. ASSUME NEW s \in Sigs, ConsumeReads(s)
       PROVE  RaceInv'
  BY <1>10 DEF ConsumeReads, Finds, TypeOK
<1>11. ASSUME NEW s \in Sigs, ConsumeWrites(s)
       PROVE  RaceInv'
  <2>1. pending' = clearing[2] \ {s} /\ clearing[2] \subseteq ever /\ clearing' = <<>>
    BY <1>11, Clears
  <2>2. QED
    BY <1>11, <2>1 DEF ConsumeWrites
<1>12. CASE RunnerDone
  BY <1>12 DEF RunnerDone
<1>13. CASE UNCHANGED vars
  BY <1>13 DEF vars
<1>14. QED
  BY <1>1, <1>2, <1>3, <1>4, <1>5, <1>6, <1>7, <1>8, <1>9, <1>10, <1>11, <1>12, <1>13 DEF Next, Runner

\* What the runner's dispatch does to the frames: nothing, or it delivers.
LEMMA Dispatched ==
    ASSUME NEW s \in Sigs, ConsumeWrites(s)
    PROVE  \/ UNCHANGED <<tf, mem, backup, ctx>>
           \/ /\ Deliver(s) /\ handler[s] \notin {SIG_DFL, SIG_IGN}
              /\ s \notin mask /\ s \notin {SIGKILL, SIGSTOP}
BY DEF ConsumeWrites, Dispatch, KillDefault, SetFreeze, Discard

\* Every step keeps the code addresses within the current image.
LEMMA ImagesStep ==
    ASSUME TypeOK, RaceInv, DepthInv, ImagesInv, [Next]_vars
    PROVE  ImagesInv'
<1> USE DEF ImagesInv, table, rmw, history
<1>1. Wild.at = "wild"
  BY DEF Wild, MainFrame
<1>2. ASSUME UNCHANGED <<tf, mem, img, handler>>
      PROVE  ImagesInv'
  BY <1>2
<1>3. ASSUME UNCHANGED <<mem, img, handler>>, tf'.img = tf.img, tf.at # "wild"
      PROVE  ImagesInv'
  BY <1>3
<1>4. ASSUME KillWrites \/ RunnerDone \/ \E s \in Sigs : KillReads(s) \/ ConsumeReads(s)
      PROVE  ImagesInv'
  BY <1>2, <1>4 DEF KillReads, KillWrites, ConsumeReads, RunnerDone
<1>5. CASE Compute
  BY <1>1, <1>5 DEF Compute, InUser, TypeOK, Frames
<1>6. CASE HandlerReturns
  BY <1>3, <1>6 DEF HandlerReturns, TypeOK, Frames
<1>7. CASE Exits \/ Timer
  BY <1>2, <1>7 DEF Exits, Timer
<1>8. ASSUME NEW s \in Sigs, NEW h \in {SIG_DFL, SIG_IGN, img}, NEW m, Sigaction(s, h, m)
      PROVE  ImagesInv'
  BY <1>8 DEF Sigaction, Served, Traps, InUser, TypeOK, Frames
<1>9. ASSUME NEW m, Sigprocmask(m)
      PROVE  ImagesInv'
  BY <1>3, <1>9 DEF Sigprocmask, Served, Traps, InUser, TypeOK, Frames
<1>10. ASSUME NEW c, CallFails(c)
       PROVE  ImagesInv'
  BY <1>3, <1>10 DEF CallFails, Served, Traps, InUser, TypeOK, Frames
<1>11. CASE Exec
  <2>1. tf'.img = img' /\ \A d \in Depths : mem'[d].at = "wild"
    BY <1>1, <1>11 DEF Exec, MainFrame
  <2>2. \A s \in Sigs : handler'[s] \in {SIG_DFL, SIG_IGN}
    BY <1>11 DEF Exec, ExecHandlers
  <2>3. QED
    BY <2>1, <2>2
<1>12. CASE ForkChild
  BY <1>3, <1>12 DEF ForkChild, Traps, InUser, TypeOK, Frames
<1>13. CASE Sigret
  <2>1. mem[backup] \in Frames /\ (mem[backup].at # "wild" => mem[backup].img = img)
    BY DEF TypeOK
  <2>2. tf'.at = mem[backup].at /\ tf'.img = mem[backup].img
    BY <1>13, <2>1 DEF Sigret, Restored, Frames
  <2>3. QED
    BY <1>13, <2>1, <2>2 DEF Sigret
<1>14. ASSUME NEW s \in Sigs, ConsumeWrites(s)
       PROVE  ImagesInv'
  <2>1. UNCHANGED <<handler, img>>
    BY <1>14 DEF ConsumeWrites
  <2>2. CASE UNCHANGED <<tf, mem>>
    BY <1>2, <2>1, <2>2
  <2>3. CASE Deliver(s) /\ handler[s] \notin {SIG_DFL, SIG_IGN}
    <3>1. handler[s] = img /\ tf'.img = img
      BY <2>3 DEF Deliver
    <3>2. \A d \in Depths : \/ mem'[d] = mem[d]
                            \/ mem'[d].at = tf.at /\ mem'[d].img = tf.img
      BY <2>3 DEF Deliver, TypeOK, Frames
    <3>3. QED
      BY <2>1, <3>1, <3>2
  <2>4. QED
    BY <1>14, <2>2, <2>3, Dispatched
<1>15. CASE UNCHANGED vars
  BY <1>2, <1>15 DEF vars
<1>16. QED
  BY <1>4, <1>5, <1>6, <1>7, <1>8, <1>9, <1>10, <1>11, <1>12, <1>13, <1>14, <1>15
     DEF Next, Runner

\* Every step keeps the stack deep enough for what is pending.
LEMMA DepthStep ==
    ASSUME TypeOK, TypeOK', RaceInv, RaceInv', DepthInv, [Next]_vars
    PROVE  DepthInv'
<1> USE DEF table, rmw, history
<1> DEFINE k == Arrived
           R == Room(Arrived)
<1>1. /\ k \in Nat /\ R \in Nat /\ tf.esp \in Nat
      /\ \A d \in Depths : mem[d].esp \in Nat /\ mem[d].esp >= 1
      /\ Wild.esp = 1
  <2>1. k \in Nat /\ R \in Nat /\ \A d \in Depths : d \in Nat
    BY ArrivedBound
  <2>2. tf.esp \in Depths /\ \A d \in Depths : mem[d].esp \in Depths
    BY DEF TypeOK, Frames
  <2>3. \A d \in Depths : mem[d].esp >= 1
    BY DEF DepthInv
  <2>4. Wild.esp = 1
    BY DEF Wild, MainFrame
  <2>5. QED
    BY <2>1, <2>2, <2>3, <2>4
<1>2. \A v \in Worklists :
        /\ v \in SUBSET Sigs /\ Cardinality(v) \in Nat /\ Cardinality(v) <= k
        /\ tf.esp + 2 * Cardinality(v) <= R
        /\ \A d \in Depths : mem[d].esp + 2 * Cardinality(v) <= R + 1
  <2>1. \A v \in Worklists : v \in SUBSET Sigs
    BY DEF Worklists, TypeOK, RaceInv
  <2>2. QED
    BY <2>1, SigsFinite DEF DepthInv
<1>3. pending \in Worklists
  BY DEF Worklists
<1>4. ASSUME UNCHANGED <<sending, sends>>,
             \A v \in Worklists' : \E w \in Worklists : Cardinality(v) <= Cardinality(w) /\ Cardinality(v) \in Nat,
             \/ tf'.esp = tf.esp \/ tf'.esp = 0
             \/ \E d \in Depths : tf'.esp = mem[d].esp - 1,
             \A d \in Depths : mem'[d].esp = mem[d].esp \/ mem'[d].esp = 1
      PROVE  DepthInv'
  <2>1. Arrived' = k /\ Room(Arrived)' = R
    BY <1>4 DEF Arrived, Room
  <2> HIDE DEF k, R
  <2>2. ASSUME NEW v \in Worklists'
        PROVE  /\ Cardinality(v) <= k
               /\ tf'.esp + 2 * Cardinality(v) <= R
               /\ \A d \in Depths : mem'[d].esp + 2 * Cardinality(v) <= R + 1
    <3>1. PICK w \in Worklists : Cardinality(v) <= Cardinality(w) /\ Cardinality(v) \in Nat
      BY <1>4
    <3> DEFINE a == Cardinality(v)
               b == Cardinality(w)
    <3>2. /\ a \in Nat /\ b \in Nat /\ a <= b /\ b <= k /\ tf.esp + 2 * b <= R
          /\ \A d \in Depths : mem[d].esp + 2 * b <= R + 1
      BY <1>2, <3>1
    <3> HIDE DEF a, b
    <3>3. a <= k /\ tf'.esp + 2 * a <= R
      BY <1>1, <1>4, <3>2
    <3>4. \A d \in Depths : mem'[d].esp + 2 * a <= R + 1
      BY <1>1, <1>4, <3>2
    <3>5. QED
      BY <3>3, <3>4 DEF a
  <2>3. \A d \in Depths : mem'[d].esp >= 1
    BY <1>1, <1>4
  <2>4. sending' # <<>> => sends' > 0 /\ Cardinality(sending'[2]) <= k
    BY <1>4 DEF DepthInv, k
  <2>5. QED
    BY <2>1, <2>2, <2>3, <2>4 DEF DepthInv
<1>5. ASSUME UNCHANGED <<pending, clearing>>
      PROVE  \A v \in Worklists' : \E w \in Worklists :
               Cardinality(v) <= Cardinality(w) /\ Cardinality(v) \in Nat
  <2>1. Worklists' = Worklists
    BY <1>5 DEF Worklists
  <2>2. QED
    BY <1>2, <2>1
<1>6. ASSUME NEW s \in Sigs, KillReads(s)
      PROVE  DepthInv'
  <2>1. /\ sending = <<>> /\ sending' = <<s, pending>> /\ sends' = sends + 1 /\ sends \in Nat
        /\ UNCHANGED <<tf, mem, pending, clearing>>
    BY <1>6 DEF KillReads, MaySend, TypeOK
  <2>2. Arrived' = Arrived
    BY <2>1 DEF Arrived
  <2>3. Worklists' = Worklists
    BY <2>1 DEF Worklists
  <2>4. sends' > 0 /\ Cardinality(sending'[2]) <= Arrived
    BY <1>2, <1>3, <2>1
  <2>5. QED
    BY <2>1, <2>2, <2>3, <2>4 DEF DepthInv, Room
<1>7. CASE KillWrites
  <2>1. /\ sending # <<>> /\ sending' = <<>> /\ UNCHANGED <<sends, tf, mem, clearing>>
        /\ pending' = sending[2] \cup {sending[1]} /\ sending[2] \in SUBSET Sigs
        /\ sends \in Nat /\ sends > 0 /\ Cardinality(sending[2]) <= k
    BY <1>7 DEF KillWrites, RaceInv, TypeOK, DepthInv
  <2>2. Arrived' = k + 1
    BY <2>1 DEF Arrived
  <2>3. Room(Arrived)' = R + 2 * (k + 1)
    BY <1>1, <2>2, RoomGrows DEF Room
  <2>4. Cardinality(pending') <= k + 1 /\ Cardinality(pending') \in Nat
    <3>1. IsFiniteSet(sending[2]) /\ Cardinality(sending[2]) \in Nat
      BY <2>1, SigsFinite
    <3>2. \/ Cardinality(pending') = Cardinality(sending[2])
          \/ Cardinality(pending') = Cardinality(sending[2]) + 1
      BY <2>1, <3>1, FS_AddElement
    <3>3. QED
      BY <1>1, <2>1, <3>1, <3>2
  <2>5. \A v \in Worklists' : Cardinality(v) \in Nat /\ Cardinality(v) <= k + 1
    <3>1. \A v \in Worklists' : v = pending' \/ v \in Worklists
      BY <2>1 DEF Worklists
    <3>2. QED
      BY <1>1, <1>2, <2>4, <3>1
  <2>6. tf.esp <= R /\ \A d \in Depths : mem[d].esp <= R + 1
    BY <1>1, <1>2, <1>3
  <2> HIDE DEF k, R
  <2>7. ASSUME NEW v \in Worklists'
        PROVE  /\ Cardinality(v) <= k + 1
               /\ tf'.esp + 2 * Cardinality(v) <= R + 2 * (k + 1)
               /\ \A d \in Depths : mem'[d].esp + 2 * Cardinality(v) <= R + 2 * (k + 1) + 1
    BY <1>1, <2>1, <2>5, <2>6
  <2>8. QED
    BY <1>1, <2>1, <2>2, <2>3, <2>7 DEF DepthInv
<1>8. CASE Compute
  BY <1>1, <1>4, <1>5, <1>8 DEF Compute, TypeOK, Frames
<1>9. CASE HandlerReturns
  BY <1>4, <1>5, <1>9 DEF HandlerReturns, TypeOK, Frames
<1>10. CASE Exits \/ Timer
  BY <1>4, <1>5, <1>10 DEF Exits, Timer
<1>11. ASSUME NEW s \in Sigs, NEW h, NEW m, Sigaction(s, h, m)
       PROVE  DepthInv'
  BY <1>4, <1>5, <1>11 DEF Sigaction, TypeOK, Frames
<1>12. ASSUME NEW m, Sigprocmask(m)
       PROVE  DepthInv'
  BY <1>4, <1>5, <1>12 DEF Sigprocmask, TypeOK, Frames
<1>13. ASSUME NEW c, CallFails(c)
       PROVE  DepthInv'
  BY <1>4, <1>5, <1>13 DEF CallFails, TypeOK, Frames
<1>14. CASE Exec
  <2>1. tf'.esp = 0 /\ \A d \in Depths : mem'[d].esp = 1
    BY <1>1, <1>14 DEF Exec, MainFrame
  <2>2. UNCHANGED <<sending, sends, pending, clearing>>
    BY <1>14 DEF Exec
  <2>3. QED
    BY <1>4, <1>5, <2>1, <2>2
<1>15. CASE ForkChild
  <2>1. tf'.esp = tf.esp /\ UNCHANGED <<mem, sending, sends, clearing>> /\ pending' = {}
    BY <1>15 DEF ForkChild, TypeOK, Frames
  <2>2. \A v \in Worklists' : v = {} \/ v \in Worklists
    BY <2>1 DEF Worklists
  <2>3. \A v \in Worklists' : \E w \in Worklists :
          Cardinality(v) <= Cardinality(w) /\ Cardinality(v) \in Nat
    <3>1. Cardinality({}) = 0 /\ 0 \in Nat
      BY FS_EmptySet
    <3>2. Cardinality(pending) \in Nat /\ Cardinality({}) <= Cardinality(pending)
      BY <1>2, <1>3, <3>1
    <3>3. ASSUME NEW v \in Worklists'
          PROVE  \E w \in Worklists : Cardinality(v) <= Cardinality(w) /\ Cardinality(v) \in Nat
      <4>1. CASE v = {}
        BY <1>3, <3>1, <3>2, <4>1
      <4>2. CASE v \in Worklists
        BY <1>2, <4>2
      <4>3. QED
        BY <2>2, <4>1, <4>2
    <3>4. QED
      BY <3>3
  <2>4. QED
    BY <1>4, <2>1, <2>3
<1>16. CASE Sigret
  <2>1. tf'.esp = mem[backup].esp - 1 /\ backup \in Depths
    BY <1>16 DEF Sigret, Restored, TypeOK, Frames
  <2>2. UNCHANGED <<mem, sending, sends, pending, clearing>>
    BY <1>16 DEF Sigret
  <2>3. QED
    BY <1>4, <1>5, <2>1, <2>2
<1>17. ASSUME NEW s \in Sigs, ConsumeReads(s)
       PROVE  DepthInv'
  <2>1. clearing' = <<s, pending>> /\ UNCHANGED <<pending, tf, mem, sending, sends>>
    BY <1>17 DEF ConsumeReads
  <2>2. \A v \in Worklists' : v = pending
    BY <2>1 DEF Worklists
  <2>3. \A v \in Worklists' : \E w \in Worklists :
          Cardinality(v) <= Cardinality(w) /\ Cardinality(v) \in Nat
    BY <1>2, <1>3, <2>2
  <2>4. QED
    BY <1>4, <2>1, <2>3
<1>18. ASSUME NEW s \in Sigs, ConsumeWrites(s)
       PROVE  DepthInv'
  <2>1. /\ clearing # <<>> /\ clearing' = <<>> /\ s \in clearing[2]
        /\ clearing[2] \in SUBSET Sigs /\ pending' = clearing[2] \ {s}
        /\ UNCHANGED <<sending, sends>>
    BY <1>18, Clears DEF ConsumeWrites
  <2>2. clearing[2] \in Worklists /\ Worklists' = {pending'}
    BY <2>1 DEF Worklists
  <2>3. Cardinality(pending') = Cardinality(clearing[2]) - 1 /\ Cardinality(pending') \in Nat
    <3>1. IsFiniteSet(clearing[2]) /\ Cardinality(clearing[2]) \in Nat
      BY <2>1, SigsFinite
    <3>2. pending' \in SUBSET Sigs
      BY <2>1
    <3>3. QED
      BY <2>1, <3>1, <3>2, SigsFinite, FS_RemoveElement
  <2>4. CASE UNCHANGED <<tf, mem>>
    <3>1. \A v \in Worklists' : \E w \in Worklists :
            Cardinality(v) <= Cardinality(w) /\ Cardinality(v) \in Nat
      BY <1>2, <2>2, <2>3
    <3>2. QED
      BY <1>4, <2>1, <2>4, <3>1
  <2>5. CASE Deliver(s)
    <3>1. tf'.esp = tf.esp + 2
      BY <2>5 DEF Deliver
    <3>2. \A d \in Depths : mem'[d].esp = mem[d].esp \/ mem'[d].esp = tf.esp + 1
      BY <2>5 DEF Deliver, TypeOK, Frames
    <3> DEFINE a == Cardinality(pending')
               b == Cardinality(clearing[2])
    <3>3. /\ a \in Nat /\ b \in Nat /\ a = b - 1 /\ b <= k /\ tf.esp + 2 * b <= R
          /\ \A d \in Depths : mem[d].esp + 2 * b <= R + 1
      BY <1>2, <2>2, <2>3
    <3> HIDE DEF a, b, k, R
    <3>4. a <= k /\ tf'.esp + 2 * a <= R
      BY <1>1, <3>1, <3>3
    <3>5. \A d \in Depths : mem'[d].esp + 2 * a <= R + 1 /\ mem'[d].esp >= 1
      BY <1>1, <3>2, <3>3
    <3>6. Arrived' = k /\ Room(Arrived)' = R
      BY <2>1 DEF Arrived, Room, k, R
    <3>7. sending' # <<>> => sends' > 0 /\ Cardinality(sending'[2]) <= k
      BY <2>1 DEF DepthInv, k
    <3>8. QED
      BY <2>2, <3>4, <3>5, <3>6, <3>7 DEF DepthInv, a
  <2>6. QED
    BY <1>18, <2>4, <2>5, Dispatched
<1>19. CASE RunnerDone
  BY <1>4, <1>5, <1>19 DEF RunnerDone
<1>20. CASE UNCHANGED vars
  BY <1>4, <1>5, <1>20 DEF vars
<1>21. QED
  BY <1>6, <1>7, <1>8, <1>9, <1>10, <1>11, <1>12, <1>13, <1>14, <1>15, <1>16, <1>17, <1>18,
     <1>19, <1>20 DEF Next, Runner

\* Every step of a process with spaced senders keeps one signal or one handler
\* at a time.
LEMMA OneStep ==
    ASSUME TypeOK, RaceInv, OneInv, [Next]_vars
    PROVE  OneInv'
<1> USE DEF OneInv, table, rmw, history
<1>1. ASSUME UNCHANGED <<spaced, sending, pending, clearing, ctx, want>>,
             mode' = mode \/ mode = "user"
      PROVE  OneInv'
  BY <1>1
<1>2. ASSUME NEW s \in Sigs, KillReads(s)
      PROVE  OneInv'
  BY <1>2 DEF KillReads, MaySend, RaceInv
<1>3. CASE KillWrites
  <2>1. sending # <<>> /\ sending[1] \in Sigs /\ sending' = <<>>
    BY <1>3 DEF KillWrites, RaceInv
  <2>2. QED
    BY <1>3, <2>1 DEF KillWrites
<1>4. CASE Compute \/ HandlerReturns \/ Exits \/ Timer
  BY <1>1, <1>4 DEF Compute, HandlerReturns, Exits, Timer
<1>5. ASSUME NEW s \in Sigs, NEW h, NEW m, Sigaction(s, h, m)
      PROVE  OneInv'
  BY <1>1, <1>5 DEF Sigaction, Served, Traps, InUser
<1>6. ASSUME NEW m, Sigprocmask(m)
      PROVE  OneInv'
  BY <1>1, <1>6 DEF Sigprocmask, Served, Traps, InUser
<1>7. ASSUME NEW c, CallFails(c)
      PROVE  OneInv'
  BY <1>1, <1>7 DEF CallFails, Served, Traps, InUser
<1>8. CASE Exec
  BY <1>8 DEF Exec, Served, Traps, InUser
<1>9. CASE ForkChild
  BY <1>9 DEF ForkChild, Traps, InUser, RaceInv
<1>10. CASE Sigret
  <2>1. UNCHANGED <<spaced, sending, pending, clearing>> /\ mode' = "runner" /\ (ctx = <<>> => ctx' = <<>>)
    BY <1>10 DEF Sigret
  <2>2. QED
    BY <2>1
<1>11. ASSUME NEW s \in Sigs, ConsumeReads(s)
       PROVE  OneInv'
  BY <1>11 DEF ConsumeReads, Finds
<1>12. ASSUME NEW s \in Sigs, ConsumeWrites(s)
       PROVE  OneInv'
  <2>1. /\ clearing # <<>> /\ clearing' = <<>> /\ s \in clearing[2] /\ pending' = clearing[2] \ {s}
        /\ UNCHANGED <<spaced, sending, mode, want>>
    BY <1>12, Clears DEF ConsumeWrites
  <2>2. spaced => sending = <<>> /\ pending' = {}
    BY <2>1
  <2>3. QED
    BY <2>1, <2>2
<1>13. CASE RunnerDone
  BY <1>13 DEF RunnerDone
<1>14. CASE UNCHANGED vars
  BY <1>1, <1>14 DEF vars
<1>15. QED
  BY <1>2, <1>3, <1>4, <1>5, <1>6, <1>7, <1>8, <1>9, <1>10, <1>11, <1>12, <1>13, <1>14
     DEF Next, Runner

\* Without fork in handlers, every step of a process with spaced senders keeps
\* the interrupted frame where the trampoline will find it.
LEMMA FrameStep ==
    ASSUME TypeOK, RaceInv, DepthInv, OneInv, FrameInv, [Next]_vars
    PROVE  FrameInv'
<1> USE DEF table, rmw, history
<1> SUFFICES ASSUME spaced, "fork" \notin HandlerCalls
             PROVE  FrameInv'
  <2>1. spaced' = spaced
    BY DEF Next, Runner, vars, KillReads, KillWrites, Compute, HandlerReturns, Exits, Timer,
           Sigaction, Sigprocmask, CallFails, Exec, ForkChild, Sigret, ConsumeReads,
           ConsumeWrites, RunnerDone
  <2>2. QED
    BY <2>1 DEF FrameInv
<1> DEFINE Saved(c, t, b, m) ==
             /\ c = <<>> => t.at = "main"
             /\ c # <<>> =>
                  /\ \E f \in Frames : c = <<f>>
                  /\ c[1].at = "main" /\ t.at \in {"handler", "tramp"}
                  /\ b = c[1].esp + 1 /\ b <= t.esp
                  /\ m[b] = [c[1] EXCEPT !.esp = @ + 1]
<1>1. Saved(ctx, tf, backup, mem) /\ Resumes
  BY DEF FrameInv
<1>2. ASSUME Saved(ctx', tf', backup', mem'), Resumes'
      PROVE  FrameInv'
  BY <1>2 DEF FrameInv
<1>3. tf \in Frames /\ \A d \in Depths : d \in Nat
  <2>1. MaxSends * (MaxSends + 1) + 1 \in Nat
    BY BoundsAssumption
  <2>2. QED
    BY <2>1 DEF TypeOK, Depths
<1> HIDE DEF Saved
<1>4. ASSUME UNCHANGED <<tf, mem, backup, ctx, want, sigi>>, mode' = mode \/ mode = "user"
      PROVE  FrameInv'
  <2>1. mode = "user" => want = <<>>
    BY DEF OneInv
  <2>2. Resumes'
    BY <1>1, <1>4, <2>1 DEF Resumes
  <2>3. QED
    BY <1>1, <1>2, <1>4, <2>2
<1>5. ASSUME UNCHANGED <<mem, backup, ctx, want>>, mode = "user", tf'.esp = tf.esp,
             tf'.at = tf.at \/ (tf.at = "handler" /\ tf'.at = "tramp")
      PROVE  FrameInv'
  <2>1. want' = <<>>
    BY <1>5 DEF OneInv
  <2>2. Saved(ctx', tf', backup', mem')
    BY <1>1, <1>5 DEF Saved
  <2>3. QED
    BY <1>2, <2>1, <2>2 DEF Resumes
<1>6. ASSUME NEW s \in Sigs, KillReads(s)
      PROVE  FrameInv'
  BY <1>4, <1>6 DEF KillReads
<1>7. CASE KillWrites
  BY <1>4, <1>7 DEF KillWrites
<1>8. CASE Compute
  <2>1. /\ mode = "user" /\ UNCHANGED <<mode, backup, ctx, want>> /\ tf'.esp = tf.esp /\ tf'.at = tf.at
    BY <1>3, <1>8 DEF Compute, InUser, Frames
  <2>2. tf.esp \in Nat /\ backup \in Depths /\ backup \in Nat
    BY <1>3 DEF Frames, TypeOK
  <2>3. backup <= tf.esp => mem'[backup] = mem[backup]
    BY <1>8, <2>2 DEF Compute
  <2>4. Saved(ctx', tf', backup', mem')
    BY <1>1, <2>1, <2>3 DEF Saved
  <2>5. want' = <<>>
    BY <2>1 DEF OneInv
  <2>6. QED
    BY <1>2, <2>4, <2>5 DEF Resumes
<1>9. CASE HandlerReturns
  BY <1>3, <1>5, <1>9 DEF HandlerReturns, Frames
<1>10. CASE Exits \/ Timer
  BY <1>4, <1>10 DEF Exits, Timer
<1>11. ASSUME NEW s \in Sigs, NEW h, NEW m, Sigaction(s, h, m)
       PROVE  FrameInv'
  BY <1>3, <1>5, <1>11 DEF Sigaction, Served, Traps, InUser, Frames
<1>12. ASSUME NEW m, Sigprocmask(m)
       PROVE  FrameInv'
  BY <1>3, <1>5, <1>12 DEF Sigprocmask, Served, Traps, InUser, Frames
<1>13. ASSUME NEW c, CallFails(c)
       PROVE  FrameInv'
  BY <1>3, <1>5, <1>13 DEF CallFails, Served, Traps, InUser, Frames
<1>14. CASE Exec
  <2>1. ctx' = <<>> /\ tf'.at = "main" /\ want' = <<>>
    BY <1>14 DEF Exec, Served, Traps, InUser, MainFrame, OneInv
  <2>2. QED
    BY <1>2, <2>1 DEF Saved, Resumes
<1>15. CASE ForkChild
  <2>1. mode = "user" /\ tf.at = "main" /\ UNCHANGED <<ctx, want>>
    BY <1>15 DEF ForkChild, Traps, InUser
  <2>2. ctx = <<>> /\ want = <<>>
    BY <1>1, <2>1 DEF Saved, OneInv
  <2>3. tf'.at = "main"
    BY <1>3, <1>15, <2>1 DEF ForkChild, Frames
  <2>4. QED
    BY <1>2, <2>1, <2>2, <2>3 DEF Saved, Resumes
<1>16. CASE Sigret
  <2>1. ctx # <<>>
    BY <1>1, <1>16 DEF Sigret, Saved
  <2>2. PICK f \in Frames : ctx = <<f>>
    BY <1>1, <2>1 DEF Saved
  <2>3. f.at = "main" /\ mem[backup] = [f EXCEPT !.esp = @ + 1] /\ f.esp \in Nat
    BY <1>1, <1>3, <2>1, <2>2 DEF Saved, Frames
  <2>4. tf' = [f EXCEPT !.eax = 0]
    <3>1. mem[backup].esp = f.esp + 1 /\ mem[backup].esp - 1 = f.esp
      BY <2>3 DEF Frames
    <3>2. [mem[backup] EXCEPT !.esp = f.esp] = f
      BY <2>3 DEF Frames
    <3>3. Restored(backup) = f
      BY <3>1, <3>2 DEF Restored
    <3>4. QED
      BY <1>16, <3>3 DEF Sigret
  <2>5. want' = <<f>> /\ ctx' = <<>>
    <3>1. Len(ctx) = 1 /\ ctx[1] = f
      BY <2>2
    <3>2. want' = <<ctx[Len(ctx)]>> /\ ctx' = SubSeq(ctx, 1, Len(ctx) - 1)
      BY <1>16, <2>1 DEF Sigret
    <3>3. QED
      BY <2>2, <3>1, <3>2
  <2>6. Control(tf') = Control(f) /\ tf'.at = "main"
    BY <2>3, <2>4 DEF Control, Frames
  <2>7. QED
    BY <1>2, <2>5, <2>6 DEF Saved, Resumes, Control
<1>17. ASSUME NEW s \in Sigs, ConsumeReads(s)
       PROVE  FrameInv'
  BY <1>4, <1>17 DEF ConsumeReads
<1>18. ASSUME NEW s \in Sigs, ConsumeWrites(s)
       PROVE  FrameInv'
  <2>1. clearing # <<>> /\ sigi' # 0
    <3>1. clearing # <<>> /\ sigi' = s + 1
      BY <1>18 DEF ConsumeWrites
    <3>2. QED
      BY <3>1, SigsAssumption
  <2>2. ctx = <<>> /\ tf.at = "main"
    BY <1>1, <2>1 DEF OneInv, Saved
  <2>3. Resumes'
    BY <2>1 DEF Resumes
  <2>4. CASE UNCHANGED <<tf, mem, backup, ctx>>
    BY <1>1, <1>2, <2>3, <2>4
  <2>5. CASE Deliver(s)
    <3>1. ctx' = <<tf>>
      BY <2>2, <2>5 DEF Deliver
    <3>2. tf.esp \in Nat /\ backup' = tf.esp + 1 /\ tf'.esp = tf.esp + 2 /\ tf'.at = "handler"
      BY <1>3, <2>5 DEF Deliver, Frames
    <3>3. mem'[backup'] = [tf EXCEPT !.esp = @ + 1]
      <4>1. tf.esp + 1 \in Depths
        BY <2>1, DeliverRoom
      <4>2. QED
        BY <2>5, <4>1 DEF Deliver, TypeOK
    <3>4. Saved(ctx', tf', backup', mem')
      BY <1>3, <2>2, <3>1, <3>2, <3>3 DEF Saved
    <3>5. QED
      BY <1>2, <2>3, <3>4
  <2>6. QED
    BY <1>18, <2>4, <2>5, Dispatched
<1>19. CASE RunnerDone
  <2>1. UNCHANGED <<tf, mem, backup, ctx>> /\ want' = <<>>
    BY <1>19 DEF RunnerDone
  <2>2. QED
    BY <1>1, <1>2, <2>1 DEF Resumes
<1>20. CASE UNCHANGED vars
  BY <1>4, <1>20 DEF vars
<1>21. QED
  BY <1>6, <1>7, <1>8, <1>9, <1>10, <1>11, <1>12, <1>13, <1>14, <1>15, <1>16, <1>17, <1>18,
     <1>19, <1>20 DEF Next, Runner

\* The invariant holds of a process in its first program.
LEMMA InitIInv == Init => IInv
<1> SUFFICES ASSUME Init
             PROVE  IInv
  OBVIOUS
<1>1. /\ sending = <<>> /\ clearing = <<>> /\ ctx = <<>> /\ want = <<>> /\ pending = {} /\ img = 2
      /\ tf = MainFrame(2) /\ sends = 0 /\ mem = [d \in Depths |-> Wild]
      /\ handler = [s \in Sigs |-> SIG_DFL]
  BY DEF Init
<1>2. Depths = 0..(Room(MaxSends) + 1) /\ Room(MaxSends) \in Nat
  BY BoundsAssumption, RoomGrows DEF Depths, Room
<1>3. 0 \in Depths /\ 1 \in Depths /\ 2 \in Images
  BY <1>2, BoundsAssumption DEF Images
<1>4. MainFrame(2) \in Frames
  BY <1>3 DEF MainFrame, Frames
<1>5. Wild \in Frames
  BY <1>3, <1>4 DEF Wild, Frames
<1>6. TypeOK
  <2>1. tf \in Frames /\ mem \in [Depths -> Frames] /\ backup \in Depths /\ img \in Images
    BY <1>1, <1>3, <1>4, <1>5 DEF Init
  <2>2. handler \in [Sigs -> {SIG_DFL, SIG_IGN} \cup Images]
    BY <1>1
  <2>3. sigi \in 0..32 /\ sends \in 0..MaxSends
    BY BoundsAssumption DEF Init
  <2>4. QED
    BY <2>1, <2>2, <2>3 DEF Init, TypeOK
<1>7. RaceInv
  BY <1>1 DEF RaceInv
<1>8. ImagesInv
  <2>1. Wild.at = "wild" /\ MainFrame(2).img = 2
    BY DEF Wild, MainFrame
  <2>2. QED
    BY <1>1, <2>1 DEF ImagesInv
<1>9. DepthInv
  <2>1. Worklists = {{}} /\ Arrived = 0 /\ Cardinality({}) = 0
    BY <1>1, FS_EmptySet DEF Worklists, Arrived
  <2>2. Room(Arrived) = 0
    BY <2>1 DEF Room
  <2>3. tf.esp = 0 /\ \A d \in Depths : mem[d].esp = 1
    BY <1>1 DEF MainFrame, Wild
  <2>4. QED
    BY <1>1, <2>1, <2>2, <2>3 DEF DepthInv
<1>10. OneInv
  BY <1>1 DEF OneInv
<1>11. FrameInv
  BY <1>1 DEF FrameInv, Resumes, MainFrame
<1>12. QED
  BY <1>6, <1>7, <1>8, <1>9, <1>10, <1>11 DEF IInv

-----------------------------------------------------------------------------
(* The theorems. *)

\* The inductive invariant: kill() and the runner race on pending_signals only
\* with signals that were sent, code addresses are of the current image, the
\* frames fit, and with spaced senders the backup pointer is at the frame of
\* the code that the handler interrupted.
THEOREM Invariant == Spec => []IInv
<1>1. Init => IInv
  BY InitIInv
<1>2. IInv /\ [Next]_vars => IInv'
  <2> SUFFICES ASSUME IInv, [Next]_vars
               PROVE  IInv'
    OBVIOUS
  <2>1. TypeOK'
    BY TypeStep DEF IInv
  <2>2. RaceInv'
    BY RaceStep DEF IInv
  <2>3. ImagesInv'
    BY ImagesStep DEF IInv
  <2>4. DepthInv'
    BY <2>1, <2>2, DepthStep DEF IInv
  <2>5. OneInv'
    BY OneStep DEF IInv
  <2>6. FrameInv'
    BY FrameStep DEF IInv
  <2>7. QED
    BY <2>1, <2>2, <2>3, <2>4, <2>5, <2>6 DEF IInv
<1>3. QED
  BY <1>1, <1>2, PTL DEF Spec

\* Every variable has its type; in particular the stack holds the frames of
\* all the handlers that the races between kill() and the runner can start.
THEOREM TypeCorrect == Spec => []TypeOK
<1>1. IInv => TypeOK
  BY DEF IInv
<1>2. QED
  BY <1>1, Invariant, PTL

\* kill() and sig_handler_runner(), although they overwrite each other's bits
\* of pending_signals, never make a signal pending that was not sent.
THEOREM NoForgedSignalHolds == Spec => []NoForgedSignal
<1>1. IInv => NoForgedSignal
  BY DEF IInv, RaceInv, NoForgedSignal
<1>2. QED
  BY <1>1, Invariant, PTL

\* After exec() no handler and no resumed context is of an earlier image, also
\* when a handler called exec() and the old frames are on the stack.
THEOREM NoStaleImageHolds == Spec => []NoStaleImage
<1>1. IInv => NoStaleImage
  BY DEF IInv, ImagesInv, NoStaleImage
<1>2. QED
  BY <1>1, Invariant, PTL

\* With spaced senders, and handlers that do not fork (the child of such a
\* handler has a backup pointer that fork() does not copy), the implicit sigret
\* resumes the code that the signal interrupted, with its stack.
THEOREM ControlRestoredHolds ==
    ASSUME "fork" \notin HandlerCalls
    PROVE  Spec => []ControlRestored
<1>1. IInv => ControlRestored
  BY DEF IInv, FrameInv, ControlRestored
<1>2. QED
  BY <1>1, Invariant, PTL

\* sig_handler_runner() obeys the dispositions: SIGKILL and SIGSTOP act whatever
\* the mask and the handlers are; a masked or ignored signal changes nothing.
THEOREM DispositionObeyedHolds == Spec => DispositionObeyed
<1> DEFINE Obeyed ==
      clearing # <<>> /\ clearing' = <<>> =>
        LET s == clearing[1] IN
        /\ s = SIGKILL => killed'
        /\ s = SIGSTOP => freeze'
        /\ s \notin {SIGKILL, SIGSTOP} /\ (s \in mask \/ handler[s] = SIG_IGN) =>
             UNCHANGED <<tf, killed, freeze>>
<1>1. ASSUME IInv, [Next]_vars
      PROVE  [Obeyed]_vars
  <2>1. SUFFICES ASSUME clearing # <<>>, clearing' = <<>>
                 PROVE  Obeyed
    OBVIOUS
  <2>2. mode = "runner"
    BY <1>1, <2>1 DEF IInv, RaceInv
  <2>3. PICK s \in Sigs : ConsumeWrites(s)
    BY <1>1, <2>1, <2>2
       DEF Next, Runner, vars, rmw, KillReads, KillWrites, Compute, HandlerReturns, Exits, Timer,
           Sigaction, Sigprocmask, CallFails, Exec, ForkChild, Sigret, ConsumeReads, Finds,
           RunnerDone, Served, Traps, InUser
  <2>4. s = clearing[1] /\ Dispatch(s)
    BY <2>3 DEF ConsumeWrites
  <2>5. QED
    BY <2>4 DEF Dispatch, KillDefault, SetFreeze, Discard, SIGKILL, SIGSTOP, SIG_DFL, SIG_IGN, SIGCONT
<1>2. QED
  BY <1>1, Invariant, PTL DEF Spec, DispositionObeyed

=============================================================================
