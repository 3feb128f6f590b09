---------------------------- MODULE UpkeepProofs ----------------------------
(***************************************************************************)
(* What keeps credentials current in the background.  For any number of    *)
(* credentials, workers and editors, the loop of refreshes forgets none    *)
(* and refreshes none twice at a time but after its mark was lost; for any *)
(* number of files, sessions and reloads, the service has what is in them  *)
(* when nothing is under way, but where a reload met the change halfway.   *)
(***************************************************************************)
EXTENDS AutoRefresh, Watcher, WellFoundedInduction, FiniteSetTheorems, SequenceTheorems, TLAPS

-----------------------------------------------------------------------------
(* Numbers. *)

\* A set of natural numbers has a least one.
LEMMA LeastNat ==
    ASSUME NEW T, T \subseteq Nat, T # {}
    PROVE  \E x \in T : \A y \in T : x <= y
  <1> DEFINE R == {ss \in Nat \X Nat : ss[1] < ss[2]}
  <1>1. IsWellFoundedOn(R, Nat)
    BY NatLessThanWellFounded DEF OpToRel
  <1>2. PICK x \in T : \A y \in T : ~(<<y, x>> \in R)
    <2> HIDE DEF R
    <2> QED
      BY <1>1, WFMin
  <1>3. \A y \in T : ~(y < x)
    BY <1>2
  <1> QED
    BY <1>3

LEMMA MinIsLeast ==
    ASSUME NEW T, T \subseteq Nat, T # {}
    PROVE  Min(T) \in T /\ \A y \in T : Min(T) <= y
  <1>1. PICK x \in T : \A y \in T : x <= y
    BY LeastNat
  <1> QED
    BY <1>1 DEF Min

LEMMA OfTwo ==
    ASSUME NEW a \in Int, NEW b \in Int
    PROVE  /\ Max({a, b}) \in Int /\ Max({a, b}) >= a /\ Max({a, b}) >= b
           /\ Min({a, b}) \in {a, b} /\ Min({a}) = a
  <1>1. \E x \in {a, b} : \A y \in {a, b} : x >= y
    BY a >= b \/ b >= a
  <1>2. \E x \in {a, b} : \A y \in {a, b} : x <= y
    BY a <= b \/ b <= a
  <1>3. Max({a, b}) \in {a, b} /\ \A y \in {a, b} : Max({a, b}) >= y
    BY <1>1 DEF Max
  <1>4. Min({a, b}) \in {a, b}
    BY <1>2 DEF Min
  <1>5. Min({a}) = a
    BY DEF Min
  <1> QED
    BY <1>3, <1>4, <1>5

-----------------------------------------------------------------------------
(* When a credential is looked at. *)

\* There is a time to look at it.
Checked(r, t) ==
    /\ ~r.disabled /\ ~r.apiKey
    /\ t < r.after \/ r.evaluator \/ r.pref # 0 \/ r.lead # 0

LEMMA DueTyped ==
    ASSUME NEW r \in Records
    PROVE  Min(DueTimes(r)) \in Int
  <1>1. r.pref \in Nat /\ r.lead \in Nat /\ r.expiry \in Nat /\ r.last \in Nat
    BY DEF Records
  <1>2. CASE r.pref > 0
    <2> DEFINE a == IF r.last = 0 THEN 0 ELSE r.last + r.pref
               b == r.expiry - r.pref
    <2>1. a \in Int /\ b \in Int
      BY <1>1
    <2>2. DueTimes(r) = {a, b} \/ DueTimes(r) = {a}
      <3>1. r.expiry = 0 \/ {r.expiry} \ {0} = {r.expiry}
        OBVIOUS
      <3> QED
        BY <1>2, <3>1 DEF DueTimes
    <2> HIDE DEF a, b
    <2>3. Min({a, b}) \in {a, b} /\ Min({a}) = a
      BY <2>1, OfTwo
    <2> QED
      BY <2>1, <2>2, <2>3
  <1>3. CASE ~(r.pref > 0)
    <2> DEFINE a == IF r.expiry # 0 THEN r.expiry - r.lead
                    ELSE IF r.last # 0 THEN r.last + r.lead ELSE 0
    <2>1. a \in Int
      BY <1>1
    <2>2. DueTimes(r) = {a}
      BY <1>3 DEF DueTimes
    <2> HIDE DEF a
    <2> QED
      BY <2>1, <2>2, OfTwo
  <1> QED
    BY <1>2, <1>3

LEMMA CheckTyped ==
    ASSUME NEW r \in Records, NEW t \in Nat \ {0}
    PROVE  NextCheck(r, t) \in Nat /\ (NextCheck(r, t) # 0 <=> Checked(r, t))
  <1>1. /\ r.after \in Nat /\ r.pref \in Nat /\ r.lead \in Nat
        /\ r.disabled \in BOOLEAN /\ r.apiKey \in BOOLEAN /\ r.evaluator \in BOOLEAN
        /\ Interval \in Nat
    BY RefreshAssumption DEF Records
  <1> DEFINE m == Max({t, Min(DueTimes(r))})
  <1>2. m \in Int /\ m >= t
    <2> DEFINE d == Min(DueTimes(r))
    <2>1. d \in Int
      BY DueTyped
    <2> HIDE DEF d
    <2>2. Max({t, d}) \in Int /\ Max({t, d}) >= t
      BY <2>1, t \in Int, OfTwo, Zenon
    <2> QED
      BY <2>2 DEF d
  <1>3. NextCheck(r, t) = IF r.disabled \/ r.apiKey THEN 0
                          ELSE IF t < r.after THEN r.after
                          ELSE IF r.evaluator THEN t + Interval
                          ELSE IF r.pref = 0 /\ r.lead = 0 THEN 0 ELSE m
    BY DEF NextCheck
  <1> HIDE DEF m
  <1>4. NextCheck(r, t) \in Nat /\ (NextCheck(r, t) # 0 <=> Checked(r, t))
    BY <1>1, <1>2, <1>3, RefreshAssumption DEF Checked
  <1> QED
    BY <1>4

\* What has a time now had one before.
LEMMA CheckedBefore ==
    ASSUME NEW r \in Records, NEW t \in Nat, NEW u \in Nat, t <= u, Checked(r, u)
    PROVE  Checked(r, t)
  BY DEF Checked, Records

-----------------------------------------------------------------------------
(* Records. *)

\* A record with one field changed is a record.
LEMMA RecordChanges ==
    ASSUME NEW r \in Records
    PROVE  /\ \A n \in Nat : [r EXCEPT !.last = n] \in Records
           /\ \A n \in Nat : [r EXCEPT !.after = n] \in Records
           /\ \A n \in Nat : [r EXCEPT !.expiry = n] \in Records
           /\ \A m \in {"none", "pending", "backoff"} : [r EXCEPT !.mark = m] \in Records
           /\ \A b \in BOOLEAN : [r EXCEPT !.disabled = b] \in Records
           /\ r.last \in Nat /\ r.after \in Nat /\ r.expiry \in Nat
           /\ r.mark \in {"none", "pending", "backoff"} /\ r.disabled \in BOOLEAN
  BY DEF Records

\* So is one that is marked,
LEMMA Marked ==
    ASSUME NEW r \in Records, NEW n \in Nat, NEW m \in {"none", "pending", "backoff"}
    PROVE  /\ [r EXCEPT !.after = n, !.mark = m] \in Records
           /\ [r EXCEPT !.after = n, !.mark = m].after = n
           /\ [r EXCEPT !.after = n, !.mark = m].mark = m
  <1> DEFINE s == [r EXCEPT !.after = n]
             x == [s EXCEPT !.mark = m]
  <1>1. s \in Records
    BY RecordChanges
  <1>2. x = [r EXCEPT !.after = n, !.mark = m]
    BY DEF Records
  <1>3. s.after = n
    BY DEF Records
  <1> HIDE DEF s
  <1>4. x \in Records
    BY <1>1, RecordChanges
  <1>5. x.after = n /\ x.mark = m
    BY <1>1, <1>3 DEF Records
  <1> HIDE DEF x
  <1> QED
    BY <1>2, <1>4, <1>5

\* one that is refreshed,
LEMMA Renewed ==
    ASSUME NEW r \in Records, NEW now \in Nat, NEW life \in Nat
    PROVE  [r EXCEPT !.last = now, !.after = 0, !.mark = "none",
                     !.expiry = IF life = 0 THEN @ ELSE now + life] \in Records
  <1> DEFINE e == IF life = 0 THEN r.expiry ELSE now + life
             s == [r EXCEPT !.last = now]
             u == [s EXCEPT !.after = 0]
             v == [u EXCEPT !.mark = "none"]
             x == [v EXCEPT !.expiry = e]
  <1>1. x = [r EXCEPT !.last = now, !.after = 0, !.mark = "none",
                      !.expiry = IF life = 0 THEN @ ELSE now + life]
    BY DEF Records
  <1>2. e \in Nat
    <2>1. r.expiry \in Nat /\ now + life \in Nat
      BY DEF Records
    <2> QED
      BY <2>1
  <1>3. s \in Records
    BY RecordChanges
  <1> HIDE DEF e, s
  <1>4. u \in Records
    BY <1>3, RecordChanges
  <1> HIDE DEF u
  <1>5. v \in Records
    BY <1>4, RecordChanges
  <1> HIDE DEF v
  <1>6. x \in Records
    BY <1>2, <1>5, RecordChanges
  <1> HIDE DEF x
  <1> QED
    BY <1>1, <1>6

\* and one that is loaded over another.
LEMMA Loaded ==
    ASSUME NEW r \in Records, NEW old \in Records
    PROVE  [r EXCEPT !.last = old.last, !.after = old.after, !.mark = old.mark] \in Records
  <1> DEFINE s == [r EXCEPT !.last = old.last]
             u == [s EXCEPT !.after = old.after]
             x == [u EXCEPT !.mark = old.mark]
  <1>1. x = [r EXCEPT !.last = old.last, !.after = old.after, !.mark = old.mark]
    BY DEF Records
  <1>2. s \in Records
    BY RecordChanges
  <1> HIDE DEF s
  <1>3. u \in Records
    BY <1>2, RecordChanges
  <1> HIDE DEF u
  <1>4. x \in Records
    BY <1>3, RecordChanges
  <1> HIDE DEF x
  <1> QED
    BY <1>1, <1>4

-----------------------------------------------------------------------------
(* Types. *)

Batching == {"due", "mark", "refused", "tell", "send"}

LoopOK ==
    /\ loop.pc \in Batching \cup {"start", "run", "select", "woken", "dirty", "stopped"}
    /\ loop.pc \in Batching \cup {"woken", "dirty"} =>
          loop.at \in Nat \ {0} /\ loop.at <= clock
    /\ loop.pc \in Batching => DOMAIN loop.due \subseteq Creds
    /\ loop.pc \in Batching \ {"due"} =>
          /\ loop = [pc |-> loop.pc, at |-> loop.at, due |-> loop.due, cred |-> loop.cred]
          /\ loop.cred \in DOMAIN loop.due
    /\ loop.pc = "dirty" =>
          loop = [pc |-> "dirty", at |-> loop.at, left |-> loop.left]

WorkerOK(x) ==
    /\ x.pc \in {"idle", "refresh", "requeue", "stopped"}
    /\ x.pc \in {"refresh", "requeue"} => x.cred \in Creds
    /\ x.pc = "refresh" => x.copy \in Records

EditorOK(x) ==
    /\ x.pc \in {"idle", "write", "tell", "done"}
    /\ x.pc \in {"write", "tell"} => x.cred \in Creds
    /\ x.pc = "write" => x.new \in Records

RefreshTypeOK ==
    /\ record \in [Creds -> Records]
    /\ clock \in Nat \ {0}
    /\ index \in [Creds -> Nat]
    /\ jobs \in Seq(Creds)
    /\ LoopOK
    /\ DOMAIN worker = RefreshWorkers /\ \A w \in RefreshWorkers : WorkerOK(worker[w])
    /\ DOMAIN editor = Editors /\ \A e \in Editors : EditorOK(editor[e])

LEMMA RefreshTyped0 == RefreshInit => RefreshTypeOK
  <1> SUFFICES ASSUME RefreshInit PROVE RefreshTypeOK
    OBVIOUS
  <1>1. record \in [Creds -> Records]
    BY RefreshAssumption DEF RefreshInit
  <1>2. WorkerOK(Free) /\ EditorOK(Free)
    BY DEF WorkerOK, EditorOK, Free
  <1> QED
    BY <1>1, <1>2 DEF RefreshInit, RefreshTypeOK, LoopOK, Batching

\* The loop's steps.
LEMMA LoopTyped ==
    ASSUME RefreshTypeOK, LoopStep \/ TimerFires
    PROVE  RefreshTypeOK'
  <1>0. /\ record \in [Creds -> Records] /\ clock \in Nat \ {0} /\ index \in [Creds -> Nat]
        /\ jobs \in Seq(Creds) /\ LoopOK /\ Pending \in Nat
    BY RefreshAssumption DEF RefreshTypeOK
  <1>1. UNCHANGED <<clock, worker, editor>>
    BY DEF LoopStep, TimerFires, Rebuild, Woken, MarkRefreshPending, LookAgain, TellPending,
           SendJob, DrainDirty, ResetTimer, StopLoop, HandleDue, ApplyDirty
  <1> SUFFICES /\ record' \in [Creds -> Records] /\ index' \in [Creds -> Nat]
               /\ jobs' \in Seq(Creds) /\ LoopOK'
    BY <1>1 DEF RefreshTypeOK, WorkerOK, EditorOK
  <1>2. ASSUME NEW c \in Creds, NEW t \in Nat \ {0}
        PROVE  NextCheck(record[c], t) \in Nat
    BY <1>0, CheckTyped
  <1>3. CASE Rebuild
    BY <1>0, <1>2, <1>3 DEF Rebuild, LoopOK, Batching
  <1>4. CASE Woken
    BY <1>0, <1>4 DEF Woken, LoopOK, Batching
  <1>5. CASE TimerFires
    BY <1>0, <1>5 DEF TimerFires, LoopOK, Batching
  <1>6. ASSUME NEW c \in Creds, HandleDue(c)
        PROVE  /\ record' \in [Creds -> Records] /\ index' \in [Creds -> Nat]
               /\ jobs' \in Seq(Creds) /\ LoopOK'
    <2>1. loop.pc = "due" /\ loop.at \in Nat \ {0} /\ loop.at <= clock /\ c \in DOMAIN loop.due
          /\ DOMAIN loop.due \subseteq Creds /\ UNCHANGED <<record, clock, jobs>>
      BY <1>0, <1>6 DEF HandleDue, LoopOK, Batching
    <2>2. /\ NextCheck(record[c], loop.at) \in Nat /\ loop.at + Interval \in Nat
      BY <1>2, <2>1, RefreshAssumption
    <2>3. \/ /\ loop' = [pc |-> "mark", at |-> loop.at, due |-> loop.due, cred |-> c]
             /\ index' = index
          \/ /\ loop' = Rest(c)
             /\ \E t \in Nat : index' = [index EXCEPT ![c] = t]
      BY <1>6, <2>2 DEF HandleDue, PutOrDrop
    <2>4. index' \in [Creds -> Nat]
      BY <1>0, <2>3
    <2>5. LoopOK'
      BY <2>1, <2>3 DEF LoopOK, Batching, Rest
    <2> QED
      BY <1>0, <2>1, <2>4, <2>5
  <1>7. CASE MarkRefreshPending
    <2>1. loop.pc = "mark" /\ loop.cred \in Creds /\ loop.at \in Nat
      BY <1>0, <1>7 DEF MarkRefreshPending, LoopOK, Batching
    <2>2. [record[loop.cred] EXCEPT !.after = loop.at + Pending, !.mark = "pending"] \in Records
      <3>1. record[loop.cred] \in Records /\ loop.at + Pending \in Nat
        BY <1>0, <2>1
      <3> QED
        BY <3>1, Marked
    <2>3. record' \in [Creds -> Records]
      BY <1>0, <1>7, <2>1, <2>2 DEF MarkRefreshPending
    <2>4. LoopOK'
      BY <1>0, <1>1, <1>7 DEF MarkRefreshPending, LoopOK, Batching
    <2> QED
      BY <1>0, <1>7, <2>3, <2>4 DEF MarkRefreshPending
  <1>8. CASE LookAgain
    <2>1. loop.cred \in Creds /\ loop.at \in Nat \ {0} /\ loop.at <= clock
          /\ DOMAIN loop.due \subseteq Creds
      BY <1>0, <1>8 DEF LookAgain, LoopOK, Batching
    <2> QED
      BY <1>0, <1>2, <1>8, <2>1 DEF LookAgain, LoopOK, Batching, PutOrDrop, Rest
  <1>9. CASE TellPending
    BY <1>0, <1>1, <1>9 DEF TellPending, LoopOK, Batching
  <1>10. CASE SendJob
    <2>1. loop.cred \in Creds /\ loop.at \in Nat \ {0} /\ loop.at <= clock
          /\ DOMAIN loop.due \subseteq Creds
      BY <1>0, <1>10 DEF SendJob, LoopOK, Batching
    <2>2. jobs' \in Seq(Creds)
      <3>1. Append(jobs, loop.cred) \in Seq(Creds)
        BY <1>0, <2>1
      <3> QED
        BY <1>0, <1>10, <3>1 DEF SendJob
    <2>3. LoopOK'
      BY <1>0, <1>1, <1>10, <2>1 DEF SendJob, LoopOK, Batching, Rest
    <2> QED
      BY <1>0, <1>10, <2>2, <2>3 DEF SendJob
  <1>11. CASE DrainDirty
    BY <1>0, <1>1, <1>11 DEF DrainDirty, LoopOK, Batching
  <1>12. ASSUME NEW c \in Creds, ApplyDirty(c)
         PROVE  /\ record' \in [Creds -> Records] /\ index' \in [Creds -> Nat]
                /\ jobs' \in Seq(Creds) /\ LoopOK'
    <2>1. loop.at \in Nat \ {0} /\ loop.at <= clock
      BY <1>0, <1>12 DEF ApplyDirty, LoopOK
    <2>2. loop' = [pc |-> "dirty", at |-> loop.at, left |-> loop.left \ {c}]
      BY <1>0, <1>12 DEF ApplyDirty, LoopOK
    <2>3. LoopOK'
      BY <1>1, <2>1, <2>2 DEF LoopOK, Batching
    <2> QED
      BY <1>0, <1>2, <1>12, <2>1, <2>3 DEF ApplyDirty, PutOrDrop
  <1>13. CASE ResetTimer
    BY <1>0, <1>13 DEF ResetTimer, LoopOK, Batching, Asleep
  <1>14. CASE StopLoop
    BY <1>0, <1>14 DEF StopLoop, LoopOK, Batching
  <1> QED
    BY <1>3, <1>4, <1>5, <1>6, <1>7, <1>8, <1>9, <1>10, <1>11, <1>12, <1>13, <1>14
       DEF LoopStep

\* A worker's steps: it goes on with its credential, and leaves a record.
LEMMA WorkerTyped ==
    ASSUME RefreshTypeOK, NEW w \in RefreshWorkers, WorkerStep(w)
    PROVE  RefreshTypeOK'
  <1>0. /\ record \in [Creds -> Records] /\ clock \in Nat \ {0} /\ jobs \in Seq(Creds)
        /\ DOMAIN worker = RefreshWorkers /\ WorkerOK(worker[w])
        /\ \A v \in RefreshWorkers : WorkerOK(worker[v])
    BY DEF RefreshTypeOK
  <1>1. UNCHANGED <<clock, loop, index, editor>>
    BY DEF WorkerStep, TakeJob, StopWorker, RefreshEnds, RefreshCanceled, RefreshFails,
           Refreshed, Requeue, QueueReschedule
  <1>2. ASSUME NEW x, WorkerOK(x), worker' = [worker EXCEPT ![w] = x],
               record' \in [Creds -> Records], jobs' \in Seq(Creds)
        PROVE  RefreshTypeOK'
    BY <1>0, <1>1, <1>2 DEF RefreshTypeOK, LoopOK, EditorOK
  <1>3. ASSUME NEW times, worker[w].pc \in {"refresh", "requeue"}, Requeues(w, times),
               record' \in [Creds -> Records], jobs' \in Seq(Creds)
        PROVE  RefreshTypeOK'
    <2> DEFINE x == [pc |-> "requeue", cred |-> worker[w].cred, told |-> times]
    <2>1. WorkerOK(x)
      BY <1>0, <1>3 DEF WorkerOK
    <2> QED
      BY <1>2, <1>3, <2>1 DEF Requeues
  <1>4. CASE TakeJob(w)
    <2> DEFINE c == Head(jobs)
               x == IF record[c].executor
                      THEN [pc |-> "refresh", cred |-> c, copy |-> record[c]]
                      ELSE [pc |-> "requeue", cred |-> c, told |-> 1]
    <2>1. c \in Creds /\ Tail(jobs) \in Seq(Creds)
      BY <1>0, <1>4 DEF TakeJob
    <2>2. WorkerOK(x)
      BY <1>0, <2>1 DEF WorkerOK
    <2>3. worker' = [worker EXCEPT ![w] = x] /\ jobs' = Tail(jobs) /\ record' = record
      BY <1>4 DEF TakeJob
    <2> HIDE DEF x
    <2> QED
      BY <1>0, <1>2, <2>1, <2>2, <2>3
  <1>5. CASE StopWorker(w)
    <2>1. WorkerOK([pc |-> "stopped"])
      BY DEF WorkerOK
    <2> QED
      BY <1>0, <1>2, <1>5, <2>1 DEF StopWorker
  <1>6. CASE RefreshCanceled(w)
    BY <1>0, <1>3, <1>6 DEF RefreshCanceled
  <1>7. CASE RefreshFails(w)
    <2> DEFINE c == worker[w].cred
               x == [record[c] EXCEPT !.after = clock + Failure, !.mark = "backoff"]
    <2>1. c \in Creds /\ Failure \in Nat
      BY <1>0, <1>7, RefreshAssumption DEF RefreshFails, WorkerOK
    <2>2. x \in Records
      <3>1. record[c] \in Records /\ clock + Failure \in Nat
        BY <1>0, <2>1
      <3> QED
        BY <3>1, Marked
    <2>3. record' = [record EXCEPT ![c] = x]
      BY <1>7 DEF RefreshFails
    <2> HIDE DEF x
    <2>4. record' \in [Creds -> Records]
      BY <1>0, <2>1, <2>2, <2>3
    <2> QED
      BY <1>0, <1>3, <1>7, <2>4 DEF RefreshFails
  <1>8. ASSUME NEW life \in Lifetimes, Refreshed(w, life)
        PROVE  RefreshTypeOK'
    <2> DEFINE c == worker[w].cred
               r == [worker[w].copy EXCEPT !.last = clock, !.after = 0, !.mark = "none",
                                           !.expiry = IF life = 0 THEN @ ELSE clock + life]
               x == [r EXCEPT !.after = clock + Ineffective, !.mark = "backoff"]
    <2>1. c \in Creds /\ worker[w].copy \in Records /\ Ineffective \in Nat /\ life \in Nat
      BY <1>0, <1>8, RefreshAssumption DEF Refreshed, WorkerOK
    <2>2. r \in Records
      BY <1>0, <2>1, Renewed
    <2>3. x \in Records
      <3> HIDE DEF r
      <3> QED
        <4>1. clock + Ineffective \in Nat
          BY <1>0, <2>1
        <4> QED
          BY <2>2, <4>1, Marked
    <2>4. record' = [record EXCEPT ![c] = r] \/ record' = [record EXCEPT ![c] = x]
      BY <1>8 DEF Refreshed
    <2> HIDE DEF r, x
    <2>5. record' \in [Creds -> Records]
      BY <1>0, <2>1, <2>2, <2>3, <2>4
    <2> QED
      BY <1>0, <1>3, <1>8, <2>5 DEF Refreshed
  <1>9. CASE Requeue(w)
    <2>1. CASE worker[w].told = 2
      BY <1>0, <1>3, <1>9, <2>1 DEF Requeue
    <2>2. CASE worker[w].told # 2
      <3>1. WorkerOK(Free)
        BY DEF WorkerOK, Free
      <3> QED
        BY <1>0, <1>2, <1>9, <2>2, <3>1 DEF Requeue
    <2> QED
      BY <2>1, <2>2
  <1> QED
    BY <1>4, <1>5, <1>6, <1>7, <1>8, <1>9 DEF WorkerStep, RefreshEnds

\* Others write records too, and time passes.
LEMMA OthersTyped ==
    ASSUME RefreshTypeOK,
           (\E e \in Editors : EditorStep(e)) \/ StopAutoRefresh \/ Tick \/ UNCHANGED refreshVars
    PROVE  RefreshTypeOK'
  <1>0. /\ record \in [Creds -> Records] /\ clock \in Nat \ {0}
        /\ DOMAIN editor = Editors /\ \A e \in Editors : EditorOK(editor[e])
    BY DEF RefreshTypeOK
  <1>1. CASE StopAutoRefresh \/ UNCHANGED refreshVars
    BY <1>1 DEF StopAutoRefresh, refreshVars, RefreshTypeOK, LoopOK, WorkerOK, EditorOK
  <1>2. CASE Tick
    <2>1. LoopOK'
      BY <1>0, <1>2 DEF Tick, RefreshTypeOK, LoopOK, Batching
    <2> QED
      BY <1>0, <1>2, <2>1 DEF Tick, RefreshTypeOK, WorkerOK, EditorOK
  <1>3. ASSUME NEW e \in Editors, NEW x, EditorOK(x), editor' = [editor EXCEPT ![e] = x],
               record' \in [Creds -> Records], UNCHANGED <<clock, loop, index, jobs, worker>>
        PROVE  RefreshTypeOK'
    BY <1>0, <1>3 DEF RefreshTypeOK, LoopOK, WorkerOK
  <1>4. ASSUME NEW e \in Editors, NEW c \in Creds, NEW loaded \in FirstRecords[c],
               Load(e, c, loaded)
        PROVE  RefreshTypeOK'
    <2> DEFINE new == IF record[c].disabled \/ loaded.disabled THEN loaded
                      ELSE [loaded EXCEPT !.last = record[c].last, !.after = record[c].after,
                                          !.mark = record[c].mark]
    <2>1. loaded \in Records
      BY RefreshAssumption
    <2>2. new \in Records
      BY <1>0, <2>1, Loaded
    <2>3. editor' = [editor EXCEPT ![e] = [pc |-> "write", cred |-> c, new |-> new]]
      BY <1>4 DEF Load
    <2> HIDE DEF new
    <2>4. EditorOK([pc |-> "write", cred |-> c, new |-> new])
      BY <2>2 DEF EditorOK
    <2> QED
      BY <1>0, <1>3, <1>4, <2>3, <2>4 DEF Load
  <1>5. ASSUME NEW e \in Editors, NEW c \in Creds, Toggle(e, c)
        PROVE  RefreshTypeOK'
    <2> DEFINE new == [record[c] EXCEPT !.disabled = ~@]
    <2>1. new \in Records
      BY <1>0, RecordChanges
    <2>2. editor' = [editor EXCEPT ![e] = [pc |-> "write", cred |-> c, new |-> new]]
      BY <1>5 DEF Toggle
    <2> HIDE DEF new
    <2>3. EditorOK([pc |-> "write", cred |-> c, new |-> new])
      BY <2>1 DEF EditorOK
    <2> QED
      BY <1>0, <1>3, <1>5, <2>2, <2>3 DEF Toggle
  <1>6. ASSUME NEW e \in Editors, Write(e)
        PROVE  RefreshTypeOK'
    <2>1. editor[e].pc = "write" /\ editor[e].new \in Records /\ editor[e].cred \in Creds
      BY <1>0, <1>6 DEF Write, EditorOK
    <2>2. EditorOK([pc |-> "tell", cred |-> editor[e].cred])
      BY <2>1 DEF EditorOK
    <2>3. record' \in [Creds -> Records]
      BY <1>0, <1>6, <2>1 DEF Write
    <2> QED
      BY <1>0, <1>3, <1>6, <2>2, <2>3 DEF Write
  <1>7. ASSUME NEW e \in Editors, TellLoop(e)
        PROVE  RefreshTypeOK'
    <2>1. EditorOK([pc |-> "done"])
      BY DEF EditorOK
    <2> QED
      BY <1>0, <1>3, <1>7, <2>1 DEF TellLoop
  <1> QED
    BY <1>1, <1>2, <1>4, <1>5, <1>6, <1>7 DEF EditorStep

LEMMA RefreshTyped == RefreshTypeOK /\ [RefreshNext]_refreshVars => RefreshTypeOK'
  BY LoopTyped, WorkerTyped, OthersTyped DEF RefreshNext, RefreshStep

-----------------------------------------------------------------------------
(* No credential is forgotten. *)

Remembered(c) == index[c] # 0 \/ c \in dirty \/ c \in InHand \/ c \in ToBeTold

\* A wake-up waits, or has just been taken, while something is dirty; a loop
\* that sleeps has a timer for what is in the heap; it stops only when told.
LoopListens ==
    /\ dirty # {} => wake \/ loop.pc = "woken"
    /\ loop.pc = "select" /\ (\E c \in Creds : index[c] # 0) => timer # 0
    /\ loop.pc = "stopped" => ~running

AllRemembered ==
    Begun /\ running => \A c \in Creds : Checked(record[c], clock) => Remembered(c)

\* What the loop has in its hands, by what it is doing.
LEMMA HandOf ==
    /\ loop.pc \in {"due", "mark", "refused", "tell"} => InHand = DOMAIN loop.due
    /\ loop.pc = "send" => InHand = DOMAIN loop.due \ {loop.cred}
    /\ loop.pc = "dirty" => InHand = loop.left
    /\ loop.pc \in {"start", "run", "select", "woken", "stopped"} => InHand = {}
  BY DEF InHand

LEMMA ListensKept ==
    ASSUME RefreshTypeOK, RefreshTypeOK', LoopListens, RefreshStep \/ UNCHANGED refreshVars
    PROVE  LoopListens'
  <1>0. /\ index \in [Creds -> Nat] /\ clock \in Nat \ {0} /\ Horizon \in Nat \ {0}
        /\ loop.pc \in {"woken", "dirty"} => loop.at \in Nat
    BY RefreshAssumption DEF RefreshTypeOK, LoopOK
  <1>1. CASE ResetTimer
    <2> DEFINE heap == {index[c] : c \in Creds} \ {0}
               from == IF loop.pc = "run" THEN clock ELSE loop.at
               wait == Max({0, Min(heap) - from})
               at == clock + wait
    <2>1. /\ timer' = IF heap = {} THEN 0
                      ELSE IF Min(heap) <= Horizon THEN Min({at, Horizon}) ELSE at
          /\ loop' = [pc |-> "select"] /\ UNCHANGED <<dirty, wake, index, running>>
          /\ loop.pc # "woken"
      BY <1>1 DEF ResetTimer, Asleep
    <2>2. ASSUME heap # {} PROVE timer' # 0
      <3>1. heap \subseteq Nat
        BY <1>0
      <3>2. Min(heap) \in Nat
        <4> HIDE DEF heap
        <4> QED
          BY <2>2, <3>1, MinIsLeast
      <3>3. from \in Int
        BY <1>0, <1>1 DEF ResetTimer
      <3>4. Min(heap) - from \in Int
        <4> HIDE DEF heap, from
        <4> QED
          BY <3>2, <3>3
      <3>5. wait \in Int /\ wait >= 0
        <4> HIDE DEF heap, from
        <4> QED
          BY <3>4, 0 \in Int, OfTwo, Zenon
      <3>6. at \in Int /\ at > 0
        <4> HIDE DEF wait
        <4> QED
          BY <1>0, <3>5
      <3>7. Min({at, Horizon}) \in {at, Horizon}
        <4> HIDE DEF at
        <4>1. Horizon \in Int
          BY <1>0
        <4> QED
          BY <3>6, <4>1, OfTwo, Zenon
      <3> HIDE DEF at, heap
      <3> QED
        BY <1>0, <2>1, <2>2, <3>6, <3>7
    <2>3. (\E c \in Creds : index[c] # 0) => heap # {}
      OBVIOUS
    <2> HIDE DEF heap, at
    <2> QED
      BY <2>1, <2>2, <2>3 DEF LoopListens
  <1>2. ASSUME loop'.pc \notin {"select", "stopped"},
               \/ UNCHANGED <<dirty, wake>> /\ loop.pc # "woken"
               \/ wake' \/ loop'.pc = "woken" \/ dirty' = {}
        PROVE  LoopListens'
    BY <1>2 DEF LoopListens
  <1>3. CASE (LoopStep /\ ~ResetTimer /\ ~StopLoop) \/ TimerFires
    <2>1. CASE Rebuild
      BY <1>2, <2>1 DEF Rebuild
    <2>2. CASE Woken
      BY <1>2, <2>2 DEF Woken
    <2>3. CASE TimerFires
      BY <1>2, <2>3 DEF TimerFires
    <2>4. CASE \E c \in Creds : HandleDue(c)
      BY <1>2, <2>4 DEF HandleDue, Rest
    <2>5. CASE MarkRefreshPending
      BY <1>2, <2>5 DEF MarkRefreshPending, RefreshTypeOK, LoopOK, Batching
    <2>6. CASE LookAgain
      BY <1>2, <2>6 DEF LookAgain, Rest
    <2>7. CASE TellPending
      BY <1>2, <2>7 DEF TellPending, QueueReschedule, RefreshTypeOK, LoopOK, Batching
    <2>8. CASE SendJob
      BY <1>2, <2>8 DEF SendJob, Rest
    <2>9. CASE DrainDirty
      BY <1>2, <2>9 DEF DrainDirty
    <2>10. CASE \E c \in Creds : ApplyDirty(c)
      BY <1>2, <2>10 DEF ApplyDirty, RefreshTypeOK, LoopOK
    <2> QED
      BY <1>3, <2>1, <2>2, <2>3, <2>4, <2>5, <2>6, <2>7, <2>8, <2>9, <2>10 DEF LoopStep
  <1>4. CASE StopLoop
    BY <1>4 DEF StopLoop, LoopListens
  <1>5. CASE \E w \in RefreshWorkers : WorkerStep(w)
    <2>1. /\ UNCHANGED <<running, loop, index, timer>>
          /\ wake' \/ UNCHANGED <<dirty, wake>>
      BY <1>5 DEF WorkerStep, TakeJob, StopWorker, RefreshEnds, RefreshCanceled, RefreshFails,
             Refreshed, Requeue, QueueReschedule
    <2> QED
      BY <2>1 DEF LoopListens
  <1>6. CASE (\E e \in Editors : EditorStep(e)) \/ Tick \/ StopAutoRefresh \/ UNCHANGED refreshVars
    <2>1. /\ running' => running
          /\ UNCHANGED <<loop, index, timer>>
          /\ wake' \/ UNCHANGED <<dirty, wake>>
      <3>1. CASE \E e \in Editors : EditorStep(e)
        <4>1. PICK e \in Editors : EditorStep(e)
          BY <3>1
        <4>2. CASE \E c \in Creds : Toggle(e, c) \/ \E r \in FirstRecords[c] : Load(e, c, r)
          BY <4>2 DEF Load, Toggle
        <4>3. CASE Write(e) \/ TellLoop(e)
          BY <4>3 DEF Write, TellLoop, QueueReschedule
        <4> QED
          BY <4>1, <4>2, <4>3 DEF EditorStep
      <3>2. CASE Tick \/ StopAutoRefresh \/ UNCHANGED refreshVars
        BY <3>2 DEF Tick, StopAutoRefresh, refreshVars
      <3> QED
        BY <1>6, <3>1, <3>2
    <2> QED
      BY <2>1 DEF LoopListens
  <1> QED
    BY <1>1, <1>2, <1>3, <1>4, <1>5, <1>6 DEF RefreshStep, LoopStep

\* The loop's steps: what it takes is in its hands, and it lets go only of what
\* it puts back, or of what has no time to be looked at.
LEMMA LoopRemembers ==
    ASSUME RefreshTypeOK, RefreshTypeOK', LoopListens, AllRemembered, Begun', running',
           LoopStep \/ TimerFires,
           NEW c \in Creds, Checked(record'[c], clock')
    PROVE  Remembered(c)'
  <1>0. /\ record \in [Creds -> Records] /\ clock \in Nat \ {0} /\ index \in [Creds -> Nat]
        /\ loop.pc \in Batching \cup {"woken", "dirty"} =>
              loop.at \in Nat \ {0} /\ loop.at <= clock
        /\ loop.pc \in Batching \ {"due"} => loop.cred \in DOMAIN loop.due
        /\ loop.pc \in Batching => DOMAIN loop.due \subseteq Creds
        /\ Interval \in Nat \ {0}
    BY RefreshAssumption DEF RefreshTypeOK, LoopOK
  <1>1. clock' = clock /\ running /\ worker' = worker /\ editor' = editor /\ ToBeTold' = ToBeTold
    BY DEF LoopStep, TimerFires, Rebuild, Woken, MarkRefreshPending, LookAgain, TellPending,
           SendJob, DrainDirty, ResetTimer, StopLoop, HandleDue, ApplyDirty, ToBeTold
  <1>2. ASSUME Begun, record' = record PROVE Remembered(c)
    BY <1>1, <1>2 DEF AllRemembered
  <1>3. ASSUME loop.pc \in Batching \cup {"dirty"}, record' = record
        PROVE  NextCheck(record[c], loop.at) \in Nat \ {0}
    <2>1. Checked(record[c], loop.at)
      BY <1>0, <1>1, <1>3, CheckedBefore
    <2> QED
      BY <1>0, <1>3, <2>1, CheckTyped
  <1>4. CASE Rebuild
    BY <1>0, <1>1, <1>4, CheckTyped DEF Rebuild, Remembered
  <1>5. CASE Woken
    BY <1>2, <1>5, <1>1, HandOf DEF Woken, Begun, Remembered
  <1>6. CASE TimerFires
    <2> DEFINE due == {d \in Creds : index[d] # 0 /\ index[d] <= clock}
    <2>1. /\ index' = [d \in Creds |-> IF d \in due THEN 0 ELSE index[d]]
          /\ loop'.pc = "due" /\ DOMAIN loop'.due = due /\ dirty' = dirty
      BY <1>6 DEF TimerFires
    <2>2. Remembered(c) /\ InHand = {}
      BY <1>2, <1>6, HandOf DEF TimerFires, Begun
    <2>3. InHand' = due
      BY <2>1 DEF InHand
    <2>4. index[c] # 0 => index'[c] # 0 \/ c \in due
      BY <2>1
    <2> HIDE DEF due
    <2> QED
      BY <1>1, <2>1, <2>2, <2>3, <2>4 DEF Remembered
  <1>7. ASSUME NEW d \in Creds, HandleDue(d) PROVE Remembered(c)'
    <2>1. Remembered(c) /\ InHand = DOMAIN loop.due /\ dirty' = dirty
      BY <1>2, <1>7, HandOf DEF HandleDue, Begun
    <2>2. CASE loop' = [pc |-> "mark", at |-> loop.at, due |-> loop.due, cred |-> d]
               /\ index' = index
      BY <1>1, <2>1, <2>2 DEF Remembered, InHand
    <2>3. CASE loop' = Rest(d) /\ (index' = [index EXCEPT ![d] = loop.at + Interval]
                                   \/ index' = [index EXCEPT ![d] = NextCheck(record[d], loop.at)])
      <3>1. InHand' = DOMAIN loop.due \ {d}
        BY <2>3 DEF InHand, Rest
      <3>2. c = d => index'[c] # 0
        BY <1>0, <1>3, <1>7, <2>3 DEF HandleDue, Batching
      <3>3. c # d => index'[c] = index[c]
        BY <1>0, <2>3
      <3> QED
        BY <1>1, <2>1, <3>1, <3>2, <3>3 DEF Remembered
    <2> QED
      BY <1>7, <2>2, <2>3 DEF HandleDue, PutOrDrop
  <1>8. CASE MarkRefreshPending
    <2>1. /\ InHand' = DOMAIN loop.due /\ InHand = DOMAIN loop.due /\ Begun
          /\ UNCHANGED <<index, dirty>> /\ loop.cred \in DOMAIN loop.due
          /\ loop.cred # c => record'[c] = record[c]
      BY <1>0, <1>8 DEF MarkRefreshPending, InHand, Begun, Batching, RefreshTypeOK, LoopOK
    <2>2. c # loop.cred => Remembered(c)
      BY <1>1, <2>1 DEF AllRemembered
    <2> QED
      BY <1>1, <2>1, <2>2 DEF Remembered
  <1>9. CASE LookAgain
    <2>1. /\ Remembered(c) /\ InHand = DOMAIN loop.due /\ dirty' = dirty
          /\ InHand' = DOMAIN loop.due \ {loop.cred}
      BY <1>2, <1>9, HandOf DEF LookAgain, Begun, Rest, InHand
    <2>2. index' = [index EXCEPT ![loop.cred] = NextCheck(record[loop.cred], loop.at)]
      BY <1>9 DEF LookAgain, PutOrDrop
    <2>3. c = loop.cred => index'[c] # 0
      BY <1>0, <1>3, <1>9, <2>2 DEF LookAgain, Batching
    <2>4. c # loop.cred => index'[c] = index[c]
      BY <1>0, <2>2
    <2> QED
      BY <1>1, <2>1, <2>3, <2>4 DEF Remembered
  <1>10. CASE TellPending
    <2>1. /\ Remembered(c) /\ InHand = DOMAIN loop.due /\ index' = index
          /\ InHand' = DOMAIN loop.due \ {loop.cred} /\ dirty' = dirty \cup {loop.cred}
      BY <1>2, <1>10, HandOf DEF TellPending, Begun, InHand, QueueReschedule, RefreshTypeOK,
         LoopOK, Batching
    <2> QED
      BY <1>1, <2>1 DEF Remembered
  <1>11. CASE SendJob
    <2>1. /\ Remembered(c) /\ InHand = DOMAIN loop.due \ {loop.cred} /\ index' = index
          /\ InHand' = DOMAIN loop.due \ {loop.cred} /\ dirty' = dirty
      BY <1>2, <1>11, HandOf DEF SendJob, Begun, InHand, Rest
    <2> QED
      BY <1>1, <2>1 DEF Remembered
  <1>12. CASE DrainDirty
    <2>1. /\ Remembered(c) /\ InHand = {} /\ index' = index
          /\ InHand' = dirty
      BY <1>2, <1>12, HandOf DEF DrainDirty, Begun, InHand
    <2> QED
      BY <1>1, <2>1 DEF Remembered
  <1>13. ASSUME NEW d \in Creds, ApplyDirty(d) PROVE Remembered(c)'
    <2>1. /\ Remembered(c) /\ InHand = loop.left /\ dirty' = dirty
          /\ InHand' = loop.left \ {d}
      BY <1>2, <1>13, HandOf DEF ApplyDirty, Begun, InHand, RefreshTypeOK, LoopOK
    <2>2. index' = [index EXCEPT ![d] = NextCheck(record[d], loop.at)]
      BY <1>13 DEF ApplyDirty, PutOrDrop
    <2>3. c = d => index'[c] # 0
      BY <1>0, <1>3, <1>13, <2>2 DEF ApplyDirty
    <2>4. c # d => index'[c] = index[c]
      BY <1>0, <2>2
    <2> QED
      BY <1>1, <2>1, <2>3, <2>4 DEF Remembered
  <1>14. CASE ResetTimer
    <2>1. /\ Remembered(c) /\ InHand = {} /\ index' = index /\ dirty' = dirty
      BY <1>2, <1>14, HandOf DEF ResetTimer, Begun
    <2> QED
      BY <1>1, <2>1 DEF Remembered
  <1>15. CASE StopLoop
    BY <1>1, <1>15 DEF StopLoop
  <1> QED
    BY <1>4, <1>5, <1>6, <1>7, <1>8, <1>9, <1>10, <1>11, <1>12, <1>13, <1>14, <1>15
       DEF LoopStep

\* The workers': a record that changes has somebody who says so.
LEMMA WorkersRemember ==
    ASSUME RefreshTypeOK, AllRemembered, Begun', running',
           NEW w \in RefreshWorkers, WorkerStep(w),
           NEW c \in Creds, Checked(record'[c], clock')
    PROVE  Remembered(c)'
  <1>0. /\ record \in [Creds -> Records] /\ DOMAIN worker = RefreshWorkers
        /\ WorkerOK(worker[w])
    BY DEF RefreshTypeOK
  <1>1. /\ clock' = clock /\ running /\ loop' = loop /\ InHand' = InHand /\ index' = index
        /\ editor' = editor /\ Begun
    BY
       DEF WorkerStep, TakeJob, StopWorker, RefreshEnds, RefreshCanceled, RefreshFails,
           Refreshed,
           Requeue, QueueReschedule, InHand, Begun
  <1>2. ASSUME record' = record PROVE Remembered(c)
    BY <1>1, <1>2 DEF AllRemembered
  <1>3. ASSUME worker[w].pc # "requeue", dirty' = dirty, record' = record,
               \A v \in RefreshWorkers \ {w} : worker'[v] = worker[v]
        PROVE  Remembered(c)'
    <2>1. ToBeTold \subseteq ToBeTold'
      BY <1>1, <1>3 DEF ToBeTold
    <2> QED
      BY <1>1, <1>2, <1>3, <2>1 DEF Remembered
  <1>4. ASSUME NEW t, worker[w].pc \in {"refresh", "requeue"}, Requeues(w, t)
        PROVE  ToBeTold \subseteq ToBeTold' /\ worker[w].cred \in ToBeTold'
    <2>1. worker'[w].pc = "requeue" /\ worker'[w].cred = worker[w].cred
      BY <1>0, <1>4 DEF Requeues
    <2>2. \A v \in RefreshWorkers \ {w} : worker'[v] = worker[v]
      BY <1>0, <1>4 DEF Requeues
    <2> QED
      BY <1>1, <2>1, <2>2 DEF ToBeTold
  <1>5. CASE TakeJob(w)
    BY <1>0, <1>3, <1>5 DEF TakeJob, Free
  <1>6. CASE StopWorker(w) \/ RefreshCanceled(w)
    BY <1>1, <1>6 DEF StopWorker, RefreshCanceled
  <1>7. CASE RefreshFails(w) \/ \E life \in Lifetimes : Refreshed(w, life)
    <2>1. /\ worker[w].pc = "refresh" /\ Requeues(w, 2) /\ dirty' = dirty
          /\ worker[w].cred # c => record'[c] = record[c]
      BY <1>0, <1>7 DEF RefreshFails, Refreshed, WorkerOK
    <2>2. c # worker[w].cred => Remembered(c)
      BY <1>1, <2>1 DEF AllRemembered
    <2> QED
      BY <1>1, <1>4, <2>1, <2>2 DEF Remembered
  <1>8. CASE Requeue(w)
    <2>1. CASE worker[w].told = 2
      <3>1. dirty \subseteq dirty' /\ ToBeTold \subseteq ToBeTold' /\ record' = record
        BY <1>4, <1>8, <2>1 DEF Requeue, QueueReschedule
      <3> QED
        BY <1>1, <1>2, <3>1 DEF Remembered
    <2>2. CASE worker[w].told # 2
      <3>1. dirty' = dirty \cup {worker[w].cred} /\ record' = record
            /\ worker' = [worker EXCEPT ![w] = Free]
        BY <1>8, <2>2 DEF Requeue, QueueReschedule
      <3>2. ToBeTold \subseteq ToBeTold' \cup {worker[w].cred}
        BY <1>0, <1>1, <3>1 DEF ToBeTold
      <3> QED
        BY <1>1, <1>2, <3>1, <3>2 DEF Remembered
    <2> QED
      BY <2>1, <2>2
  <1> QED
    BY <1>5, <1>6, <1>7, <1>8 DEF WorkerStep, RefreshEnds

\* Others': the same, and what has a time now had one a moment ago.
LEMMA OthersRemember ==
    ASSUME RefreshTypeOK, AllRemembered, Begun', running',
           (\E e \in Editors : EditorStep(e)) \/ StopAutoRefresh \/ Tick \/ UNCHANGED refreshVars,
           NEW c \in Creds, Checked(record'[c], clock')
    PROVE  Remembered(c)'
  <1>0. /\ record \in [Creds -> Records] /\ DOMAIN editor = Editors /\ clock \in Nat
        /\ \A e \in Editors : EditorOK(editor[e])
    BY DEF RefreshTypeOK
  <1>1. CASE StopAutoRefresh
    BY <1>1 DEF StopAutoRefresh
  <1>2. CASE Tick
    <2>1. Checked(record[c], clock)
      BY <1>0, <1>2, CheckedBefore DEF Tick
    <2>2. Remembered(c)
      BY <1>2, <2>1 DEF Tick, AllRemembered, Begun
    <2> QED
      BY <1>2, <2>2 DEF Tick, Remembered, InHand, ToBeTold
  <1>3. CASE UNCHANGED refreshVars
    BY <1>3 DEF refreshVars, AllRemembered, Begun, Remembered, InHand, ToBeTold
  <1>4. ASSUME NEW e \in Editors, EditorStep(e)
        PROVE  Remembered(c)'
    <2>1. /\ clock' = clock /\ running /\ loop' = loop /\ InHand' = InHand /\ index' = index
          /\ worker' = worker /\ Begun
          /\ \A d \in Editors \ {e} : editor'[d] = editor[d]
      BY <1>0, <1>4
         DEF EditorStep, Load, Toggle, Write, TellLoop, QueueReschedule, InHand, Begun
    <2>2. ASSUME record' = record PROVE Remembered(c)
      BY <2>1, <2>2 DEF AllRemembered
    <2>3. ASSUME editor[e].pc # "tell" PROVE ToBeTold \subseteq ToBeTold'
      BY <2>1, <2>3 DEF ToBeTold
    <2>4. CASE \E d \in Creds : Toggle(e, d) \/ \E r \in FirstRecords[d] : Load(e, d, r)
      <3>1. UNCHANGED <<record, dirty>> /\ editor[e] = Free
        BY <2>4 DEF Toggle, Load
      <3>2. editor[e].pc # "tell"
        BY <3>1 DEF Free
      <3> QED
        BY <2>1, <2>2, <2>3, <3>1, <3>2 DEF Remembered
    <2>5. CASE Write(e)
      <3>1. /\ dirty' = dirty /\ editor[e].pc # "tell"
            /\ editor'[e].pc = "tell" /\ editor'[e].cred = editor[e].cred
            /\ editor[e].cred # c => record'[c] = record[c]
        BY <1>0, <2>5 DEF Write, EditorOK
      <3>2. c # editor[e].cred => Remembered(c)
        BY <2>1, <3>1 DEF AllRemembered
      <3>3. editor[e].cred \in ToBeTold'
        BY <3>1 DEF ToBeTold
      <3> QED
        BY <2>1, <2>3, <3>1, <3>2, <3>3 DEF Remembered
    <2>6. CASE TellLoop(e)
      <3>1. dirty' = dirty \cup {editor[e].cred} /\ record' = record
        BY <2>1, <2>6 DEF TellLoop, QueueReschedule
      <3>2. ToBeTold \subseteq ToBeTold' \cup {editor[e].cred}
        BY <2>1 DEF ToBeTold
      <3> QED
        BY <2>1, <2>2, <3>1, <3>2 DEF Remembered
    <2> QED
      BY <1>4, <2>4, <2>5, <2>6 DEF EditorStep
  <1> QED
    BY <1>1, <1>2, <1>3, <1>4

LEMMA RememberedKept ==
    ASSUME RefreshTypeOK, RefreshTypeOK', LoopListens, AllRemembered,
           RefreshStep \/ UNCHANGED refreshVars
    PROVE  AllRemembered'
  <1> SUFFICES ASSUME Begun', running', NEW c \in Creds, Checked(record'[c], clock')
               PROVE  Remembered(c)'
    BY DEF AllRemembered
  <1> QED
    BY LoopRemembers, WorkersRemember, OthersRemember DEF RefreshStep

\* No credential is forgotten by the loop: whatever changes its record, and
\* wherever a job of it goes, one that may need refreshes is in the heap or
\* dirty or in the loop's hands or about to be reported.
THEOREM RefreshRemembers == RefreshSpec => []NothingForgotten
  <1> DEFINE Inv == RefreshTypeOK /\ LoopListens /\ AllRemembered
  <1>1. RefreshInit => Inv
    <2> SUFFICES ASSUME RefreshInit PROVE LoopListens /\ AllRemembered
      BY RefreshTyped0
    <2> QED
      BY DEF RefreshInit, LoopListens, AllRemembered, Begun
  <1>2. Inv /\ [RefreshNext]_refreshVars => Inv'
    BY RefreshTyped, ListensKept, RememberedKept DEF RefreshNext
  <1>3. Inv => NothingForgotten
    <2> SUFFICES ASSUME Inv, Begun, running PROVE NothingForgotten
      BY DEF NothingForgotten
    <2>1. ASSUME NEW c \in Creds, NextCheck(record[c], clock) # 0
          PROVE  index[c] # 0 \/ c \in dirty \cup InHand \cup ToBeTold
      <3>1. Checked(record[c], clock)
        BY <2>1, CheckTyped DEF RefreshTypeOK
      <3> QED
        BY <3>1 DEF AllRemembered, Remembered
    <2> QED
      BY <2>1 DEF NothingForgotten, LoopListens
  <1> QED
    BY <1>1, <1>2, <1>3, PTL DEF RefreshSpec

-----------------------------------------------------------------------------
(* Two refreshes of one credential.  A token of c is a job of it in the      *)
(* channel, a worker that refreshes it, or the loop about to send it.        *)

Held(c) == loop.pc \in {"tell", "send"} /\ loop.cred = c

SomeToken(c) == Queued(c) # {} \/ Refreshing(c) # {} \/ Held(c)

OneToken(c) ==
    /\ \A i, j \in Queued(c) : i = j
    /\ \A v, w \in Refreshing(c) : v = w
    /\ Queued(c) = {} \/ Refreshing(c) = {}
    /\ Held(c) => Queued(c) = {} /\ Refreshing(c) = {}

\* The mark that goes with a token: it may have run out already only while the
\* loop has yet to tell of it.
Covered(c) ==
    /\ record[c].mark = "pending"
    /\ record[c].after > clock \/ (loop.pc = "tell" /\ loop.cred = c)

TokensOK == \A c \in Creds \ lapsed : SomeToken(c) => OneToken(c) /\ Covered(c)

\* A step other than the mark moves the token of c, if there is one.
TokenMoves(c) == SomeToken(c) /\ OneToken(c) /\ OneToken(c)'

\* The loop's steps; the mark is set only where no token is.
LEMMA LoopTokens ==
    ASSUME RefreshTypeOK, LoopStep \/ TimerFires,
           NEW c \in Creds, SomeToken(c)', SomeToken(c) => OneToken(c) /\ Covered(c)
    PROVE  \/ TokenMoves(c)
           \/ OneToken(c)' /\ loop'.pc = "tell" /\ loop'.cred = c /\ record'[c].mark = "pending"
  <1>0. /\ record \in [Creds -> Records] /\ clock \in Nat /\ jobs \in Seq(Creds)
        /\ loop.pc \in Batching => loop.at \in Nat /\ loop.at <= clock
        /\ loop.pc \in Batching \ {"due"} =>
              /\ loop = [pc |-> loop.pc, at |-> loop.at, due |-> loop.due, cred |-> loop.cred]
              /\ loop.cred \in Creds
        /\ loop.pc = "dirty" =>
              loop = [pc |-> "dirty", at |-> loop.at, left |-> loop.left]
        /\ Pending \in Nat
    BY RefreshAssumption DEF RefreshTypeOK, LoopOK, Batching
  <1>1. worker' = worker /\ clock' = clock /\ Refreshing(c)' = Refreshing(c)
    BY DEF LoopStep, TimerFires, Rebuild, Woken, MarkRefreshPending, LookAgain, TellPending,
           SendJob, DrainDirty, ResetTimer, StopLoop, HandleDue, ApplyDirty, Refreshing
  <1>2. ASSUME jobs' = jobs, Held(c)' <=> Held(c)
        PROVE  TokenMoves(c)
    <2>1. Queued(c)' = Queued(c)
      BY <1>2 DEF Queued
    <2> QED
      BY <1>1, <1>2, <2>1 DEF TokenMoves, SomeToken, OneToken
  <1>3. CASE MarkRefreshPending
    <2>1. jobs' = jobs /\ Queued(c)' = Queued(c) /\ ~Held(c)
          /\ loop.pc = "mark" /\ loop.at <= clock
      BY <1>0, <1>3 DEF MarkRefreshPending, Queued, Held, Batching
    <2>2. CASE loop.cred # c \/ record[loop.cred].disabled \/ loop.at < record[loop.cred].after
      <3>1. ~Held(c)'
        BY <1>0, <1>3, <2>2 DEF MarkRefreshPending, Held, Batching
      <3> QED
        BY <1>2, <2>1, <3>1
    <2>3. CASE loop.cred = c /\ ~(record[c].disabled \/ loop.at < record[c].after)
      <3>1. ~(record[c].after > clock)
        <4>1. record[c].after \in Nat
          BY <1>0, RecordChanges
        <4> QED
          BY <1>0, <2>1, <2>3, <4>1 DEF Batching
      <3>2. ~SomeToken(c)
        BY <2>1, <3>1 DEF Covered
      <3>3. OneToken(c)'
        BY <1>1, <2>1, <3>2 DEF OneToken, SomeToken
      <3>4. loop'.pc = "tell" /\ loop'.cred = c
        BY <1>0, <1>3, <2>3 DEF MarkRefreshPending, Batching
      <3>5. record'[c].mark = "pending"
        <4>1. record' = [record EXCEPT ![c] =
                            [record[c] EXCEPT !.after = loop.at + Pending, !.mark = "pending"]]
          BY <1>3, <2>3 DEF MarkRefreshPending
        <4>2. record[c] \in Records /\ loop.at + Pending \in Nat
          BY <1>0, <2>1 DEF Batching
        <4> DEFINE x == [record[c] EXCEPT !.after = loop.at + Pending, !.mark = "pending"]
        <4>3. x.mark = "pending"
          <5> DEFINE r == record[c]
                     n == loop.at + Pending
          <5>1. r \in Records /\ n \in Nat
            BY <4>2
          <5> HIDE DEF r, n
          <5>2. [r EXCEPT !.after = n, !.mark = "pending"].mark = "pending"
            BY <5>1 DEF Records
          <5> QED
            BY <5>2 DEF r, n
        <4> HIDE DEF x
        <4> QED
          BY <1>0, <4>1, <4>3 DEF x
      <3> QED
        BY <3>3, <3>4, <3>5
    <2> QED
      BY <2>2, <2>3
  <1>4. CASE TellPending
    <2>1. Held(c)' <=> Held(c)
      BY <1>0, <1>4 DEF TellPending, Held, Batching
    <2> QED
      BY <1>2, <1>4, <2>1 DEF TellPending
  <1>5. CASE SendJob
    <2>1. ~Held(c)' /\ (Held(c) <=> loop.cred = c)
      BY <1>5 DEF SendJob, Rest, Held
    <2>2. CASE jobs' = jobs
      <3>1. Queued(c)' = Queued(c)
        BY <2>2 DEF Queued
      <3> QED
        BY <1>1, <2>1, <3>1 DEF TokenMoves, SomeToken, OneToken
    <2>3. CASE jobs' = Append(jobs, loop.cred)
      <3>1. /\ loop.cred = c => Queued(c)' = Queued(c) \cup {Len(jobs) + 1}
            /\ loop.cred # c => Queued(c)' = Queued(c)
        BY <1>0, <1>5, <2>3 DEF Queued, SendJob, Batching
      <3> QED
        BY <1>1, <2>1, <3>1 DEF TokenMoves, SomeToken, OneToken
    <2> QED
      BY <1>5, <2>2, <2>3 DEF SendJob
  <1>6. CASE Rebuild \/ Woken \/ TimerFires \/ LookAgain
    <2>1. jobs' = jobs /\ ~Held(c) /\ ~Held(c)'
      BY <1>6 DEF Rebuild, Woken, TimerFires, LookAgain, Rest, Held
    <2> QED
      BY <1>2, <2>1
  <1>7. CASE DrainDirty \/ ResetTimer \/ StopLoop
    <2>1. jobs' = jobs /\ ~Held(c) /\ ~Held(c)'
      BY <1>7 DEF DrainDirty, ResetTimer, StopLoop, Asleep, Held
    <2> QED
      BY <1>2, <2>1
  <1>8. ASSUME NEW d \in Creds, HandleDue(d) \/ ApplyDirty(d)
        PROVE  TokenMoves(c)
    <2>1. jobs' = jobs /\ ~Held(c) /\ ~Held(c)'
      BY <1>0, <1>8 DEF HandleDue, ApplyDirty, Rest, Held
    <2> QED
      BY <1>2, <2>1
  <1> QED
    BY <1>3, <1>4, <1>5, <1>6, <1>7, <1>8 DEF LoopStep

\* The workers' and the others'.
LEMMA OtherTokens ==
    ASSUME RefreshTypeOK,
           \/ \E w \in RefreshWorkers : WorkerStep(w)
           \/ \E e \in Editors : EditorStep(e)
           \/ StopAutoRefresh \/ Tick \/ UNCHANGED refreshVars,
           NEW c \in Creds, SomeToken(c)', SomeToken(c) => OneToken(c) /\ Covered(c)
    PROVE  TokenMoves(c)
  <1>0. /\ jobs \in Seq(Creds) /\ DOMAIN worker = RefreshWorkers
        /\ \A w \in RefreshWorkers : WorkerOK(worker[w])
    BY DEF RefreshTypeOK
  <1>1. CASE UNCHANGED <<loop, jobs, worker>>
    <2>1. Queued(c)' = Queued(c) /\ Refreshing(c)' = Refreshing(c) /\ (Held(c)' <=> Held(c))
      BY <1>1 DEF Queued, Refreshing, Held
    <2> QED
      BY <2>1 DEF TokenMoves, SomeToken, OneToken
  <1>2. CASE StopAutoRefresh \/ Tick \/ UNCHANGED refreshVars
    BY <1>1, <1>2 DEF StopAutoRefresh, Tick, refreshVars
  <1>3. ASSUME NEW e \in Editors, EditorStep(e)
        PROVE  UNCHANGED <<loop, jobs, worker>>
    BY <1>3 DEF EditorStep, Load, Toggle, Write, TellLoop
  <1>4. ASSUME NEW w \in RefreshWorkers, WorkerStep(w)
        PROVE  TokenMoves(c)
    <2>1. loop' = loop /\ (Held(c)' <=> Held(c))
      BY <1>4 DEF WorkerStep, TakeJob, StopWorker, RefreshEnds, RefreshCanceled, RefreshFails,
             Refreshed, Requeue, Held
    <2>2. ASSUME jobs' = jobs, Refreshing(c)' \subseteq Refreshing(c)
          PROVE  TokenMoves(c)
      <3>1. Queued(c)' = Queued(c)
        BY <2>2 DEF Queued
      <3> QED
        BY <2>1, <2>2, <3>1 DEF TokenMoves, SomeToken, OneToken
    <2>3. ASSUME worker'[w].pc # "refresh", \A v \in RefreshWorkers \ {w} : worker'[v] = worker[v]
          PROVE  Refreshing(c)' \subseteq Refreshing(c)
      BY <2>3 DEF Refreshing
    <2>4. CASE StopWorker(w) \/ RefreshEnds(w) \/ Requeue(w)
      <3>1. /\ jobs' = jobs
            /\ \E x : worker' = [worker EXCEPT ![w] = x] /\ x.pc # "refresh"
        <4>1. jobs' = jobs
          BY <2>4 DEF StopWorker, RefreshEnds, RefreshCanceled, RefreshFails, Refreshed, Requeue
        <4>2. \/ \E t : Requeues(w, t)
              \/ worker' = [worker EXCEPT ![w] = [pc |-> "stopped"]]
              \/ worker' = [worker EXCEPT ![w] = Free]
          <5>1. CASE StopWorker(w)
            BY <5>1 DEF StopWorker
          <5>2. CASE RefreshEnds(w)
            BY <5>2 DEF RefreshEnds, RefreshCanceled, RefreshFails, Refreshed
          <5>3. CASE Requeue(w)
            BY <5>3 DEF Requeue
          <5> QED
            BY <2>4, <5>1, <5>2, <5>3
        <4>3. CASE \E t : Requeues(w, t)
          <5>1. PICK t : Requeues(w, t)
            BY <4>3
          <5> DEFINE x == [pc |-> "requeue", cred |-> worker[w].cred, told |-> t]
          <5>2. worker' = [worker EXCEPT ![w] = x] /\ x.pc # "refresh"
            BY <5>1 DEF Requeues
          <5> QED
            BY <4>1, <5>2
        <4>4. CASE worker' = [worker EXCEPT ![w] = [pc |-> "stopped"]]
          <5> DEFINE x == [pc |-> "stopped"]
          <5>1. worker' = [worker EXCEPT ![w] = x] /\ x.pc # "refresh"
            BY <4>4
          <5> QED
            BY <4>1, <5>1
        <4>5. CASE worker' = [worker EXCEPT ![w] = Free]
          <5>1. Free.pc # "refresh"
            BY DEF Free
          <5> QED
            BY <4>1, <4>5, <5>1
        <4> QED
          BY <4>2, <4>3, <4>4, <4>5
      <3> QED
        BY <1>0, <2>2, <2>3, <3>1
    <2>5. CASE TakeJob(w)
      <3> DEFINE d == Head(jobs)
      <3>1. /\ jobs # <<>> /\ jobs' = Tail(jobs) /\ d = jobs[1] /\ Len(jobs) \in Nat
            /\ DOMAIN jobs = 1 .. Len(jobs) /\ DOMAIN jobs' = 1 .. (Len(jobs) - 1)
            /\ \A i \in DOMAIN jobs' : jobs'[i] = jobs[i + 1]
            /\ Len(jobs) > 0
        BY <1>0, <2>5 DEF TakeJob
      <3>2. \A i \in Queued(c)' : i + 1 \in Queued(c) /\ i \in Nat
        BY <3>1 DEF Queued
      <3>3. d = c => 1 \in Queued(c)
        BY <3>1 DEF Queued
      <3>4. \A v \in RefreshWorkers \ {w} : worker'[v] = worker[v]
        BY <2>5 DEF TakeJob
      <3>5. d # c => Refreshing(c)' \subseteq Refreshing(c)
        <4>1. worker'[w].cred = d
          BY <1>0, <2>5 DEF TakeJob
        <4> QED
          BY <3>4, <4>1 DEF Refreshing
      <3>6. Refreshing(c)' \subseteq Refreshing(c) \cup {w}
        BY <3>4 DEF Refreshing
      <3>7. SomeToken(c) /\ OneToken(c)
        BY <2>1, <3>2, <3>3, <3>5 DEF SomeToken
      <3>8. \A i, j \in Queued(c)' : i = j
        BY <3>2, <3>7 DEF OneToken
      <3>9. d = c => Queued(c)' = {} /\ Refreshing(c) = {} /\ ~Held(c)
        <4> SUFFICES ASSUME d = c
                     PROVE  Queued(c)' = {} /\ Refreshing(c) = {} /\ ~Held(c)
          OBVIOUS
        <4>1. ASSUME NEW i \in Queued(c)' PROVE FALSE
          <5>1. i \in Nat /\ i # 0 /\ i + 1 = 1
            BY <3>1, <3>2, <3>3, <3>7 DEF OneToken, Queued
          <5> QED
            BY <5>1
        <4> QED
          BY <3>3, <3>7, <4>1 DEF OneToken
      <3> HIDE DEF d
      <3>10. OneToken(c)'
        <4>1. CASE d = c
          BY <2>1, <3>6, <3>8, <3>9, <4>1 DEF OneToken
        <4>2. CASE d # c
          <5>1. Queued(c)' # {} => Queued(c) # {}
            BY <3>2
          <5> QED
            BY <2>1, <3>5, <3>7, <3>8, <4>2, <5>1 DEF OneToken
        <4> QED
          BY <4>1, <4>2
      <3> QED
        BY <3>7, <3>10 DEF TokenMoves
    <2> QED
      BY <1>4, <2>4, <2>5 DEF WorkerStep
  <1> QED
    BY <1>1, <1>2, <1>3, <1>4

LEMMA TokensKept ==
    ASSUME RefreshTypeOK, TokensOK, [RefreshNext]_refreshVars
    PROVE  TokensOK'
  <1>1. CASE UNCHANGED refreshVars
    BY <1>1 DEF refreshVars, TokensOK, SomeToken, OneToken, Covered, Held, Queued, Refreshing
  <1>2. CASE RefreshNext
    <2> SUFFICES ASSUME NEW c \in Creds, c \notin lapsed', SomeToken(c)'
                 PROVE  OneToken(c)' /\ Covered(c)'
      BY DEF TokensOK
    <2>1. OnTheWay(c)' \/ Refreshing(c)' # {}
      BY DEF SomeToken, Held, OnTheWay
    <2>2. c \notin lapsed /\ ~MarkLost(c)
      BY <1>2, <2>1 DEF RefreshNext
    <2>3. SomeToken(c) => OneToken(c) /\ Covered(c)
      BY <2>2 DEF TokensOK
    <2>4. \/ TokenMoves(c)
          \/ OneToken(c)' /\ loop'.pc = "tell" /\ loop'.cred = c /\ record'[c].mark = "pending"
      BY <1>2, <2>3, LoopTokens, OtherTokens DEF RefreshNext, RefreshStep
    <2>5. CASE TokenMoves(c)
      <3>1. record[c].mark = "pending"
        BY <2>3, <2>5 DEF TokenMoves, Covered
      <3>2. record'[c].mark = "pending" /\ ~(record'[c].after <= clock')
        BY <2>2, <3>1 DEF MarkLost
      <3>3. record'[c].after \in Nat /\ clock' \in Nat
        BY <1>2, RefreshTyped, RecordChanges DEF RefreshTypeOK
      <3> QED
        BY <2>5, <3>2, <3>3 DEF TokenMoves, Covered
    <2>6. CASE OneToken(c)' /\ loop'.pc = "tell" /\ loop'.cred = c /\ record'[c].mark = "pending"
      BY <2>6 DEF Covered
    <2> QED
      BY <2>4, <2>5, <2>6
  <1> QED
    BY <1>1, <1>2

\* A set of which all members are equal has at most one.
LEMMA AtMostOne ==
    ASSUME NEW S, \A x, y \in S : x = y
    PROVE  (Cardinality(S) = 0 /\ S = {}) \/ Cardinality(S) = 1
  <1>1. CASE S = {}
    BY <1>1, FS_EmptySet
  <1>2. CASE S # {}
    <2>1. PICK x \in S : S = {x}
      BY <1>2
    <2> QED
      BY <2>1, FS_Singleton
  <1> QED
    BY <1>1, <1>2

\* Two refreshes of one credential are queued or under way together only when
\* the pending mark of the first ran out or was written over before it ended.
THEOREM RefreshOverlaps == RefreshSpec => []OverlapExplained
  <1> DEFINE Inv == RefreshTypeOK /\ TokensOK
  <1>1. RefreshInit => Inv
    <2> SUFFICES ASSUME RefreshInit PROVE TokensOK
      BY RefreshTyped0
    <2> QED
      BY DEF RefreshInit, TokensOK, SomeToken, Held, Queued, Refreshing, Free
  <1>2. Inv /\ [RefreshNext]_refreshVars => Inv'
    BY RefreshTyped, TokensKept
  <1>3. Inv => OverlapExplained
    <2> SUFFICES ASSUME Inv, NEW c \in Creds, c \notin lapsed PROVE ~(InFlight(c) > 1)
      BY DEF OverlapExplained
    <2>1. (Queued(c) = {} /\ Refreshing(c) = {}) \/ OneToken(c)
      BY DEF TokensOK, SomeToken
    <2>2. /\ (Cardinality(Queued(c)) = 0 /\ Queued(c) = {}) \/ Cardinality(Queued(c)) = 1
          /\ (Cardinality(Refreshing(c)) = 0 /\ Refreshing(c) = {}) \/ Cardinality(Refreshing(c)) = 1
      BY <2>1, AtMostOne DEF OneToken
    <2>3. Queued(c) = {} \/ Refreshing(c) = {}
      BY <2>1 DEF OneToken
    <2>4. Cardinality({}) = 0
      BY FS_EmptySet
    <2>5. \/ Cardinality(Queued(c)) = 0 /\ Cardinality(Refreshing(c)) \in {0, 1}
          \/ Cardinality(Refreshing(c)) = 0 /\ Cardinality(Queued(c)) \in {0, 1}
      BY <2>2, <2>3, <2>4
    <2> QED
      BY <2>5 DEF InFlight
  <1> QED
    BY <1>1, <1>2, <1>3, PTL DEF RefreshSpec

-----------------------------------------------------------------------------
(* The way of an update to the service. *)

\* The members of a finite set, in a sequence.
LEMMA InSequence ==
    ASSUME NEW S, IsFiniteSet(S)
    PROVE  SetToSeq(S) \in Seq(S) /\ S = {SetToSeq(S)[n] : n \in DOMAIN SetToSeq(S)}
  <1> DEFINE k == Cardinality(S)
             s == SetToSeq(S)
  <1>1. k \in Nat /\ IsFiniteSet(1 .. k) /\ Cardinality(1 .. k) = k
        /\ ExistsBijection(1 .. k, S)
    <2>1. k \in Nat /\ ExistsBijection(1 .. k, S)
      BY FS_CardinalityType
    <2> HIDE DEF k
    <2> QED
      BY <2>1, FS_Interval
  <1>2. \E f \in [1 .. k -> S] : IsInjective(f)
    BY <1>1 DEF ExistsBijection, Bijection, Injection
  <1>3. s \in [1 .. k -> S] /\ IsInjective(s)
    BY <1>2 DEF SetToSeq
  <1> HIDE DEF s
  <1>4. s \in Surjection(1 .. k, S)
    <2>1. s \in Injection(1 .. k, S)
      BY <1>3 DEF Injection
    <2>2. Cardinality(1 .. k) = Cardinality(S)
      BY <1>1
    <2> QED
      BY <2>1, <2>2, FS_Injection
  <1>5. s \in Seq(S)
    <2> HIDE DEF k
    <2> QED
      BY <1>1, <1>3
  <1> QED
    BY <1>3, <1>4, <1>5 DEF Surjection, s

Auths == Contents \cup {Gone}

UpsOK(ups) == DOMAIN ups \subseteq Ids /\ \A i \in DOMAIN ups : ups[i] \in Auths

BusTyped ==
    /\ order \in Seq(Ids) /\ UpsOK(pending)
    /\ batch \in Seq([id : Ids, auth : Auths]) /\ queue \in Seq([id : Ids, auth : Auths])
    /\ told \in [Ids -> Auths] /\ view \in [Ids -> Auths]

\* What is on its way for credential i, or has arrived, is what was handed over
\* last: where it is pending, or else in the batch, or else last in the channel.
OnTheBus(i) ==
    /\ i \in DOMAIN pending => pending[i] = told[i]
    /\ i \notin DOMAIN pending =>
         /\ \A n \in DOMAIN batch : batch[n].id = i => batch[n].auth = told[i]
         /\ (\A n \in DOMAIN batch : batch[n].id # i) =>
              /\ \A n \in DOMAIN queue :
                    queue[n].id = i /\ (\A m \in DOMAIN queue : m > n => queue[m].id # i)
                      => queue[n].auth = told[i]
              /\ (\A n \in DOMAIN queue : queue[n].id # i) => view[i] = told[i]

BusOK ==
    /\ DOMAIN pending = {order[n] : n \in DOMAIN order}
    /\ \A i \in Ids : OnTheBus(i)

LEMMA NoDomain == DOMAIN <<>> = {}
  OBVIOUS

\* What is handed over is pending.
LEMMA HandedOver ==
    ASSUME BusTyped, BusOK, NEW ups, UpsOK(ups), HandOver(ups), UNCHANGED <<batch, queue, view>>
    PROVE  /\ BusTyped' /\ BusOK'
           /\ \A i \in Ids : told'[i] = IF i \in DOMAIN ups THEN ups[i] ELSE told[i]
  <1> DEFINE D == DOMAIN ups \ DOMAIN pending
             s == SetToSeq(D)
  <1>1. IsFiniteSet(Ids)
    BY WatcherAssumption, FS_Union DEF Ids
  <1>2. D \subseteq Ids
    BY DEF UpsOK
  <1>3. s \in Seq(D) /\ D = {s[n] : n \in DOMAIN s}
    BY <1>1, <1>2, FS_Subset, InSequence
  <1>4. order' = order \o s
    BY DEF HandOver
  <1> HIDE DEF s
  <1>5. order \in Seq(Ids) /\ s \in Seq(Ids)
    BY <1>2, <1>3, SeqMonotonic DEF BusTyped
  <1>6. order' \in Seq(Ids)
    BY <1>4, <1>5, ConcatProperties
  <1>7. {order'[n] : n \in DOMAIN order'} = {order[n] : n \in DOMAIN order} \cup D
    <2>1. /\ DOMAIN order' = 1 .. Len(order) + Len(s)
          /\ DOMAIN order = 1 .. Len(order) /\ DOMAIN s = 1 .. Len(s)
          /\ Len(order) \in Nat /\ Len(s) \in Nat
          /\ \A n \in 1 .. Len(order) + Len(s) :
                order'[n] = IF n <= Len(order) THEN order[n] ELSE s[n - Len(order)]
      BY <1>4, <1>5, ConcatProperties, LenProperties
    <2>2. ASSUME NEW n \in DOMAIN order
          PROVE  n \in DOMAIN order' /\ order'[n] = order[n]
      BY <2>1
    <2>3. ASSUME NEW n \in DOMAIN s
          PROVE  Len(order) + n \in DOMAIN order' /\ order'[Len(order) + n] = s[n]
      BY <2>1
    <2>4. ASSUME NEW n \in DOMAIN order'
          PROVE  \/ n \in DOMAIN order /\ order'[n] = order[n]
                 \/ n - Len(order) \in DOMAIN s /\ order'[n] = s[n - Len(order)]
      BY <2>1
    <2> QED
      BY <1>3, <2>2, <2>3, <2>4
  <1>8. /\ DOMAIN pending' = DOMAIN ups \cup DOMAIN pending
        /\ \A i \in DOMAIN pending' : pending'[i] = IF i \in DOMAIN ups THEN ups[i] ELSE pending[i]
        /\ told' = [i \in Ids |-> IF i \in DOMAIN ups THEN ups[i] ELSE told[i]]
    BY DEF HandOver
  <1>9. BusTyped'
    BY <1>6, <1>8 DEF BusTyped, UpsOK
  <1>10. DOMAIN pending' = {order'[n] : n \in DOMAIN order'}
    BY <1>7, <1>8 DEF BusOK
  <1>11. ASSUME NEW i \in Ids PROVE OnTheBus(i)'
    BY <1>8 DEF BusOK, OnTheBus
  <1> QED
    BY <1>8, <1>9, <1>10, <1>11 DEF BusOK

\* The pending updates make a batch.
LEMMA Batched ==
    ASSUME BusTyped, BusOK, NextPendingBatch
    PROVE  BusTyped' /\ BusOK'
  <1>1. /\ order \in Seq(Ids) /\ DOMAIN order = 1 .. Len(order) /\ Len(order) \in Nat
        /\ \A n \in DOMAIN order : order[n] \in Ids /\ order[n] \in DOMAIN pending
    BY LenProperties, ElementOfSeq DEF BusTyped, BusOK
  <1>2. /\ batch = <<>> /\ order' = <<>> /\ pending' = <<>>
        /\ batch' = [n \in DOMAIN order |-> [id |-> order[n], auth |-> pending[order[n]]]]
        /\ UNCHANGED <<queue, view, told>>
    BY DEF NextPendingBatch
  <1>3. batch' \in Seq([id : Ids, auth : Auths])
    BY <1>1, <1>2 DEF BusTyped, UpsOK
  <1>4. BusTyped'
    BY <1>2, <1>3, NoDomain DEF BusTyped, UpsOK
  <1>5. DOMAIN pending' = {order'[n] : n \in DOMAIN order'}
    BY <1>2, NoDomain
  <1>6. ASSUME NEW i \in Ids PROVE OnTheBus(i)'
    <2>1. \A n \in DOMAIN batch' : batch'[n].id = i => i \in DOMAIN pending /\ batch'[n].auth = told[i]
      BY <1>1, <1>2 DEF BusOK, OnTheBus
    <2>2. i \in DOMAIN pending => \E n \in DOMAIN batch' : batch'[n].id = i
      <3> SUFFICES ASSUME i \in DOMAIN pending PROVE \E n \in DOMAIN batch' : batch'[n].id = i
        OBVIOUS
      <3>1. PICK n \in DOMAIN order : order[n] = i
        BY DEF BusOK
      <3> QED
        BY <1>2, <3>1
    <2>3. DOMAIN batch = {}
      BY <1>2, NoDomain
    <2> QED
      BY <1>2, <2>1, <2>2, <2>3, NoDomain DEF BusOK, OnTheBus
  <1> QED
    BY <1>4, <1>5, <1>6 DEF BusOK

\* The first of the batch goes into the channel.
LEMMA Sent ==
    ASSUME BusTyped, BusOK, Send
    PROVE  BusTyped' /\ BusOK'
  <1> DEFINE U == [id : Ids, auth : Auths]
             h == batch[1]
  <1>1. /\ batch \in Seq(U) /\ batch # <<>> /\ queue \in Seq(U)
        /\ batch' = Tail(batch) /\ queue' = Append(queue, h)
        /\ UNCHANGED <<order, pending, view, told>>
    BY DEF Send, BusTyped
  <1>2. /\ DOMAIN batch = 1 .. Len(batch) /\ Len(batch) \in Nat \ {0} /\ h \in U
        /\ batch' \in Seq(U) /\ DOMAIN batch' = 1 .. Len(batch) - 1
        /\ \A n \in DOMAIN batch' : batch'[n] = batch[n + 1]
    <2>1. DOMAIN batch = 1 .. Len(batch) /\ Len(batch) \in Nat \ {0}
      BY <1>1, LenProperties, EmptySeq
    <2>2. h \in U
      <3>1. 1 \in 1 .. Len(batch)
        BY <2>1
      <3> HIDE DEF U
      <3> QED
        BY <1>1, <3>1, ElementOfSeq
    <2>3. /\ Tail(batch) \in Seq(U) /\ Len(Tail(batch)) = Len(batch) - 1
          /\ \A n \in 1 .. Len(Tail(batch)) : Tail(batch)[n] = batch[n + 1]
      BY <1>1, HeadTailProperties
    <2>4. DOMAIN Tail(batch) = 1 .. Len(Tail(batch))
      BY <2>3, LenProperties
    <2> QED
      BY <1>1, <2>1, <2>2, <2>3, <2>4
  <1> HIDE DEF h
  <1>3. /\ DOMAIN queue = 1 .. Len(queue) /\ Len(queue) \in Nat
        /\ queue' \in Seq(U) /\ DOMAIN queue' = 1 .. Len(queue) + 1
        /\ \A n \in DOMAIN queue : queue'[n] = queue[n]
        /\ queue'[Len(queue) + 1] = h
    BY <1>1, <1>2
  <1>4. BusTyped'
    BY <1>1, <1>2, <1>3 DEF BusTyped
  <1>5. ASSUME NEW i \in Ids PROVE OnTheBus(i)'
    <2> SUFFICES ASSUME i \notin DOMAIN pending PROVE OnTheBus(i)'
      BY <1>1 DEF BusOK, OnTheBus
    <2>1. OnTheBus(i)
      BY DEF BusOK
    <2>2. \A n \in DOMAIN batch' : n + 1 \in DOMAIN batch
      BY <1>2
    <2>3. \A n \in DOMAIN batch' : batch'[n].id = i => batch'[n].auth = told[i]
      BY <1>2, <2>1, <2>2 DEF OnTheBus
    <2>4. CASE h.id = i
      <3>1. h.auth = told[i]
        BY <1>2, <2>1, <2>4 DEF OnTheBus, h
      <3>2. Len(queue) + 1 \in DOMAIN queue' /\ queue'[Len(queue) + 1].id = i
            /\ \A n \in DOMAIN queue' : n = Len(queue) + 1 \/ Len(queue) + 1 > n
        BY <1>3, <2>4
      <3>3. \A n \in DOMAIN queue' :
               queue'[n].id = i /\ (\A m \in DOMAIN queue' : m > n => queue'[m].id # i)
                  => queue'[n].auth = told[i]
        BY <1>3, <3>1, <3>2
      <3> QED
        BY <1>1, <2>3, <3>2, <3>3 DEF OnTheBus
    <2>5. CASE h.id # i
      <3>1. ASSUME \A n \in DOMAIN batch' : batch'[n].id # i
            PROVE  \A n \in DOMAIN batch : batch[n].id # i
        <4> SUFFICES ASSUME NEW n \in DOMAIN batch, batch[n].id = i PROVE FALSE
          OBVIOUS
        <4>1. n # 1
          BY <2>5 DEF h
        <4>2. n - 1 \in DOMAIN batch' /\ batch'[n - 1] = batch[n]
          BY <1>2, <4>1
        <4> QED
          BY <3>1, <4>2
      <3>2. \A n \in DOMAIN queue' : queue'[n].id = i => n \in DOMAIN queue /\ queue[n].id = i
        BY <1>3, <2>5
      <3>3. \A n \in DOMAIN queue : n \in DOMAIN queue' /\ queue'[n] = queue[n]
        BY <1>3
      <3>4. \A n \in DOMAIN queue : queue'[n].id = queue[n].id /\ queue'[n].auth = queue[n].auth
        BY <3>3
      <3>5. ASSUME \A n \in DOMAIN batch' : batch'[n].id # i
            PROVE  /\ \A n \in DOMAIN queue' :
                         queue'[n].id = i /\ (\A m \in DOMAIN queue' : m > n => queue'[m].id # i)
                           => queue'[n].auth = told[i]
                   /\ (\A n \in DOMAIN queue' : queue'[n].id # i) => view[i] = told[i]
        <4>1. /\ \A n \in DOMAIN queue :
                   queue[n].id = i /\ (\A m \in DOMAIN queue : m > n => queue[m].id # i)
                     => queue[n].auth = told[i]
              /\ (\A n \in DOMAIN queue : queue[n].id # i) => view[i] = told[i]
          BY <2>1, <3>1, <3>5 DEF OnTheBus
        <4> QED
          BY <3>2, <3>3, <3>4, <4>1
      <3> QED
        BY <1>1, <2>3, <3>5 DEF OnTheBus
    <2> QED
      BY <2>4, <2>5
  <1> QED
    BY <1>1, <1>4, <1>5 DEF BusOK

\* The service takes the first of the channel.
LEMMA Received ==
    ASSUME BusTyped, BusOK, HandleAuthUpdate
    PROVE  BusTyped' /\ BusOK'
  <1> DEFINE U == [id : Ids, auth : Auths]
             h == queue[1]
  <1>1. /\ queue \in Seq(U) /\ queue # <<>> /\ view \in [Ids -> Auths]
        /\ queue' = Tail(queue) /\ view' = [view EXCEPT ![h.id] = h.auth]
        /\ UNCHANGED <<order, pending, batch, told>>
    <2>1. queue \in Seq(U) /\ queue # <<>> => Head(queue) = h
      OBVIOUS
    <2> HIDE DEF h
    <2> QED
      BY <2>1 DEF HandleAuthUpdate, BusTyped
  <1>2. /\ DOMAIN queue = 1 .. Len(queue) /\ Len(queue) \in Nat \ {0} /\ h \in U
        /\ queue' \in Seq(U) /\ DOMAIN queue' = 1 .. Len(queue) - 1
        /\ \A n \in DOMAIN queue' : queue'[n] = queue[n + 1]
    <2>1. DOMAIN queue = 1 .. Len(queue) /\ Len(queue) \in Nat \ {0}
      BY <1>1, LenProperties, EmptySeq
    <2>2. h \in U
      <3>1. 1 \in 1 .. Len(queue)
        BY <2>1
      <3> HIDE DEF U
      <3> QED
        BY <1>1, <3>1, ElementOfSeq
    <2>3. /\ Tail(queue) \in Seq(U) /\ Len(Tail(queue)) = Len(queue) - 1
          /\ \A n \in 1 .. Len(Tail(queue)) : Tail(queue)[n] = queue[n + 1]
      BY <1>1, HeadTailProperties
    <2>4. DOMAIN Tail(queue) = 1 .. Len(Tail(queue))
      BY <2>3, LenProperties
    <2> QED
      BY <1>1, <2>1, <2>2, <2>3, <2>4
  <1>3. view' \in [Ids -> Auths]
    BY <1>1, <1>2
  <1>4. BusTyped'
    BY <1>1, <1>2, <1>3 DEF BusTyped
  <1>5. ASSUME NEW i \in Ids PROVE OnTheBus(i)'
    <2> SUFFICES ASSUME i \notin DOMAIN pending, \A n \in DOMAIN batch : batch[n].id # i
                 PROVE  OnTheBus(i)'
      BY <1>1 DEF BusOK, OnTheBus
    <2>1. OnTheBus(i)
      BY DEF BusOK
    <2>2. \A n \in DOMAIN queue' : n + 1 \in DOMAIN queue /\ queue'[n] = queue[n + 1]
      BY <1>2
    <2>3. \A m \in DOMAIN queue \ {1} : m - 1 \in DOMAIN queue' /\ queue'[m - 1] = queue[m]
      BY <1>2
    <2>4. ASSUME NEW n \in DOMAIN queue', queue'[n].id = i,
                 \A m \in DOMAIN queue' : m > n => queue'[m].id # i
          PROVE  queue'[n].auth = told[i]
      <3>1. \A m \in DOMAIN queue : m > n + 1 => queue[m].id # i
        <4> SUFFICES ASSUME NEW m \in DOMAIN queue, m > n + 1 PROVE queue[m].id # i
          OBVIOUS
        <4>1. m # 1 /\ m - 1 > n
          BY <1>2
        <4> QED
          BY <2>3, <2>4, <4>1
      <3> QED
        BY <2>1, <2>2, <2>4, <3>1 DEF OnTheBus
    <2>5. ASSUME \A n \in DOMAIN queue' : queue'[n].id # i
          PROVE  view'[i] = told[i]
      <3>1. \A m \in DOMAIN queue \ {1} : queue[m].id # i
        BY <2>3, <2>5
      <3>2. CASE h.id = i
        <4>1. h.auth = told[i]
          <5>1. 1 \in DOMAIN queue /\ \A m \in DOMAIN queue : m > 1 => m # 1
            BY <1>2
          <5> QED
            BY <2>1, <3>1, <3>2, <5>1 DEF OnTheBus
        <4> QED
          BY <1>1, <3>2, <4>1
      <3>3. CASE h.id # i
        <4>1. \A m \in DOMAIN queue : queue[m].id # i
          BY <3>1, <3>3
        <4> QED
          BY <1>1, <2>1, <3>3, <4>1 DEF OnTheBus
      <3> QED
        BY <3>2, <3>3
    <2> QED
      BY <1>1, <2>4, <2>5 DEF OnTheBus
  <1> QED
    BY <1>1, <1>4, <1>5 DEF BusOK

FollowerOK(x) ==
    /\ x.pc \in {"idle", "settle", "update", "remove", "dispatch"}
    /\ x.pc \in {"settle", "update", "remove"} => x.file \in Files
    /\ x.pc = "update" => x.data \in Contents
    /\ x.pc = "dispatch" => UpsOK(x.ups) /\ DOMAIN x.ups \subseteq Files
    /\ x.pc = "idle" => x = Resting

ReloaderOK(x) ==
    /\ x.pc \in {"idle", "rescan", "snapshot", "apply", "dispatch"}
    /\ x.pc = "apply" => x.files \in [Files -> Auths]
    /\ x.pc = "dispatch" => UpsOK(x.ups)
    /\ x.pc = "idle" => x = Resting

WatcherTypeOK ==
    /\ disk \in [Files -> Auths \cup {Partial}] /\ hashes \in [Files -> Auths \cup {Partial}]
    /\ current \in [Ids -> Auths] /\ runtime \in [Channels -> Auths]
    /\ fileEvents \in Seq([kind : {"write", "remove"}, file : Files])
    /\ BusTyped
    /\ FollowerOK(follower)
    /\ DOMAIN reloader = Reloaders /\ \A r \in Reloaders : ReloaderOK(reloader[r])
    /\ DOMAIN session = Channels
    /\ \A c \in Channels :
          \/ session[c] = Resting
          \/ session[c] = [pc |-> "dispatch", ups |-> One(c, runtime[c])]

LEMMA Constants ==
    /\ \A f \in Files : f \in Ids
    /\ \A c \in Channels : c \in Ids /\ c \notin Files
    /\ Gone \notin Contents /\ Partial \notin Contents /\ Gone # Partial
    /\ SessionAuth \in Contents
    /\ Gone \in Auths /\ Partial \notin Auths
    /\ \A x \in Auths \cup {Partial} : Readable(x) \in Auths /\ (Readable(x) # Gone => x \in Contents)
  BY WatcherAssumption DEF Ids, SessionAuth, Auths, Readable

LEMMA Started == WatcherInit => WatcherTypeOK
  <1> SUFFICES ASSUME WatcherInit PROVE WatcherTypeOK
    OBVIOUS
  <1>1. FollowerOK(Resting) /\ ReloaderOK(Resting) /\ ReloaderOK([pc |-> "rescan"])
    BY DEF FollowerOK, ReloaderOK, Resting
  <1>2. BusTyped
    BY NoDomain DEF WatcherInit, BusTyped, UpsOK, Auths
  <1>3. DOMAIN reloader = Reloaders /\ \A r \in Reloaders : ReloaderOK(reloader[r])
    BY <1>1 DEF WatcherInit
  <1>4. current \in [Ids -> Auths] /\ runtime \in [Channels -> Auths]
        /\ disk \in [Files -> Auths \cup {Partial}] /\ hashes \in [Files -> Auths \cup {Partial}]
    BY DEF WatcherInit, Auths
  <1> QED
    BY <1>1, <1>2, <1>3, <1>4 DEF WatcherInit, WatcherTypeOK

\* What is handed over next to a type that is kept.
LEMMA DispatchingTyped ==
    ASSUME NEW ups, UpsOK(ups)
    PROVE  /\ ReloaderOK(Dispatching(ups))
           /\ DOMAIN ups \subseteq Files => FollowerOK(Dispatching(ups))
           /\ Dispatching(ups).pc \in {"idle", "dispatch"}
           /\ Dispatching(ups) # Resting => Dispatching(ups) = [pc |-> "dispatch", ups |-> ups]
  BY DEF Dispatching, ReloaderOK, FollowerOK, Resting

LEMMA OneTyped ==
    ASSUME NEW i \in Ids, NEW a \in Auths
    PROVE  /\ UpsOK(One(i, a)) /\ DOMAIN One(i, a) = {i} /\ One(i, a)[i] = a
           /\ Dispatching(One(i, a)) = [pc |-> "dispatch", ups |-> One(i, a)]
  <1>1. DOMAIN One(i, a) = {i} /\ One(i, a)[i] = a
    BY DEF One
  <1> QED
    BY <1>1 DEF UpsOK, Dispatching

\* The steps of the follower and of what it follows.
LEMMA FollowerTyped ==
    ASSUME WatcherTypeOK, BusOK,
           \/ FollowerStep
           \/ \E f \in Files : Forget(f) \/ \E c \in Contents \cup {Partial, Gone} : ChangeFile(f, c)
    PROVE  WatcherTypeOK' /\ BusOK'
  <1>0. /\ disk \in [Files -> Auths \cup {Partial}] /\ hashes \in [Files -> Auths \cup {Partial}]
        /\ current \in [Ids -> Auths] /\ runtime \in [Channels -> Auths]
        /\ fileEvents \in Seq([kind : {"write", "remove"}, file : Files])
        /\ BusTyped /\ FollowerOK(follower)
    BY DEF WatcherTypeOK
  <1>1. UNCHANGED <<runtime, session, reloader, batch, queue, view>>
    BY DEF FollowerStep, Forget, ChangeFile, TakeEvent, Settle, AddOrUpdateClient, RemoveClient,
           FollowerDispatches, tableVars, busVars, worldVars
  <1>2. ASSUME disk' \in [Files -> Auths \cup {Partial}], hashes' \in [Files -> Auths \cup {Partial}],
               current' \in [Ids -> Auths], FollowerOK(follower'),
               fileEvents' \in Seq([kind : {"write", "remove"}, file : Files])
        PROVE  BusTyped' /\ BusOK' => WatcherTypeOK' /\ BusOK'
    BY <1>0, <1>1, <1>2 DEF WatcherTypeOK
  <1>3. ASSUME UNCHANGED busVars
        PROVE  BusTyped' /\ BusOK'
    BY <1>0, <1>3 DEF busVars, BusTyped, BusOK, OnTheBus
  <1>4. FollowerOK(Resting)
    BY DEF FollowerOK, Resting
  <1>5. ASSUME NEW f \in Files, ReadFile(f)
        PROVE  FollowerOK(follower')
    <2>1. disk[f] \in Auths \cup {Partial}
      BY <1>0
    <2> QED
      BY <1>4, <1>5, <2>1, Constants DEF ReadFile, FollowerOK
  <1>6. ASSUME NEW f \in Files, Forget(f) PROVE WatcherTypeOK' /\ BusOK'
    BY <1>0, <1>2, <1>3, <1>6 DEF Forget, worldVars, tableVars
  <1>7. ASSUME NEW f \in Files, NEW c \in Contents \cup {Partial, Gone}, ChangeFile(f, c)
        PROVE  WatcherTypeOK' /\ BusOK'
    <2>1. disk' \in [Files -> Auths \cup {Partial}]
      BY <1>0, <1>7 DEF ChangeFile, Auths
    <2>2. fileEvents' \in Seq([kind : {"write", "remove"}, file : Files])
      BY <1>0, <1>7 DEF ChangeFile, Event
    <2> QED
      BY <1>0, <1>2, <1>3, <1>7, <2>1, <2>2 DEF ChangeFile, tableVars
  <1>8. CASE TakeEvent
    <2>1. /\ fileEvents' \in Seq([kind : {"write", "remove"}, file : Files])
          /\ Head(fileEvents) \in [kind : {"write", "remove"}, file : Files]
      BY <1>0, <1>8, HeadTailProperties DEF TakeEvent
    <2>2. FollowerOK(follower')
      <3> DEFINE e == Head(fileEvents)
      <3>1. e.file \in Files /\ FollowerOK([pc |-> "settle", file |-> e.file])
        BY <2>1 DEF FollowerOK
      <3>2. ReadFile(e.file) \/ follower' = follower \/ follower' = [pc |-> "settle", file |-> e.file]
        BY <1>8 DEF TakeEvent
      <3> HIDE DEF e
      <3> QED
        BY <1>0, <1>5, <3>1, <3>2
    <2> QED
      BY <1>0, <1>2, <1>3, <1>8, <2>1, <2>2 DEF TakeEvent, tableVars
  <1>9. CASE Settle
    <2> DEFINE f == follower.file
    <2>1. f \in Files /\ FollowerOK([pc |-> "remove", file |-> f])
      BY <1>0, <1>9 DEF Settle, FollowerOK
    <2>2. ReadFile(f) \/ follower' = Resting \/ follower' = [pc |-> "remove", file |-> f]
      BY <1>9 DEF Settle
    <2> HIDE DEF f
    <2>3. FollowerOK(follower')
      BY <1>4, <1>5, <2>1, <2>2
    <2> QED
      BY <1>0, <1>2, <1>3, <1>9, <2>3 DEF Settle, tableVars, worldVars
  <1>10. CASE AddOrUpdateClient
    <2> DEFINE f == follower.file
               new == follower.data
    <2>1. f \in Files /\ f \in Ids /\ new \in Contents /\ new \in Auths
      BY <1>0, <1>10, Constants DEF AddOrUpdateClient, FollowerOK, Auths
    <2>2. /\ follower' = Resting \/ follower' = Dispatching(One(f, new))
          /\ hashes' = hashes \/ hashes' = [hashes EXCEPT ![f] = new]
          /\ current' = current \/ current' = [current EXCEPT ![f] = new]
          /\ UNCHANGED <<worldVars, busVars>>
      BY <1>10 DEF AddOrUpdateClient, tableVars
    <2> HIDE DEF f, new
    <2>3. FollowerOK(follower')
      <3>1. UpsOK(One(f, new)) /\ DOMAIN One(f, new) \subseteq Files
        BY <2>1, OneTyped
      <3>2. FollowerOK(Dispatching(One(f, new)))
        BY <3>1, DispatchingTyped
      <3> QED
        BY <1>4, <2>2, <3>2
    <2>4. hashes' \in [Files -> Auths \cup {Partial}] /\ current' \in [Ids -> Auths]
      BY <1>0, <2>1, <2>2
    <2> QED
      BY <1>0, <1>2, <1>3, <2>2, <2>3, <2>4 DEF worldVars
  <1>11. CASE RemoveClient
    <2> DEFINE f == follower.file
    <2>1. f \in Files /\ f \in Ids /\ Gone \in Auths
      BY <1>0, <1>11, Constants DEF RemoveClient, FollowerOK
    <2>2. /\ follower' = Resting \/ follower' = Dispatching(One(f, Gone))
          /\ hashes' = [hashes EXCEPT ![f] = Gone]
          /\ current' = current \/ current' = [current EXCEPT ![f] = Gone]
          /\ UNCHANGED <<worldVars, busVars>>
      BY <1>11 DEF RemoveClient
    <2> HIDE DEF f
    <2>3. FollowerOK(follower')
      <3>1. UpsOK(One(f, Gone)) /\ DOMAIN One(f, Gone) \subseteq Files
        BY <2>1, OneTyped
      <3>2. FollowerOK(Dispatching(One(f, Gone)))
        BY <3>1, DispatchingTyped
      <3> QED
        BY <1>4, <2>2, <3>2
    <2>4. hashes' \in [Files -> Auths \cup {Partial}] /\ current' \in [Ids -> Auths]
      BY <1>0, <2>1, <2>2
    <2> QED
      BY <1>0, <1>2, <1>3, <2>2, <2>3, <2>4 DEF worldVars
  <1>12. CASE FollowerDispatches
    <2>1. UpsOK(follower.ups) /\ HandOver(follower.ups) /\ follower' = Resting
          /\ UNCHANGED <<worldVars, tableVars>>
      BY <1>0, <1>12 DEF FollowerDispatches, FollowerOK
    <2>2. BusTyped' /\ BusOK'
      BY <1>0, <1>1, <2>1, HandedOver
    <2> QED
      BY <1>0, <1>2, <1>4, <2>1, <2>2 DEF worldVars, tableVars
  <1> QED
    BY <1>6, <1>7, <1>8, <1>9, <1>10, <1>11, <1>12 DEF FollowerStep

\* The steps of reloaders.
LEMMA ReloaderTyped ==
    ASSUME WatcherTypeOK, BusOK, NEW r \in Reloaders,
           \/ ReloaderStep(r)
           \/ \E force \in BOOLEAN, affected \in {{}, Files} : ReloadConfig(r, force, affected)
    PROVE  WatcherTypeOK' /\ BusOK'
  <1>0. /\ disk \in [Files -> Auths \cup {Partial}] /\ hashes \in [Files -> Auths \cup {Partial}]
        /\ current \in [Ids -> Auths] /\ runtime \in [Channels -> Auths]
        /\ BusTyped /\ DOMAIN reloader = Reloaders /\ \A t \in Reloaders : ReloaderOK(reloader[t])
    BY DEF WatcherTypeOK
  <1>1. UNCHANGED <<worldVars, follower, session, runtime, batch, queue, view>>
    BY DEF ReloaderStep, Rescan, Snapshot, ApplySnapshot, ReloaderDispatches, ReloadConfig,
           tableVars, busVars
  <1>2. ASSUME NEW x, ReloaderOK(x), reloader' = [reloader EXCEPT ![r] = x],
               hashes' \in [Files -> Auths \cup {Partial}], current' \in [Ids -> Auths],
               BusTyped'
        PROVE  WatcherTypeOK'
    BY <1>0, <1>1, <1>2 DEF WatcherTypeOK, worldVars
  <1>3. ASSUME UNCHANGED busVars
        PROVE  BusTyped' /\ BusOK'
    BY <1>0, <1>3 DEF busVars, BusTyped, BusOK, OnTheBus
  <1>4. CASE Rescan(r)
    <2> DEFINE x == [pc |-> "snapshot", force |-> FALSE]
    <2>1. ReloaderOK(x)
      BY DEF ReloaderOK
    <2> QED
      BY <1>0, <1>2, <1>3, <1>4, <2>1 DEF Rescan
  <1>5. ASSUME NEW force \in BOOLEAN, NEW affected \in {{}, Files}, ReloadConfig(r, force, affected)
        PROVE  WatcherTypeOK' /\ BusOK'
    <2> DEFINE x == [pc |-> "snapshot", force |-> force]
    <2>1. ReloaderOK(x)
      BY DEF ReloaderOK
    <2>2. current' \in [Ids -> Auths]
      BY <1>0, <1>5, Constants DEF ReloadConfig
    <2> QED
      BY <1>0, <1>2, <1>3, <1>5, <2>1, <2>2 DEF ReloadConfig
  <1>6. CASE Snapshot(r)
    <2> DEFINE x == [pc |-> "apply", force |-> reloader[r].force,
                     files |-> [f \in Files |-> Readable(disk[f])]]
    <2>1. ReloaderOK(x)
      <3>1. [f \in Files |-> Readable(disk[f])] \in [Files -> Auths]
        BY <1>0, Constants
      <3> QED
        BY <3>1 DEF ReloaderOK
    <2>2. reloader' = [reloader EXCEPT ![r] = x]
      BY <1>0, <1>6 DEF Snapshot
    <2> HIDE DEF x
    <2> QED
      BY <1>0, <1>2, <1>3, <1>6, <2>1, <2>2 DEF Snapshot, tableVars
  <1>7. CASE ApplySnapshot(r)
    <2> DEFINE new == [i \in Ids |-> IF i \in Files THEN reloader[r].files[i] ELSE runtime[i]]
               changed == {i \in Ids : \/ new[i] # current[i]
                                       \/ reloader[r].force /\ new[i] # Gone}
               ups == [i \in changed |-> new[i]]
    <2>1. reloader[r].files \in [Files -> Auths]
      BY <1>0, <1>7 DEF ApplySnapshot, ReloaderOK
    <2>2. new \in [Ids -> Auths]
      BY <1>0, <2>1 DEF Ids
    <2>3. UpsOK(ups)
      <3> HIDE DEF new
      <3> QED
        BY <2>2 DEF UpsOK
    <2>4. current' = new /\ reloader' = [reloader EXCEPT ![r] = Dispatching(ups)]
          /\ UNCHANGED <<hashes, busVars>>
      BY <1>7 DEF ApplySnapshot
    <2> HIDE DEF new, ups
    <2> QED
      BY <1>0, <1>2, <1>3, <2>2, <2>3, <2>4, DispatchingTyped
  <1>8. CASE ReloaderDispatches(r)
    <2>1. UpsOK(reloader[r].ups) /\ HandOver(reloader[r].ups)
          /\ reloader' = [reloader EXCEPT ![r] = Resting] /\ UNCHANGED tableVars
      BY <1>0, <1>8 DEF ReloaderDispatches, ReloaderOK
    <2>2. BusTyped' /\ BusOK'
      BY <1>0, <1>1, <2>1, HandedOver
    <2>3. ReloaderOK(Resting)
      BY DEF ReloaderOK, Resting
    <2> QED
      BY <1>0, <1>2, <2>1, <2>2, <2>3 DEF tableVars
  <1> QED
    BY <1>4, <1>5, <1>6, <1>7, <1>8 DEF ReloaderStep

\* The steps of sessions and of the bus.
LEMMA SessionTyped ==
    ASSUME WatcherTypeOK, BusOK,
           \/ \E c \in Channels :
                 SessionDispatches(c) \/ \E auth \in {SessionAuth, Gone} : Announce(c, auth)
           \/ NextPendingBatch \/ Send \/ HandleAuthUpdate \/ UNCHANGED watcherVars
    PROVE  WatcherTypeOK' /\ BusOK'
  <1>0. /\ current \in [Ids -> Auths] /\ runtime \in [Channels -> Auths] /\ BusTyped
        /\ DOMAIN session = Channels
        /\ \A c \in Channels :
              \/ session[c] = Resting
              \/ session[c] = [pc |-> "dispatch", ups |-> One(c, runtime[c])]
    BY DEF WatcherTypeOK
  <1>1. ASSUME NextPendingBatch \/ Send \/ HandleAuthUpdate
        PROVE  WatcherTypeOK' /\ BusOK'
    <2>1. BusTyped' /\ BusOK'
      BY <1>0, <1>1, Batched, Sent, Received
    <2>2. UNCHANGED <<worldVars, follower, reloader, session, tableVars>>
      BY <1>1 DEF NextPendingBatch, Send, HandleAuthUpdate
    <2> QED
      BY <2>1, <2>2 DEF WatcherTypeOK, worldVars, tableVars
  <1>2. ASSUME NEW c \in Channels, SessionDispatches(c)
        PROVE  WatcherTypeOK' /\ BusOK'
    <2>1. session[c].ups = One(c, runtime[c]) /\ runtime[c] \in Auths /\ c \in Ids
      BY <1>0, <1>2, Constants DEF SessionDispatches, Resting
    <2>2. /\ UpsOK(session[c].ups) /\ HandOver(session[c].ups)
          /\ UNCHANGED <<worldVars, follower, reloader, tableVars, batch, queue, view>>
          /\ session' = [session EXCEPT ![c] = Resting]
      BY <1>2, <2>1, OneTyped DEF SessionDispatches
    <2>3. BusTyped' /\ BusOK'
      BY <1>0, <2>2, HandedOver
    <2> QED
      BY <1>0, <2>2, <2>3 DEF WatcherTypeOK, worldVars, tableVars
  <1>3. ASSUME NEW c \in Channels, NEW auth \in {SessionAuth, Gone}, Announce(c, auth)
        PROVE  WatcherTypeOK' /\ BusOK'
    <2>1. auth \in Auths /\ c \in Ids
      BY Constants DEF Auths
    <2>2. /\ runtime' = [runtime EXCEPT ![c] = auth] /\ current' = [current EXCEPT ![c] = auth]
          /\ session' = [session EXCEPT ![c] = [pc |-> "dispatch", ups |-> One(c, auth)]]
          /\ UNCHANGED <<disk, fileEvents, follower, reloader, hashes, busVars>>
      BY <1>3, <2>1, OneTyped DEF Announce
    <2>3. BusTyped' /\ BusOK'
      BY <1>0, <2>2 DEF busVars, BusTyped, BusOK, OnTheBus
    <2>4. runtime' \in [Channels -> Auths] /\ current' \in [Ids -> Auths]
      BY <1>0, <2>1, <2>2
    <2>5. /\ DOMAIN session' = Channels
          /\ \A d \in Channels :
                \/ session'[d] = Resting
                \/ session'[d] = [pc |-> "dispatch", ups |-> One(d, runtime'[d])]
      BY <1>0, <2>2
    <2> QED
      BY <2>2, <2>3, <2>4, <2>5 DEF WatcherTypeOK
  <1>4. CASE UNCHANGED watcherVars
    BY <1>0, <1>4
       DEF watcherVars, worldVars, tableVars, busVars, WatcherTypeOK, BusTyped, BusOK,
       OnTheBus
  <1> QED
    BY <1>1, <1>2, <1>3, <1>4

LEMMA WatcherTyped ==
    WatcherTypeOK /\ BusOK /\ [WatcherNext]_watcherVars => WatcherTypeOK' /\ BusOK'
  BY FollowerTyped, ReloaderTyped, SessionTyped DEF WatcherNext, WatcherStep

-----------------------------------------------------------------------------
(* From the files and sessions to what is handed over. *)

\* A reloader is about to hand over an update of i.
Reported(i) == \E r \in Reloaders : reloader[r].pc = "dispatch" /\ i \in DOMAIN reloader[r].ups

\* Sessions.
SessionOK(c) ==
    /\ current[c] = runtime[c]
    /\ c \notin disturbed =>
         /\ \A r \in Reloaders :
               reloader[r].pc = "dispatch" /\ c \in DOMAIN reloader[r].ups
                 => reloader[r].ups[c] = runtime[c]
         /\ told[c] = runtime[c] \/ session[c] # Resting \/ Reported(c)

\* Files.
Awaited(f) == \E n \in DOMAIN fileEvents : fileEvents[n].file = f

InHands(f) == follower.pc \in {"settle", "update", "remove"} /\ follower.file = f

\* What the follower has told, or is about to tell, of f.
Promised(f) ==
    IF follower.pc = "dispatch" /\ f \in DOMAIN follower.ups THEN follower.ups[f] ELSE told[f]

At(pcs) == \E r \in Reloaders : reloader[r].pc \in pcs

\* The events of f: the last one says whether the file is there; what the
\* follower has read is in the file, or an event is to come.
EventsOK(f) ==
    /\ \A n \in DOMAIN fileEvents :
          fileEvents[n].file = f /\ (\A m \in DOMAIN fileEvents : m > n => fileEvents[m].file # f)
            => (fileEvents[n].kind = "remove" <=> disk[f] = Gone)
    /\ follower.pc = "update" /\ follower.file = f => follower.data = disk[f] \/ Awaited(f)
    /\ follower.pc = "remove" /\ follower.file = f => disk[f] = Gone \/ Awaited(f)
    /\ f \in known <=> hashes[f] \in Contents

\* Of a file no reload disturbed: its hash is that of its content, or the
\* follower comes to it; nobody but the follower has told of it, or the one
\* reload there is will.
FileOK(f) ==
    /\ At({"rescan"}) \/ hashes[f] = disk[f] \/ disk[f] = Partial \/ Awaited(f) \/ InHands(f)
    /\ \A r, s \in Reloaders : reloader[r] # Resting /\ reloader[s] # Resting => r = s
    /\ At({"rescan"}) => Promised(f) = current[f]
    /\ At({"snapshot", "apply"}) =>
          Promised(f) = current[f] \/ (Promised(f) = hashes[f] /\ current[f] = Gone)
    /\ \A r \in Reloaders : reloader[r].pc = "apply" => reloader[r].files[f] = hashes[f]
    /\ ~At({"rescan", "snapshot", "apply"}) =>
          /\ current[f] = hashes[f]
          /\ Promised(f) = hashes[f] \/ Reported(f)
    /\ \A r \in Reloaders : 
          reloader[r].pc = "dispatch" /\ f \in DOMAIN reloader[r].ups => reloader[r].ups[f] = hashes[f]

ReloadsOK ==
    /\ \A i \in Ids \ disturbed : Halfway # {} => ~Underway(i)
    /\ \A c \in Channels : SessionOK(c)
    /\ \A f \in Files : EventsOK(f)
    /\ \A f \in Files \ disturbed : FileOK(f)

LEMMA ReloadsStarted == WatcherInit => BusOK /\ ReloadsOK
  <1> SUFFICES ASSUME WatcherInit PROVE BusOK /\ ReloadsOK
    OBVIOUS
  <1>1. BusOK
    BY NoDomain, Constants DEF WatcherInit, BusOK, OnTheBus
  <1>2. PICK first \in Reloaders :
           reloader = [r \in Reloaders |-> IF r = first THEN [pc |-> "rescan"] ELSE Resting]
    BY DEF WatcherInit
  <1>3. /\ reloader[first].pc = "rescan"
        /\ \A r \in Reloaders : reloader[r].pc \in {"rescan", "idle"}
        /\ \A r \in Reloaders : reloader[r] # Resting => r = first
    BY <1>2 DEF Resting
  <1>4. Halfway = {}
    BY <1>3 DEF Halfway
  <1>5. ASSUME NEW c \in Channels PROVE SessionOK(c)
    BY <1>3, Constants DEF WatcherInit, SessionOK
  <1>6. ASSUME NEW f \in Files PROVE EventsOK(f) /\ FileOK(f)
    BY <1>3, Constants, NoDomain DEF WatcherInit, EventsOK, FileOK, At, Promised, Resting
  <1> QED
    BY <1>1, <1>4, <1>5, <1>6 DEF ReloadsOK

\* What a step leaves undisturbed.
LEMMA Undisturbed ==
    ASSUME WatcherNext, NEW i \in Ids, i \notin disturbed'
    PROVE  /\ i \notin disturbed
           /\ Halfway' # {} => ~Underway(i)'
           /\ i \in Files =>
                 /\ \A r \in Reloaders :
                       reloader'[r].pc = "apply" => reloader'[r].files[i] = hashes'[i]
                 /\ \A r, s \in Reloaders :
                       reloader'[r] # Resting /\ reloader'[s] # Resting => r = s
                 /\ i \in recent /\ fileEvents # <<>> /\ fileEvents' = Tail(fileEvents)
                       => Head(fileEvents) # [kind |-> "remove", file |-> i]
  BY DEF WatcherNext

\* The events of a file.
LEMMA EventsKept ==
    ASSUME WatcherTypeOK, \A f \in Files : EventsOK(f), WatcherStep \/ UNCHANGED watcherVars,
           NEW f \in Files
    PROVE  EventsOK(f)'
  <1> DEFINE E == [kind : {"write", "remove"}, file : Files]
  <1>0. /\ disk \in [Files -> Auths \cup {Partial}] /\ hashes \in [Files -> Auths \cup {Partial}]
        /\ fileEvents \in Seq(E) /\ FollowerOK(follower) /\ EventsOK(f)
    BY DEF WatcherTypeOK
  <1>1. ASSUME UNCHANGED <<disk, fileEvents, follower, hashes, known>>
        PROVE  EventsOK(f)'
    BY <1>0, <1>1 DEF EventsOK, Awaited
  <1>2. ASSUME UNCHANGED <<disk, fileEvents>>,
               follower'.pc = "update" /\ follower'.file = f => follower'.data = disk[f],
               follower'.pc = "remove" /\ follower'.file = f => disk[f] = Gone,
               f \in known' <=> hashes'[f] \in Contents
        PROVE  EventsOK(f)'
    BY <1>0, <1>2 DEF EventsOK, Awaited
  <1>3. ASSUME NEW g \in Files, ReadFile(g)
        PROVE  /\ follower'.pc = "update" /\ follower'.file = f => follower'.data = disk[f]
               /\ follower'.pc # "remove"
    BY <1>3 DEF ReadFile, Resting
  <1>4. ASSUME NEW g \in Files, NEW c \in Contents \cup {Partial, Gone}, ChangeFile(g, c)
        PROVE  EventsOK(f)'
    <2> DEFINE e == [kind |-> IF c = Gone THEN "remove" ELSE "write", file |-> g]
               n1 == Len(fileEvents) + 1
    <2>1. fileEvents' = Append(fileEvents, e) /\ disk' = [disk EXCEPT ![g] = c]
          /\ UNCHANGED <<follower, hashes, known>>
      BY <1>4 DEF ChangeFile, Event, tableVars
    <2>2. /\ Len(fileEvents) \in Nat /\ DOMAIN fileEvents = 1 .. Len(fileEvents)
          /\ DOMAIN fileEvents' = 1 .. n1 /\ fileEvents'[n1] = e
          /\ \A n \in DOMAIN fileEvents : fileEvents'[n] = fileEvents[n]
      <3>1. e \in E
        OBVIOUS
      <3> HIDE DEF e
      <3> QED
        BY <1>0, <2>1, <3>1
    <2>3. e.file = g /\ (e.kind = "remove" <=> c = Gone)
      OBVIOUS
    <2> HIDE DEF e
    <2>4. n1 \in DOMAIN fileEvents' /\ \A n \in DOMAIN fileEvents' : n = n1 \/ n1 > n
      BY <2>2
    <2>5. /\ \A n \in DOMAIN fileEvents' : n \in DOMAIN fileEvents \/ n = n1
          /\ DOMAIN fileEvents \subseteq DOMAIN fileEvents'
      BY <2>2
    <2> HIDE DEF n1
    <2>6. CASE g = f
      BY <1>0, <2>1, <2>2, <2>3, <2>4, <2>6 DEF EventsOK, Awaited
    <2>7. CASE g # f
      <3>1. ASSUME NEW n \in DOMAIN fileEvents', fileEvents'[n].file = f,
                   \A m \in DOMAIN fileEvents' : m > n => fileEvents'[m].file # f
            PROVE  fileEvents'[n].kind = "remove" <=> disk'[f] = Gone
        <4>1. n \in DOMAIN fileEvents
          BY <2>2, <2>3, <2>5, <2>7, <3>1
        <4>2. \A m \in DOMAIN fileEvents : m > n => fileEvents[m].file # f
          BY <2>2, <2>5, <3>1
        <4> QED
          BY <1>0, <2>1, <2>2, <2>7, <3>1, <4>1, <4>2 DEF EventsOK
      <3>2. disk'[f] = disk[f] /\ (Awaited(f) => Awaited(f)')
        BY <1>0, <2>1, <2>2, <2>5, <2>7 DEF Awaited
      <3> QED
        BY <1>0, <2>1, <3>1, <3>2 DEF EventsOK
    <2> QED
      BY <2>6, <2>7
  <1>5. CASE TakeEvent
    <2> DEFINE e == Head(fileEvents)
    <2>1. /\ e \in E /\ fileEvents # <<>> /\ fileEvents' = Tail(fileEvents)
          /\ UNCHANGED <<disk, hashes, known>> /\ follower = Resting
          /\ ReadFile(e.file) \/ follower' = follower \/ follower' = [pc |-> "settle", file |-> e.file]
      BY <1>0, <1>5, HeadTailProperties DEF TakeEvent, tableVars
    <2>2. /\ Len(fileEvents) \in Nat /\ DOMAIN fileEvents = 1 .. Len(fileEvents)
          /\ DOMAIN fileEvents' = 1 .. Len(fileEvents) - 1
          /\ \A n \in DOMAIN fileEvents' : fileEvents'[n] = fileEvents[n + 1]
      <3>1. /\ Tail(fileEvents) \in Seq(E) /\ Len(Tail(fileEvents)) = Len(fileEvents) - 1
            /\ \A n \in 1 .. Len(Tail(fileEvents)) : Tail(fileEvents)[n] = fileEvents[n + 1]
        BY <1>0, <2>1, HeadTailProperties
      <3> QED
        BY <1>0, <2>1, <3>1, LenProperties
    <2> HIDE DEF e
    <2>3. ASSUME NEW n \in DOMAIN fileEvents', fileEvents'[n].file = f,
                 \A m \in DOMAIN fileEvents' : m > n => fileEvents'[m].file # f
          PROVE  fileEvents'[n].kind = "remove" <=> disk'[f] = Gone
      <3>1. n + 1 \in DOMAIN fileEvents /\ fileEvents'[n] = fileEvents[n + 1]
        BY <2>2
      <3>2. ASSUME NEW m \in DOMAIN fileEvents, m > n + 1 PROVE fileEvents[m].file # f
        <4>1. m - 1 \in DOMAIN fileEvents' /\ m - 1 > n /\ fileEvents'[m - 1] = fileEvents[m]
          BY <2>2, <3>2
        <4> QED
          BY <2>3, <4>1
      <3> QED
        BY <1>0, <2>1, <2>3, <3>1, <3>2 DEF EventsOK
    <2>4. /\ follower'.pc = "update" /\ follower'.file = f => follower'.data = disk[f]
          /\ follower'.pc # "remove"
      <3>1. e.file \in Files
        BY <2>1
      <3> QED
        BY <1>3, <2>1, <3>1 DEF Resting
    <2> QED
      BY <1>0, <2>1, <2>3, <2>4 DEF EventsOK
  <1>6. CASE Settle
    <2>1. /\ UNCHANGED <<disk, fileEvents, hashes, known>> /\ follower.file \in Files
          /\ \/ ReadFile(follower.file) \/ follower' = Resting
             \/ follower' = [pc |-> "remove", file |-> follower.file] /\ disk[follower.file] = Gone
      BY <1>0, <1>6 DEF Settle, worldVars, tableVars, FollowerOK
    <2>2. /\ follower'.pc = "update" /\ follower'.file = f => follower'.data = disk[f]
          /\ follower'.pc = "remove" /\ follower'.file = f => disk[f] = Gone
      BY <1>3, <2>1 DEF Resting
    <2> QED
      BY <1>0, <1>2, <2>1, <2>2 DEF EventsOK
  <1>7. CASE AddOrUpdateClient
    <2> DEFINE g == follower.file
               new == follower.data
    <2>1. /\ UNCHANGED <<disk, fileEvents>> /\ g \in Files /\ new \in Contents
          /\ \/ UNCHANGED <<known, hashes>>
             \/ known' = known \cup {g} /\ hashes' = [hashes EXCEPT ![g] = new]
          /\ follower' = Resting \/ follower' = Dispatching(One(g, new))
      BY <1>0, <1>7 DEF AddOrUpdateClient, worldVars, tableVars, FollowerOK
    <2> HIDE DEF g, new
    <2>2. f \in known' <=> hashes'[f] \in Contents
      BY <1>0, <2>1 DEF EventsOK
    <2>3. follower'.pc \in {"idle", "dispatch"}
      BY <2>1 DEF Dispatching, Resting
    <2> QED
      BY <1>2, <2>1, <2>2, <2>3
  <1>8. CASE RemoveClient
    <2> DEFINE g == follower.file
    <2>1. /\ UNCHANGED <<disk, fileEvents>> /\ g \in Files
          /\ known' = known \ {g} /\ hashes' = [hashes EXCEPT ![g] = Gone]
          /\ follower' = Resting \/ follower' = Dispatching(One(g, Gone))
      BY <1>0, <1>8 DEF RemoveClient, worldVars, FollowerOK
    <2> HIDE DEF g
    <2>2. f \in known' <=> hashes'[f] \in Contents
      BY <1>0, <2>1, Constants DEF EventsOK
    <2>3. follower'.pc \in {"idle", "dispatch"}
      BY <2>1 DEF Dispatching, Resting
    <2> QED
      BY <1>2, <2>1, <2>2, <2>3
  <1>9. CASE FollowerDispatches
    <2>1. UNCHANGED <<disk, fileEvents, hashes, known>> /\ follower'.pc = "idle"
      BY <1>9 DEF FollowerDispatches, worldVars, tableVars, Resting
    <2> QED
      BY <1>0, <1>2, <2>1 DEF EventsOK
  <1>10. ASSUME NEW r \in Reloaders, Rescan(r)
         PROVE  EventsOK(f)'
    BY <1>0, <1>10 DEF Rescan, worldVars, EventsOK, Awaited
  <1>11. ASSUME NEW r \in Reloaders,
                \/ Snapshot(r) \/ ApplySnapshot(r) \/ ReloaderDispatches(r)
                \/ \E force \in BOOLEAN, affected \in {{}, Files} : ReloadConfig(r, force, affected)
         PROVE  EventsOK(f)'
    BY <1>1, <1>11
       DEF Snapshot, ApplySnapshot, ReloaderDispatches, ReloadConfig, worldVars, tableVars
  <1>12. CASE \/ \E c \in Channels :
                    SessionDispatches(c) \/ \E auth \in {SessionAuth, Gone} : Announce(c, auth)
              \/ \E g \in Files : Forget(g)
              \/ NextPendingBatch \/ Send \/ HandleAuthUpdate \/ UNCHANGED watcherVars
    BY <1>1, <1>12 DEF SessionDispatches, Announce, Forget, NextPendingBatch, Send,
       HandleAuthUpdate, watcherVars, worldVars, tableVars
  <1> QED
    BY <1>4, <1>5, <1>6, <1>7, <1>8, <1>9, <1>10, <1>11, <1>12
       DEF WatcherStep, FollowerStep, ReloaderStep

-----------------------------------------------------------------------------
(* A file no reload disturbed, under each step. *)

\* The follower's steps before it tells: its hash and its record move together.
LEMMA FollowerFile ==
    ASSUME WatcherTypeOK, NEW f \in Files, EventsOK(f), FileOK(f),
           Halfway # {} => ~Underway(f),
           TakeEvent \/ Settle \/ AddOrUpdateClient \/ RemoveClient,
           TakeEvent /\ f \in recent => Head(fileEvents) # [kind |-> "remove", file |-> f],
           \A r \in Reloaders : reloader'[r].pc = "apply" => reloader'[r].files[f] = hashes'[f]
    PROVE  FileOK(f)'
  <1> DEFINE E == [kind : {"write", "remove"}, file : Files]
  <1>0. /\ disk \in [Files -> Auths \cup {Partial}] /\ hashes \in [Files -> Auths \cup {Partial}]
        /\ current \in [Ids -> Auths] /\ told \in [Ids -> Auths] /\ f \in Ids
        /\ fileEvents \in Seq(E) /\ FollowerOK(follower)
    BY Constants DEF WatcherTypeOK, BusTyped
  <1>1. UNCHANGED <<disk, reloader, told>>
    BY DEF TakeEvent, Settle, AddOrUpdateClient, RemoveClient, worldVars, busVars
  <1>2. /\ \A pcs : At(pcs)' <=> At(pcs)
        /\ \A g : Reported(g)' <=> Reported(g)
    BY <1>1 DEF At, Reported
  <1>3. ASSUME \/ At({"rescan"}) \/ hashes'[f] = disk[f] \/ disk[f] = Partial
               \/ Awaited(f)' \/ InHands(f)',
               UNCHANGED <<current, hashes>>,
               Promised(f)' = Promised(f)
        PROVE  FileOK(f)'
    BY <1>1, <1>2, <1>3 DEF FileOK
  <1>4. ASSUME ReadFile(f), disk[f] # Gone
        PROVE  hashes[f] = disk[f] \/ disk[f] = Partial \/ InHands(f)'
    <2>1. disk[f] \in Auths \cup {Partial}
      BY <1>0
    <2> QED
      BY <1>4, <2>1, Constants DEF ReadFile, InHands, Readable, Auths
  <1>5. CASE TakeEvent
    <2> DEFINE e == Head(fileEvents)
    <2>1. /\ e \in E /\ fileEvents # <<>> /\ fileEvents' = Tail(fileEvents) /\ e = fileEvents[1]
          /\ UNCHANGED <<hashes, current>> /\ follower = Resting
          /\ \/ ReadFile(e.file) /\ e.kind = "write"
             \/ follower' = follower /\ e.kind = "remove" /\ e.file \in recent
             \/ follower' = [pc |-> "settle", file |-> e.file]
      <3>1. fileEvents # <<>> /\ fileEvents' = Tail(fileEvents) /\ follower = Resting
            /\ UNCHANGED <<hashes, current>>
        BY <1>5 DEF TakeEvent, tableVars
      <3>2. e \in E
        BY <1>0, <3>1, HeadTailProperties
      <3>3. fileEvents \in Seq(E) /\ fileEvents # <<>> => Head(fileEvents) = fileEvents[1]
        OBVIOUS
      <3>4. \/ ReadFile(e.file) /\ e.kind = "write"
            \/ follower' = follower /\ e.kind = "remove" /\ e.file \in recent
            \/ follower' = [pc |-> "settle", file |-> e.file]
        BY <1>5 DEF TakeEvent
      <3> QED
        BY <1>0, <3>1, <3>2, <3>3, <3>4
    <2>2. /\ Len(fileEvents) \in Nat \ {0} /\ DOMAIN fileEvents = 1 .. Len(fileEvents)
          /\ DOMAIN fileEvents' = 1 .. Len(fileEvents) - 1
          /\ \A n \in DOMAIN fileEvents' : fileEvents'[n] = fileEvents[n + 1]
      <3>1. /\ Tail(fileEvents) \in Seq(E) /\ Len(Tail(fileEvents)) = Len(fileEvents) - 1
            /\ \A n \in 1 .. Len(Tail(fileEvents)) : Tail(fileEvents)[n] = fileEvents[n + 1]
        BY <1>0, <2>1, HeadTailProperties
      <3> QED
        BY <1>0, <2>1, <3>1, LenProperties, EmptySeq
    <2> HIDE DEF e
    <2>3. \A m \in DOMAIN fileEvents \ {1} :
             m - 1 \in DOMAIN fileEvents' /\ fileEvents'[m - 1] = fileEvents[m]
      BY <2>2
    <2>4. Promised(f)' = Promised(f)
      BY <1>1, <2>1 DEF Promised, ReadFile, Resting
    <2>5. CASE e.file = f
      <3>1. ASSUME ~Awaited(f)' PROVE e.kind = "remove" <=> disk[f] = Gone
        <4>1. \A m \in DOMAIN fileEvents : m > 1 => fileEvents[m].file # f
          <5> SUFFICES ASSUME NEW m \in DOMAIN fileEvents, m > 1 PROVE fileEvents[m].file # f
            OBVIOUS
          <5>1. m # 1
            BY <2>2
          <5> QED
            BY <2>3, <3>1, <5>1 DEF Awaited
        <4>2. 1 \in DOMAIN fileEvents
          BY <2>2
        <4> QED
          BY <2>1, <2>5, <4>1, <4>2 DEF EventsOK
      <3>2. ASSUME follower' = follower /\ e.kind = "remove" /\ e.file \in recent PROVE FALSE
        <4>1. e = [kind |-> "remove", file |-> f]
          BY <2>1, <2>5, <3>2
        <4> QED
          BY <1>5, <2>5, <3>2, <4>1 DEF e
      <3>3. hashes[f] = disk[f] \/ disk[f] = Partial \/ Awaited(f)' \/ InHands(f)'
        <4>1. CASE ReadFile(e.file) /\ e.kind = "write"
          BY <1>4, <2>5, <3>1, <4>1
        <4>2. CASE follower' = [pc |-> "settle", file |-> e.file]
          BY <2>5, <4>2 DEF InHands
        <4> QED
          BY <2>1, <3>2, <4>1, <4>2
      <3> QED
        BY <1>1, <1>3, <2>1, <2>4, <3>3
    <2>6. CASE e.file # f
      <3>1. Awaited(f) => Awaited(f)'
        <4> SUFFICES ASSUME NEW m \in DOMAIN fileEvents, fileEvents[m].file = f PROVE Awaited(f)'
          BY DEF Awaited
        <4>1. m # 1
          BY <2>1, <2>6
        <4> QED
          BY <2>3, <4>1 DEF Awaited
      <3>2. ~InHands(f)
        BY <2>1 DEF InHands, Resting
      <3> QED
        BY <1>3, <2>1, <2>4, <3>1, <3>2 DEF FileOK
    <2> QED
      BY <2>5, <2>6
  <1>6. CASE Settle
    <2> DEFINE g == follower.file
    <2>1. /\ UNCHANGED <<fileEvents, hashes, current>> /\ follower.pc = "settle"
          /\ \/ ReadFile(g) /\ disk[g] # Gone
             \/ follower' = Resting /\ disk[g] = Gone /\ hashes[g] = Gone
             \/ follower' = [pc |-> "remove", file |-> g]
      BY <1>6 DEF Settle, worldVars, tableVars
    <2>2. Promised(f)' = Promised(f)
      BY <1>1, <2>1 DEF Promised, ReadFile, Resting
    <2>3. CASE g = f
      <3>1. hashes[f] = disk[f] \/ disk[f] = Partial \/ InHands(f)'
        BY <1>4, <2>1, <2>3 DEF InHands
      <3> QED
        BY <1>1, <1>3, <2>1, <2>2, <3>1
    <2>4. CASE g # f
      <3>1. ~InHands(f) /\ (Awaited(f)' <=> Awaited(f))
        BY <2>1, <2>4 DEF InHands, Awaited
      <3> QED
        BY <1>3, <2>1, <2>2, <3>1 DEF FileOK
    <2> QED
      BY <2>3, <2>4
  <1>7. CASE AddOrUpdateClient
    <2> DEFINE g == follower.file
               new == follower.data
    <2>1. /\ fileEvents' = fileEvents /\ follower.pc = "update"
          /\ g \in Files /\ g \in Ids /\ new \in Contents /\ new # Gone /\ new \in Auths
          /\ Promised(f) = told[f]
      BY <1>0, <1>7, Constants DEF AddOrUpdateClient, worldVars, FollowerOK, Promised, Auths
    <2>2. \/ hashes[g] = new /\ follower' = Resting /\ UNCHANGED <<hashes, current>>
          \/ /\ hashes[g] # new
             /\ hashes' = [hashes EXCEPT ![g] = new] /\ current' = [current EXCEPT ![g] = new]
             /\ follower' = IF current[g] = new THEN Resting
                            ELSE [pc |-> "dispatch", ups |-> One(g, new)]
      BY <1>7, <2>1, OneTyped DEF AddOrUpdateClient, tableVars
    <2>3. CASE g # f
      <3>1. ~InHands(f) /\ (Awaited(f)' <=> Awaited(f))
        BY <2>1, <2>3 DEF InHands, Awaited
      <3>2. hashes'[f] = hashes[f] /\ current'[f] = current[f]
        BY <1>0, <2>2, <2>3
      <3>3. Promised(f)' = told[f]
        <4>1. DOMAIN One(g, new) = {g}
          BY <2>1, OneTyped
        <4>2. CASE follower'.pc # "dispatch"
          BY <1>1, <4>2 DEF Promised
        <4>3. CASE follower' = [pc |-> "dispatch", ups |-> One(g, new)]
          BY <1>1, <2>3, <4>1, <4>3 DEF Promised
        <4>4. follower'.pc # "dispatch" \/ follower' = [pc |-> "dispatch", ups |-> One(g, new)]
          BY <2>1, <2>2 DEF Resting
        <4> QED
          BY <4>2, <4>3, <4>4
      <3> QED
        BY <1>1, <1>2, <2>1, <3>1, <3>2, <3>3 DEF FileOK
    <2>4. CASE g = f
      <3>1. Halfway = {}
        BY <2>1, <2>4 DEF Underway
      <3>2. ~Reported(f) /\ \A r \in Reloaders : reloader[r].pc \notin {"apply", "dispatch"}
        BY <3>1 DEF Halfway, Reported
      <3>3. new = disk[f] \/ Awaited(f)'
        BY <2>1, <2>4 DEF EventsOK, Awaited
      <3>4. CASE hashes[g] = new /\ follower' = Resting /\ UNCHANGED <<hashes, current>>
        <4>1. Promised(f)' = told[f]
          BY <1>1, <3>4 DEF Promised, Resting
        <4> QED
          BY <1>1, <1>3, <2>1, <2>4, <3>3, <3>4, <4>1
      <3>5. CASE /\ hashes[g] # new
                 /\ hashes' = [hashes EXCEPT ![g] = new] /\ current' = [current EXCEPT ![g] = new]
                 /\ follower' = IF current[g] = new THEN Resting
                                ELSE [pc |-> "dispatch", ups |-> One(g, new)]
        <4>1. hashes'[f] = new /\ current'[f] = new
          BY <1>0, <2>1, <2>4, <3>5
        <4>2. Promised(f)' = new
          <5>1. CASE current[f] = new
            <6>1. Promised(f)' = told[f]
              BY <1>1, <2>4, <3>5, <5>1 DEF Promised, Resting
            <6>2. told[f] = new
              BY <2>1, <2>4, <3>2, <3>5, <5>1 DEF FileOK, At
            <6> QED
              BY <6>1, <6>2
          <5>2. CASE current[f] # new
            <6>1. follower' = [pc |-> "dispatch", ups |-> One(g, new)]
              BY <2>4, <3>5, <5>2
            <6>2. DOMAIN One(g, new) = {g} /\ One(g, new)[g] = new
              BY <2>1, OneTyped
            <6> HIDE DEF g, new
            <6> QED
              BY <2>4, <6>1, <6>2 DEF Promised
          <5> QED
            BY <5>1, <5>2
        <4> QED
          BY <1>1, <1>2, <3>2, <3>3, <4>1, <4>2 DEF FileOK
      <3> QED
        BY <2>2, <2>4, <3>4, <3>5
    <2> QED
      BY <2>3, <2>4
  <1>8. CASE RemoveClient
    <2> DEFINE g == follower.file
    <2>1. /\ fileEvents' = fileEvents /\ follower.pc = "remove" /\ g \in Files /\ g \in Ids
          /\ Promised(f) = told[f] /\ Gone \in Auths
      BY <1>0, <1>8, Constants DEF RemoveClient, worldVars, FollowerOK, Promised
    <2>2. /\ hashes' = [hashes EXCEPT ![g] = Gone]
          /\ \/ /\ g \in known /\ current' = [current EXCEPT ![g] = Gone]
                /\ follower' = [pc |-> "dispatch", ups |-> One(g, Gone)]
             \/ /\ g \notin known /\ UNCHANGED current /\ follower' = Resting
      BY <1>8, <2>1, OneTyped DEF RemoveClient
    <2>3. CASE g # f
      <3>1. ~InHands(f) /\ (Awaited(f)' <=> Awaited(f))
        BY <2>1, <2>3 DEF InHands, Awaited
      <3>2. hashes'[f] = hashes[f] /\ current'[f] = current[f]
        BY <1>0, <2>2, <2>3
      <3>3. Promised(f)' = told[f]
        <4>1. DOMAIN One(g, Gone) = {g}
          BY <2>1, OneTyped
        <4>2. CASE follower'.pc # "dispatch"
          BY <1>1, <4>2 DEF Promised
        <4>3. CASE follower' = [pc |-> "dispatch", ups |-> One(g, Gone)]
          BY <1>1, <2>3, <4>1, <4>3 DEF Promised
        <4>4. follower'.pc # "dispatch" \/ follower' = [pc |-> "dispatch", ups |-> One(g, Gone)]
          BY <2>1, <2>2 DEF Resting
        <4> QED
          BY <4>2, <4>3, <4>4
      <3> QED
        BY <1>1, <1>2, <2>1, <3>1, <3>2, <3>3 DEF FileOK
    <2>4. CASE g = f
      <3>1. Halfway = {}
        BY <2>1, <2>4 DEF Underway
      <3>2. ~Reported(f) /\ \A r \in Reloaders : reloader[r].pc \notin {"apply", "dispatch"}
        BY <3>1 DEF Halfway, Reported
      <3>3. Gone = disk[f] \/ Awaited(f)'
        BY <2>1, <2>4 DEF EventsOK, Awaited
      <3>4. hashes'[f] = Gone
        BY <1>0, <2>2, <2>4
      <3>5. CASE f \in known
        <4>1. current' = [current EXCEPT ![f] = Gone]
              /\ follower' = [pc |-> "dispatch", ups |-> One(f, Gone)]
          BY <2>2, <2>4, <3>5
        <4>2. DOMAIN One(f, Gone) = {f} /\ One(f, Gone)[f] = Gone
          BY <1>0, <2>1, OneTyped
        <4>3. current'[f] = Gone
          BY <1>0, <4>1
        <4>4. Promised(f)' = Gone
          BY <4>1, <4>2 DEF Promised
        <4> QED
          BY <1>1, <1>2, <3>2, <3>3, <3>4, <4>3, <4>4 DEF FileOK
      <3>6. CASE f \notin known
        <4>1. /\ current'[f] = current[f] /\ Promised(f)' = told[f]
              /\ hashes[f] \notin Contents /\ told[f] \in Auths /\ current[f] \in Auths
          BY <1>0, <1>1, <2>2, <2>4, <3>6 DEF Promised, Resting, EventsOK
        <4>2. /\ told[f] = hashes[f] => told[f] = Gone
              /\ current[f] = hashes[f] => hashes[f] = Gone
          BY <4>1 DEF Auths
        <4> QED
          BY <1>1, <1>2, <2>1, <3>2, <3>3, <3>4, <4>1, <4>2 DEF FileOK
      <3> QED
        BY <3>5, <3>6
    <2> QED
      BY <2>3, <2>4
  <1> QED
    BY <1>5, <1>6, <1>7, <1>8

\* The one reload there is: its steps from the rescan to the updates it hands over.
LEMMA ReloaderFile ==
    ASSUME WatcherTypeOK, NEW f \in Files, FileOK(f), Halfway # {} => ~Underway(f),
           NEW r \in Reloaders,
           \/ ReloaderStep(r)
           \/ \E force \in BOOLEAN, affected \in {{}, Files} : ReloadConfig(r, force, affected),
           \A q \in Reloaders : reloader'[q].pc = "apply" => reloader'[q].files[f] = hashes'[f],
           \A q, s \in Reloaders : reloader'[q] # Resting /\ reloader'[s] # Resting => q = s
    PROVE  FileOK(f)'
  <1>0. /\ current \in [Ids -> Auths] /\ told \in [Ids -> Auths] /\ f \in Ids
        /\ DOMAIN reloader = Reloaders /\ Resting.pc = "idle"
        /\ DOMAIN hashes = Files
    BY Constants DEF WatcherTypeOK, BusTyped, Resting
  <1>1. /\ UNCHANGED <<disk, fileEvents, follower>>
        /\ \E x : reloader' = [reloader EXCEPT ![r] = x]
    BY DEF ReloaderStep, Rescan, Snapshot, ApplySnapshot, ReloaderDispatches, ReloadConfig,
           worldVars
  <1>2. \A s \in Reloaders \ {r} : reloader[s] = Resting /\ reloader'[s] = Resting
    <2>1. ASSUME NEW s \in Reloaders \ {r} PROVE reloader'[s] = reloader[s]
      BY <1>0, <1>1
    <2>2. CASE ReloaderStep(r)
      <3>1. reloader[r] # Resting
        BY <2>2
           DEF ReloaderStep, Rescan, Snapshot, ApplySnapshot, ReloaderDispatches, Resting
      <3> QED
        BY <2>1, <3>1 DEF FileOK
    <2>3. CASE \E force \in BOOLEAN, affected \in {{}, Files} : ReloadConfig(r, force, affected)
      <3>1. reloader'[r] # Resting
        BY <1>0, <2>3 DEF ReloadConfig, Resting
      <3> QED
        BY <2>1, <3>1
    <2> QED
      BY <2>2, <2>3
  <1>3. /\ \A pcs : "idle" \notin pcs => (At(pcs) <=> reloader[r].pc \in pcs)
        /\ \A pcs : "idle" \notin pcs => (At(pcs)' <=> reloader'[r].pc \in pcs)
        /\ Reported(f) <=> reloader[r].pc = "dispatch" /\ f \in DOMAIN reloader[r].ups
        /\ Reported(f)' <=> reloader'[r].pc = "dispatch" /\ f \in DOMAIN reloader'[r].ups
    BY <1>0, <1>2 DEF At, Reported
  <1>4. (Awaited(f)' <=> Awaited(f)) /\ (InHands(f)' <=> InHands(f))
    BY <1>1 DEF Awaited, InHands
  <1> DEFINE Found == hashes[f] = disk[f] \/ disk[f] = Partial \/ Awaited(f) \/ InHands(f)
             Going(x, h, c, p) ==
                 /\ x.pc = "rescan" => p = c
                 /\ x.pc \in {"snapshot", "apply"} => p = c \/ (p = h /\ c = Gone)
                 /\ x.pc = "apply" => x.files[f] = h
                 /\ x.pc \notin {"rescan", "snapshot", "apply"} =>
                       c = h /\ (p = h \/ (x.pc = "dispatch" /\ f \in DOMAIN x.ups))
                 /\ x.pc = "dispatch" /\ f \in DOMAIN x.ups => x.ups[f] = h
  <1>5. /\ reloader[r].pc = "rescan" \/ Found
        /\ Going(reloader[r], hashes[f], current[f], Promised(f))
    <2>1. /\ At({"rescan"}) <=> reloader[r].pc = "rescan"
          /\ At({"snapshot", "apply"}) <=> reloader[r].pc \in {"snapshot", "apply"}
          /\ At({"rescan", "snapshot", "apply"})
                <=> reloader[r].pc \in {"rescan", "snapshot", "apply"}
      BY <1>3
    <2>2. reloader[r].pc = "rescan" \/ Found
      BY <2>1 DEF FileOK
    <2>3. /\ reloader[r].pc = "rescan" => Promised(f) = current[f]
          /\ reloader[r].pc \in {"snapshot", "apply"} =>
                Promised(f) = current[f] \/ (Promised(f) = hashes[f] /\ current[f] = Gone)
          /\ reloader[r].pc = "apply" => reloader[r].files[f] = hashes[f]
      BY <2>1 DEF FileOK
    <2>4. reloader[r].pc \notin {"rescan", "snapshot", "apply"} =>
             /\ current[f] = hashes[f]
             /\ Promised(f) = hashes[f] \/ (reloader[r].pc = "dispatch" /\ f \in DOMAIN reloader[r].ups)
      BY <1>3, <2>1 DEF FileOK
    <2>5. reloader[r].pc = "dispatch" /\ f \in DOMAIN reloader[r].ups => reloader[r].ups[f] = hashes[f]
      BY DEF FileOK
    <2> QED
      BY <2>2, <2>3, <2>4, <2>5
  <1>6. ASSUME \/ hashes'[f] = disk[f] \/ disk[f] = Partial \/ Awaited(f) \/ InHands(f),
               Going(reloader'[r], hashes'[f], current'[f], Promised(f)')
        PROVE  FileOK(f)'
    BY <1>0, <1>1, <1>2, <1>3, <1>4, <1>6 DEF FileOK
  <1>7. ASSUME UNCHANGED <<told, follower>> PROVE Promised(f)' = Promised(f)
    BY <1>7 DEF Promised
  <1>8. CASE Rescan(r)
    <2>1. /\ reloader[r].pc = "rescan" /\ hashes' = disk /\ UNCHANGED <<current, told, follower>>
          /\ reloader'[r].pc = "snapshot"
      BY <1>0, <1>8 DEF Rescan, busVars
    <2>2. Going(reloader'[r], hashes'[f], current'[f], Promised(f)')
      BY <1>5, <1>7, <2>1
    <2> HIDE DEF Going, Found
    <2> QED
      BY <1>6, <2>1, <2>2
  <1>9. ASSUME NEW force \in BOOLEAN, NEW affected \in {{}, Files}, ReloadConfig(r, force, affected)
        PROVE  FileOK(f)'
    <2>1. /\ reloader[r] = Resting /\ UNCHANGED <<hashes, told, follower>>
          /\ current' = [i \in Ids |-> IF i \in affected THEN Gone ELSE current[i]]
          /\ reloader'[r].pc = "snapshot"
      BY <1>0, <1>9 DEF ReloadConfig, busVars
    <2>2. current'[f] = current[f] \/ current'[f] = Gone
      BY <1>0, <2>1
    <2>3. Going(reloader'[r], hashes'[f], current'[f], Promised(f)') /\ Found
      BY <1>0, <1>5, <1>7, <2>1, <2>2
    <2> HIDE DEF Going
    <2> QED
      BY <1>6, <2>1, <2>3
  <1>10. CASE Snapshot(r)
    <2>1. /\ reloader[r].pc = "snapshot" /\ UNCHANGED <<hashes, current, told, follower>>
          /\ reloader'[r].pc = "apply"
      BY <1>0, <1>10 DEF Snapshot, tableVars, busVars
    <2>2. Going(reloader'[r], hashes'[f], current'[f], Promised(f)') /\ Found
      BY <1>5, <1>7, <2>1
    <2> HIDE DEF Going
    <2> QED
      BY <1>6, <2>1, <2>2
  <1>11. CASE ApplySnapshot(r)
    <2> DEFINE new == [i \in Ids |-> IF i \in Files THEN reloader[r].files[i] ELSE runtime[i]]
               changed == {i \in Ids : \/ new[i] # current[i]
                                       \/ reloader[r].force /\ new[i] # Gone}
               ups == [i \in changed |-> new[i]]
    <2>1. /\ reloader[r].pc = "apply" /\ UNCHANGED <<hashes, told, follower>>
          /\ current' = new /\ reloader'[r] = Dispatching(ups)
      BY <1>0, <1>11 DEF ApplySnapshot, busVars
    <2>2. /\ new[f] = hashes[f] /\ (f \notin changed => new[f] = current[f])
          /\ DOMAIN ups = changed /\ (f \in changed => ups[f] = new[f])
      BY <1>0, <1>5, <2>1
    <2> HIDE DEF ups, changed, new
    <2>3. /\ DOMAIN ups = {} => reloader'[r].pc = "idle"
          /\ DOMAIN ups # {} => reloader'[r].pc = "dispatch" /\ reloader'[r].ups = ups
      BY <1>0, <2>1 DEF Dispatching
    <2>4. /\ Found /\ current'[f] = hashes[f]
          /\ Promised(f)' = current[f] \/ Promised(f)' = hashes[f]
      BY <1>5, <1>7, <2>1, <2>2
    <2>5. reloader'[r].pc \in {"idle", "dispatch"}
      BY <2>3
    <2>6. reloader'[r].pc = "dispatch" /\ f \in DOMAIN reloader'[r].ups
             => reloader'[r].ups[f] = hashes'[f]
      BY <2>1, <2>2, <2>3
    <2>7. Promised(f)' = hashes[f] \/ (reloader'[r].pc = "dispatch" /\ f \in DOMAIN reloader'[r].ups)
      BY <2>2, <2>3, <2>4
    <2>8. Going(reloader'[r], hashes'[f], current'[f], Promised(f)')
      BY <2>1, <2>4, <2>5, <2>6, <2>7
    <2> HIDE DEF Going
    <2> QED
      BY <1>6, <2>1, <2>4, <2>8
  <1>12. CASE ReloaderDispatches(r)
    <2> DEFINE ups == reloader[r].ups
    <2>1. /\ reloader[r].pc = "dispatch" /\ UNCHANGED <<hashes, current, follower>>
          /\ HandOver(ups) /\ reloader'[r].pc = "idle"
      BY <1>0, <1>12 DEF ReloaderDispatches, tableVars
    <2>2. told'[f] = IF f \in DOMAIN ups THEN ups[f] ELSE told[f]
      BY <1>0, <2>1 DEF HandOver
    <2>3. ~(follower.pc = "dispatch" /\ f \in DOMAIN follower.ups)
      BY <2>1 DEF Halfway, Underway
    <2>4. Promised(f) = told[f] /\ Promised(f)' = told'[f]
      BY <2>1, <2>3 DEF Promised
    <2>5. Found /\ current[f] = hashes[f] /\ Promised(f)' = hashes[f]
      BY <1>5, <2>1, <2>2, <2>4
    <2>6. Going(reloader'[r], hashes'[f], current'[f], Promised(f)')
      BY <2>1, <2>5
    <2> HIDE DEF Going
    <2> QED
      BY <1>6, <2>1, <2>5, <2>6
  <1> QED
    BY <1>8, <1>9, <1>10, <1>11, <1>12 DEF ReloaderStep

\* The steps of anybody else, and the follower as it tells.
LEMMA OtherFile ==
    ASSUME WatcherTypeOK, NEW f \in Files, FileOK(f),
           \/ FollowerDispatches
           \/ \E g \in Files : Forget(g) \/ \E c \in Contents \cup {Partial, Gone} : ChangeFile(g, c)
           \/ \E c \in Channels :
                 SessionDispatches(c) \/ \E auth \in {SessionAuth, Gone} : Announce(c, auth)
           \/ NextPendingBatch \/ Send \/ HandleAuthUpdate \/ UNCHANGED watcherVars
    PROVE  FileOK(f)'
  <1> DEFINE E == [kind : {"write", "remove"}, file : Files]
  <1>0. /\ current \in [Ids -> Auths] /\ told \in [Ids -> Auths] /\ f \in Ids
        /\ disk \in [Files -> Auths \cup {Partial}] /\ fileEvents \in Seq(E)
        /\ FollowerOK(follower)
    BY Constants DEF WatcherTypeOK, BusTyped
  <1>1. UNCHANGED <<reloader, hashes>>
    BY
       DEF FollowerDispatches, Forget, ChangeFile, SessionDispatches, Announce,
           NextPendingBatch,
           Send, HandleAuthUpdate, watcherVars, tableVars
  <1>2. ASSUME disk[f] = Partial \/ hashes[f] = disk[f] \/ Awaited(f) \/ InHands(f)
                  => disk'[f] = Partial \/ hashes[f] = disk'[f] \/ Awaited(f)' \/ InHands(f)',
               At({"rescan"}) \/ disk[f] = Partial \/ hashes[f] = disk[f] \/ Awaited(f) \/ InHands(f)
                  => \/ At({"rescan"}) \/ disk'[f] = Partial \/ hashes[f] = disk'[f]
                     \/ Awaited(f)' \/ InHands(f)',
               current'[f] = current[f], Promised(f)' = Promised(f)
        PROVE  FileOK(f)'
    BY <1>1, <1>2 DEF FileOK, At, Reported
  <1>3. ASSUME UNCHANGED <<disk, fileEvents, follower>>, current'[f] = current[f],
               told'[f] = told[f]
        PROVE  FileOK(f)'
    BY <1>2, <1>3 DEF Awaited, InHands, Promised
  <1>4. CASE FollowerDispatches
    <2>1. /\ UNCHANGED <<disk, fileEvents, current>> /\ follower.pc = "dispatch"
          /\ HandOver(follower.ups) /\ follower'.pc = "idle"
      BY <1>4 DEF FollowerDispatches, worldVars, tableVars, Resting
    <2>2. told'[f] = IF f \in DOMAIN follower.ups THEN follower.ups[f] ELSE told[f]
      BY <1>0, <2>1 DEF HandOver
    <2>3. Promised(f)' = Promised(f)
      BY <2>1, <2>2 DEF Promised
    <2>4. (Awaited(f)' <=> Awaited(f)) /\ (InHands(f)' <=> InHands(f))
      BY <2>1 DEF Awaited, InHands
    <2> QED
      BY <1>2, <2>1, <2>3, <2>4
  <1>5. ASSUME NEW g \in Files, NEW c \in Contents \cup {Partial, Gone}, ChangeFile(g, c)
        PROVE  FileOK(f)'
    <2> DEFINE e == [kind |-> IF c = Gone THEN "remove" ELSE "write", file |-> g]
               n1 == Len(fileEvents) + 1
    <2>1. /\ fileEvents' = Append(fileEvents, e) /\ disk' = [disk EXCEPT ![g] = c]
          /\ UNCHANGED <<follower, current, told>>
      BY <1>5 DEF ChangeFile, Event, tableVars, busVars
    <2>2. /\ DOMAIN fileEvents \subseteq DOMAIN fileEvents'
          /\ n1 \in DOMAIN fileEvents' /\ fileEvents'[n1] = e
          /\ \A n \in DOMAIN fileEvents : fileEvents'[n] = fileEvents[n]
      <3>1. e \in E
        OBVIOUS
      <3> HIDE DEF e
      <3>2. /\ Len(fileEvents) \in Nat /\ DOMAIN fileEvents = 1 .. Len(fileEvents)
            /\ DOMAIN fileEvents' = 1 .. n1 /\ fileEvents'[n1] = e
            /\ \A n \in DOMAIN fileEvents : fileEvents'[n] = fileEvents[n]
        BY <1>0, <2>1, <3>1
      <3> QED
        BY <3>2
    <2>3. g = f => Awaited(f)'
      <3>1. e.file = g
        OBVIOUS
      <3> HIDE DEF e, n1
      <3> QED
        BY <2>2, <3>1 DEF Awaited
    <2> HIDE DEF e, n1
    <2>4. (Awaited(f) => Awaited(f)') /\ (InHands(f)' <=> InHands(f))
      BY <2>1, <2>2 DEF Awaited, InHands
    <2>5. g # f => disk'[f] = disk[f]
      BY <1>0, <2>1
    <2>6. Promised(f)' = Promised(f)
      BY <2>1 DEF Promised
    <2> QED
      BY <1>2, <2>1, <2>3, <2>4, <2>5, <2>6
  <1>6. ASSUME NEW c \in Channels, SessionDispatches(c)
        PROVE  FileOK(f)'
    <2>1. f \notin DOMAIN session[c].ups
      <3>1. c \in Ids /\ c # f /\ runtime[c] \in Auths
            /\ session[c].ups = One(c, runtime[c])
        BY <1>6, Constants DEF SessionDispatches, WatcherTypeOK, Resting
      <3>2. DOMAIN One(c, runtime[c]) = {c}
        BY <3>1, OneTyped
      <3> QED
        BY <3>1, <3>2
    <2>2. UNCHANGED <<disk, fileEvents, follower, current>> /\ HandOver(session[c].ups)
      BY <1>6 DEF SessionDispatches, worldVars, tableVars
    <2>3. told'[f] = told[f]
      BY <1>0, <2>1, <2>2 DEF HandOver
    <2> QED
      BY <1>3, <2>2, <2>3
  <1>7. ASSUME NEW c \in Channels, NEW auth \in {SessionAuth, Gone}, Announce(c, auth)
        PROVE  FileOK(f)'
    <2>1. /\ UNCHANGED <<disk, fileEvents, follower, told>>
          /\ current' = [current EXCEPT ![c] = auth] /\ c # f
      BY <1>7, Constants DEF Announce, busVars
    <2>2. current'[f] = current[f]
      BY <1>0, <2>1
    <2> QED
      BY <1>3, <2>1, <2>2
  <1>8. CASE \/ \E g \in Files : Forget(g)
             \/ NextPendingBatch \/ Send \/ HandleAuthUpdate \/ UNCHANGED watcherVars
    <2>1. UNCHANGED <<disk, fileEvents, follower, current, told>>
      BY <1>8 DEF Forget, NextPendingBatch, Send, HandleAuthUpdate, watcherVars, worldVars,
         tableVars, busVars
    <2> QED
      BY <1>3, <2>1
  <1> QED
    BY <1>4, <1>5, <1>6, <1>7, <1>8

-----------------------------------------------------------------------------
(* A session no reload disturbed, under each step. *)

LEMMA SessionKept ==
    ASSUME WatcherTypeOK, WatcherStep \/ UNCHANGED watcherVars, NEW c \in Channels, SessionOK(c),
           c \notin disturbed' => c \notin disturbed /\ (WatcherStep /\ Halfway' # {} => ~Underway(c)')
    PROVE  SessionOK(c)'
  <1>0. /\ current \in [Ids -> Auths] /\ told \in [Ids -> Auths] /\ c \in Ids /\ c \notin Files
        /\ runtime \in [Channels -> Auths] /\ DOMAIN session = Channels
        /\ DOMAIN reloader = Reloaders /\ FollowerOK(follower) /\ Resting.pc = "idle"
    BY Constants DEF WatcherTypeOK, BusTyped, Resting
  <1> DEFINE Reports(r) == reloader[r].pc = "dispatch" /\ c \in DOMAIN reloader[r].ups
             ReportsNext(r) == reloader'[r].pc = "dispatch" /\ c \in DOMAIN reloader'[r].ups
  <1>1. /\ current[c] = runtime[c]
        /\ c \notin disturbed' =>
             /\ \A r \in Reloaders : Reports(r) => reloader[r].ups[c] = runtime[c]
             /\ told[c] = runtime[c] \/ session[c] # Resting \/ \E r \in Reloaders : Reports(r)
    BY DEF SessionOK, Reported
  <1>2. ASSUME /\ current'[c] = runtime'[c]
               /\ c \notin disturbed' =>
                    /\ \A r \in Reloaders : ReportsNext(r) => reloader'[r].ups[c] = runtime'[c]
                    /\ \/ told'[c] = runtime'[c] \/ session'[c] # Resting
                       \/ \E r \in Reloaders : ReportsNext(r)
        PROVE  SessionOK(c)'
    BY <1>2 DEF SessionOK, Reported
  <1>3. ASSUME UNCHANGED <<reloader, runtime, session>>,
               current'[c] = current[c], told'[c] = told[c]
        PROVE  SessionOK(c)'
    BY <1>1, <1>2, <1>3
  <1>4. ASSUME NEW r \in Reloaders, NEW x, reloader' = [reloader EXCEPT ![r] = x],
               reloader[r].pc # "dispatch", x.pc = "dispatch" /\ c \in DOMAIN x.ups => x.ups[c] = runtime[c],
               current'[c] = runtime[c], UNCHANGED <<runtime, session, told>>
        PROVE  SessionOK(c)'
    <2>1. /\ \A q \in Reloaders : q # r => reloader'[q] = reloader[q]
          /\ reloader'[r] = x
      BY <1>0, <1>4
    <2>2. \A q \in Reloaders : Reports(q) => ReportsNext(q)
      BY <1>4, <2>1
    <2>3. c \notin disturbed' =>
             \A q \in Reloaders : ReportsNext(q) => reloader'[q].ups[c] = runtime'[c]
      BY <1>1, <1>4, <2>1
    <2> HIDE DEF Reports, ReportsNext
    <2> QED
      BY <1>1, <1>2, <1>4, <2>2, <2>3
  <1>5. CASE TakeEvent \/ Settle
    BY <1>3, <1>5 DEF TakeEvent, Settle, tableVars, busVars
  <1>6. CASE AddOrUpdateClient \/ RemoveClient
    <2>1. follower.file \in Files
      BY <1>0, <1>6 DEF AddOrUpdateClient, RemoveClient, FollowerOK
    <2>2. \/ current' = current
          \/ \E a : current' = [current EXCEPT ![follower.file] = a]
      BY <1>6 DEF AddOrUpdateClient, RemoveClient, tableVars
    <2>3. current'[c] = current[c]
      BY <1>0, <2>1, <2>2
    <2>4. UNCHANGED <<reloader, runtime, session, told>>
      BY <1>6 DEF AddOrUpdateClient, RemoveClient, tableVars, busVars
    <2> QED
      BY <1>3, <2>3, <2>4
  <1>7. CASE FollowerDispatches
    <2>1. /\ HandOver(follower.ups) /\ DOMAIN follower.ups \subseteq Files
          /\ UNCHANGED <<reloader, runtime, session, current>>
      BY <1>0, <1>7 DEF FollowerDispatches, FollowerOK, tableVars
    <2>2. told'[c] = told[c]
      BY <1>0, <2>1 DEF HandOver
    <2> QED
      BY <1>3, <2>1, <2>2
  <1>8. ASSUME NEW r \in Reloaders, Rescan(r) \/ Snapshot(r)
        PROVE  SessionOK(c)'
    <2>1. \/ reloader' = [reloader EXCEPT ![r] = [pc |-> "snapshot", force |-> FALSE]]
          \/ reloader' = [reloader EXCEPT ![r] =
                [pc |-> "apply", force |-> reloader[r].force,
                 files |-> [f \in Files |-> Readable(disk[f])]]]
      BY <1>0, <1>8 DEF Rescan, Snapshot
    <2>2. reloader[r].pc # "dispatch" /\ UNCHANGED <<current, runtime, session, told>>
      BY <1>8 DEF Rescan, Snapshot, tableVars, busVars
    <2> QED
      BY <1>1, <1>4, <2>1, <2>2
  <1>9. ASSUME NEW r \in Reloaders, NEW force \in BOOLEAN, NEW affected \in {{}, Files},
               ReloadConfig(r, force, affected)
        PROVE  SessionOK(c)'
    <2>1. /\ reloader' = [reloader EXCEPT ![r] = [pc |-> "snapshot", force |-> force]]
          /\ reloader[r].pc # "dispatch" /\ UNCHANGED <<runtime, session, told>>
          /\ current' = [i \in Ids |-> IF i \in affected THEN Gone ELSE current[i]]
      BY <1>0, <1>9 DEF ReloadConfig, busVars
    <2>2. current'[c] = current[c]
      BY <1>0, <2>1
    <2> QED
      BY <1>1, <1>4, <2>1, <2>2
  <1>10. ASSUME NEW r \in Reloaders, ApplySnapshot(r)
         PROVE  SessionOK(c)'
    <2> DEFINE new == [i \in Ids |-> IF i \in Files THEN reloader[r].files[i] ELSE runtime[i]]
               changed == {i \in Ids : \/ new[i] # current[i]
                                       \/ reloader[r].force /\ new[i] # Gone}
               ups == [i \in changed |-> new[i]]
    <2>1. /\ reloader[r].pc = "apply" /\ UNCHANGED <<runtime, session, told>>
          /\ current' = new /\ reloader' = [reloader EXCEPT ![r] = Dispatching(ups)]
      BY <1>10 DEF ApplySnapshot, busVars
    <2>2. new[c] = runtime[c] /\ (c \in DOMAIN ups => ups[c] = new[c])
      BY <1>0
    <2> HIDE DEF ups, changed, new
    <2>3. LET x == Dispatching(ups) IN
          x.pc = "dispatch" /\ c \in DOMAIN x.ups => x.ups[c] = runtime[c]
      BY <2>2 DEF Dispatching, Resting
    <2> QED
      BY <1>4, <2>1, <2>2, <2>3
  <1>11. ASSUME NEW r \in Reloaders, ReloaderDispatches(r)
         PROVE  SessionOK(c)'
    <2>1. /\ reloader[r].pc = "dispatch" /\ UNCHANGED <<current, runtime, session>>
          /\ HandOver(reloader[r].ups) /\ reloader' = [reloader EXCEPT ![r] = Resting]
      BY <1>11 DEF ReloaderDispatches, tableVars
    <2>2. told'[c] = IF c \in DOMAIN reloader[r].ups THEN reloader[r].ups[c] ELSE told[c]
      BY <1>0, <2>1 DEF HandOver
    <2>3. /\ \A q \in Reloaders : q # r => reloader'[q] = reloader[q]
          /\ reloader'[r].pc = "idle"
      BY <1>0, <2>1
    <2>4. ASSUME c \notin disturbed'
          PROVE  \A q \in Reloaders : ReportsNext(q) => reloader'[q].ups[c] = runtime'[c]
      BY <1>1, <2>1, <2>3, <2>4
    <2>5. ASSUME c \notin disturbed'
          PROVE  \/ told'[c] = runtime'[c] \/ session'[c] # Resting
                 \/ \E q \in Reloaders : ReportsNext(q)
      <3>1. CASE Reports(r)
        BY <1>1, <2>1, <2>2, <2>5, <3>1
      <3>2. CASE ~Reports(r)
        <4>1. \A q \in Reloaders : Reports(q) => ReportsNext(q)
          BY <2>3, <3>2
        <4>2. told'[c] = told[c]
          BY <2>1, <2>2, <3>2
        <4> HIDE DEF Reports, ReportsNext
        <4> QED
          BY <1>1, <2>1, <2>5, <4>1, <4>2
      <3> QED
        BY <3>1, <3>2
    <2> HIDE DEF Reports, ReportsNext
    <2> QED
      BY <1>1, <1>2, <2>1, <2>4, <2>5
  <1>12. ASSUME NEW d \in Channels, SessionDispatches(d)
         PROVE  SessionOK(c)'
    <2>1. /\ UNCHANGED <<reloader, current, runtime>> /\ HandOver(session[d].ups)
          /\ session[d].ups = One(d, runtime[d]) /\ session' = [session EXCEPT ![d] = Resting]
      BY <1>12 DEF SessionDispatches, WatcherTypeOK, tableVars, Resting
    <2>2. d \in Ids /\ runtime[d] \in Auths
      BY <1>0, Constants
    <2>3. DOMAIN One(d, runtime[d]) = {d} /\ One(d, runtime[d])[d] = runtime[d]
      BY <2>2, OneTyped
    <2>4. told'[c] = IF c = d THEN runtime[d] ELSE told[c]
      BY <1>0, <2>1, <2>3 DEF HandOver
    <2>5. c # d => session'[c] = session[c]
      BY <1>0, <2>1
    <2> QED
      BY <1>1, <1>2, <2>1, <2>4, <2>5
  <1>13. ASSUME NEW d \in Channels, NEW auth \in {SessionAuth, Gone}, Announce(d, auth)
         PROVE  SessionOK(c)'
    <2>1. /\ UNCHANGED <<reloader, told>> /\ runtime' = [runtime EXCEPT ![d] = auth]
          /\ current' = [current EXCEPT ![d] = auth]
          /\ session' = [session EXCEPT ![d] = Dispatching(One(d, auth))]
      BY <1>13 DEF Announce, busVars
    <2>2. CASE d # c
      <3>1. runtime'[c] = runtime[c] /\ current'[c] = current[c] /\ session'[c] = session[c]
        BY <1>0, <2>1, <2>2
      <3> QED
        BY <1>1, <1>2, <2>1, <3>1
    <2>3. CASE d = c
      <3>1. runtime'[c] = auth /\ current'[c] = auth /\ session'[c] = Dispatching(One(c, auth))
        BY <1>0, <2>1, <2>3
      <3>2. session'[c] # Resting
        <4>1. auth \in Auths
          BY Constants DEF Auths
        <4>2. Dispatching(One(c, auth)) = [pc |-> "dispatch", ups |-> One(c, auth)]
          BY <1>0, <4>1, OneTyped
        <4> QED
          BY <3>1, <4>2 DEF Resting
      <3>3. Underway(c)'
        BY <3>2 DEF Underway
      <3>4. WatcherStep
        BY <1>13 DEF WatcherStep
      <3>5. c \notin disturbed' => \A r \in Reloaders : reloader'[r].pc # "dispatch"
        BY <3>3, <3>4 DEF Halfway
      <3> QED
        BY <1>2, <3>1, <3>2, <3>5
    <2> QED
      BY <2>2, <2>3
  <1>14. CASE \/ \E f \in Files : Forget(f) \/ \E a \in Contents \cup {Partial, Gone} : ChangeFile(f, a)
              \/ NextPendingBatch \/ Send \/ HandleAuthUpdate \/ UNCHANGED watcherVars
    <2>1. UNCHANGED <<reloader, runtime, session, current, told>>
      BY <1>14 DEF Forget, ChangeFile, NextPendingBatch, Send, HandleAuthUpdate, watcherVars,
         tableVars, busVars
    <2> QED
      BY <1>3, <2>1
  <1> QED
    BY <1>5, <1>6, <1>7, <1>8, <1>9, <1>10, <1>11, <1>12, <1>13, <1>14
       DEF WatcherStep, FollowerStep, ReloaderStep

-----------------------------------------------------------------------------
(* The service comes to know. *)

LEMMA ReloadsKept ==
    ASSUME WatcherTypeOK, ReloadsOK, [WatcherNext]_watcherVars
    PROVE  ReloadsOK'
  <1>1. CASE UNCHANGED watcherVars
    <2>1. \A i : Underway(i)' <=> Underway(i)
      BY <1>1 DEF watcherVars, worldVars, Underway
    <2>2. Halfway' = Halfway /\ disturbed' = disturbed
      BY <1>1 DEF watcherVars, Halfway
    <2>3. \A i \in Ids \ disturbed' : Halfway' # {} => ~Underway(i)'
      BY <2>1, <2>2 DEF ReloadsOK
    <2>4. \A c \in Channels : SessionOK(c)'
      <3> SUFFICES ASSUME NEW c \in Channels PROVE SessionOK(c)'
        OBVIOUS
      <3>1. SessionOK(c)
        BY DEF ReloadsOK
      <3>2. c \notin disturbed' => c \notin disturbed /\ (WatcherStep /\ Halfway' # {} => ~Underway(c)')
        BY <2>3, Constants, <2>2
      <3> QED
        BY <1>1, <3>1, <3>2, SessionKept
    <2>5. \A f \in Files : EventsOK(f)'
      BY <1>1, EventsKept DEF ReloadsOK
    <2>6. \A f \in Files \ disturbed' : FileOK(f)'
      BY <1>1, <2>2, OtherFile DEF ReloadsOK
    <2> QED
      BY <2>3, <2>4, <2>5, <2>6 DEF ReloadsOK
  <1>2. CASE WatcherNext
    <2>0. WatcherStep
      BY <1>2 DEF WatcherNext
    <2>1. \A i \in Ids \ disturbed' : Halfway' # {} => ~Underway(i)'
      BY <1>2, Undisturbed
    <2>2. \A c \in Channels : SessionOK(c)'
      <3> SUFFICES ASSUME NEW c \in Channels PROVE SessionOK(c)'
        OBVIOUS
      <3>1. SessionOK(c)
        BY DEF ReloadsOK
      <3>2. c \notin disturbed' => c \notin disturbed /\ (WatcherStep /\ Halfway' # {} => ~Underway(c)')
        BY <1>2, Constants, Undisturbed
      <3> QED
        BY <2>0, <3>1, <3>2, SessionKept
    <2>3. \A f \in Files : EventsOK(f)'
      BY <2>0, EventsKept DEF ReloadsOK
    <2>4. ASSUME NEW f \in Files \ disturbed' PROVE FileOK(f)'
      <3>1. f \in Ids /\ f \in Files /\ f \notin disturbed'
        BY Constants
      <3>2. /\ f \notin disturbed
            /\ \A r \in Reloaders :
                  reloader'[r].pc = "apply" => reloader'[r].files[f] = hashes'[f]
            /\ \A r, s \in Reloaders :
                  reloader'[r] # Resting /\ reloader'[s] # Resting => r = s
            /\ f \in recent /\ fileEvents # <<>> /\ fileEvents' = Tail(fileEvents)
                  => Head(fileEvents) # [kind |-> "remove", file |-> f]
        BY <1>2, <3>1, Undisturbed
      <3>3. FileOK(f) /\ EventsOK(f) /\ (Halfway # {} => ~Underway(f))
        BY <3>1, <3>2 DEF ReloadsOK
      <3>4. CASE TakeEvent \/ Settle \/ AddOrUpdateClient \/ RemoveClient
        <4>1. TakeEvent /\ f \in recent => Head(fileEvents) # [kind |-> "remove", file |-> f]
          BY <3>2 DEF TakeEvent
        <4> QED
          BY <3>1, <3>2, <3>3, <3>4, <4>1, FollowerFile
      <3>5. CASE \E r \in Reloaders :
                    \/ ReloaderStep(r)
                    \/ \E force \in BOOLEAN, affected \in {{}, Files} : ReloadConfig(r, force, affected)
        BY <3>1, <3>2, <3>3, <3>5, ReloaderFile
      <3>6. CASE \/ FollowerDispatches
                 \/ \E g \in Files :
                       Forget(g) \/ \E c \in Contents \cup {Partial, Gone} : ChangeFile(g, c)
                 \/ \E c \in Channels :
                       SessionDispatches(c) \/ \E auth \in {SessionAuth, Gone} : Announce(c, auth)
                 \/ NextPendingBatch \/ Send \/ HandleAuthUpdate
        BY <3>1, <3>3, <3>6, OtherFile
      <3> QED
        BY <2>0, <3>4, <3>5, <3>6 DEF WatcherStep, FollowerStep
    <2> QED
      BY <2>1, <2>2, <2>3, <2>4 DEF ReloadsOK
  <1> QED
    BY <1>1, <1>2

\* Where nothing is under way, the way to the service is the whole story.
LEMMA WhenQuiet ==
    ASSUME WatcherTypeOK, BusOK, ReloadsOK PROVE StaleOnlyByReload
  <1> SUFFICES ASSUME Quiet, NEW i \in Ids \ disturbed, Settled(i) PROVE view[i] = Wanted(i)
    BY DEF StaleOnlyByReload
  <1>1. /\ fileEvents = <<>> /\ follower = Resting /\ order = <<>> /\ batch = <<>> /\ queue = <<>>
        /\ \A r \in Reloaders : reloader[r] = Resting
        /\ \A c \in Channels : session[c] = Resting
        /\ Resting.pc = "idle"
    BY DEF Quiet, Resting
  <1>2. view[i] = told[i]
    <2>1. DOMAIN pending = {} /\ DOMAIN batch = {} /\ DOMAIN queue = {}
      BY <1>1, NoDomain DEF BusOK
    <2> QED
      BY <2>1 DEF BusOK, OnTheBus
  <1>3. \A r \in Reloaders : reloader[r].pc = "idle"
    BY <1>1
  <1>4. CASE i \in Channels
    BY <1>1, <1>2, <1>3, <1>4 DEF ReloadsOK, SessionOK, Reported, Wanted
  <1>5. CASE i \notin Channels
    <2>1. i \in Files /\ FileOK(i) /\ disk[i] # Partial
      BY <1>5 DEF ReloadsOK, Ids, Settled
    <2>2. ~Awaited(i) /\ ~InHands(i) /\ Promised(i) = told[i]
      BY <1>1, NoDomain DEF Awaited, InHands, Promised
    <2>3. ~At({"rescan"}) /\ ~At({"rescan", "snapshot", "apply"}) /\ ~Reported(i)
      BY <1>3 DEF At, Reported
    <2>4. hashes[i] = disk[i] /\ told[i] = hashes[i]
      BY <2>1, <2>2, <2>3 DEF FileOK
    <2> QED
      BY <1>2, <1>5, <2>4 DEF Wanted
  <1> QED
    BY <1>4, <1>5

\* The service has what is in the files and the sessions, when nothing is under way:
\* but for credentials whose change a reload met halfway, or two reloads, and for
\* a removal taken for the echo of another, no interleaving of the goroutines of
\* file events, reloads, sessions and dispatch (dispatchAuthUpdates, dispatchLoop,
\* consumeAuthUpdates) leaves it behind.
THEOREM WatcherKeepsUp == WatcherSpec => []StaleOnlyByReload
  <1> DEFINE Inv == WatcherTypeOK /\ BusOK /\ ReloadsOK
  <1>1. WatcherInit => Inv
    BY Started, ReloadsStarted
  <1>2. Inv /\ [WatcherNext]_watcherVars => Inv'
    BY WatcherTyped, ReloadsKept
  <1>3. Inv => StaleOnlyByReload
    BY WhenQuiet
  <1> QED
    BY <1>1, <1>2, <1>3, PTL DEF WatcherSpec

=============================================================================
