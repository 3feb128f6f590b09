-------------------------- MODULE SessionAffinity --------------------------
(***************************************************************************)
(* The selector that keeps a session on one credential.  A pick looks its  *)
(* session up in the cache, then what the conversation was called before   *)
(* the model first answered, and else asks the round-robin selector and    *)
(* binds the session to its answer.  Only the single look-ups are guarded: *)
(* picks run side by side under the manager's read lock.                   *)
(***************************************************************************)
EXTENDS Integers, FiniteSets, Functions

CONSTANTS Pickers,      \* requests being routed at once
          Auths,        \* credentials, numbers in the order of their ids
          Sessions, Sessionless,
          Prior,        \* extractSessionIDs: the fallback id of each, or Sessionless
          Layouts,      \* of credentials: [priority, parent (0: none)]
          CredKey,      \* the key of a group's cursor
          TTL, LastTime,
          CursorLimit,  \* from which a cursor starts again
          MaxPicks      \* bound: picks made

ASSUME AffinityAssumption ==
    /\ Auths \subseteq Nat /\ IsFiniteSet(Auths)
    /\ Sessionless \notin Sessions /\ Prior \in [Sessions -> Sessions \cup {Sessionless}]
    /\ Layouts \subseteq [priority : [Auths -> Nat], parent : [Auths -> Nat]]
    /\ \A l \in Layouts : \A a, b \in Auths :
          (l.parent[a] # 0 /\ l.parent[b] # 0) =>
              /\ CredKey[l.parent[a]] # "group"
              /\ CredKey[l.parent[a]] = CredKey[l.parent[b]] => l.parent[a] = l.parent[b]
    /\ TTL \in Nat /\ LastTime \in Nat /\ CursorLimit \in Nat \ {0} /\ MaxPicks \in Nat

VARIABLES layout,
          blocked,    \* credentials isAuthBlockedForModel turns down
          entries,    \* the cache: the credential of a session, and until when
          cursors,    \* by key: "flat", "group", or the parent of a group
          pick,       \* what each picker is doing
          now, picks

VARIABLES bound,      \* history: who served a session last, and when that was asked for
          moved,      \* history: sessions that were moved for no reason
          turns       \* history: what the selector gave since its list last changed

historyVars == <<bound, moved, turns>>
affinityVars == <<layout, blocked, entries, cursors, pick, now, picks, historyVars>>

NoPick == [pc |-> "idle", session |-> Sessionless, auths |-> {}, list |-> {}, at |-> 0,
         auth |-> 0, expected |-> {}]

-----------------------------------------------------------------------------
(* The selectors below. *)

\* getAvailableAuths: those of the best priority among the ones not blocked.
Available(auths) ==
    LET free == auths \ blocked
    IN  {a \in free : \A b \in free : layout.priority[b] <= layout.priority[a]}

\* The element with n smaller ones in the set.
Nth(S, n) == CHOOSE x \in S : Cardinality({y \in S : y < x}) = n

\* groupByVirtualParent: the parents, when every credential has one.
ParentsOf(list) == IF \E a \in list : layout.parent[a] = 0 THEN {}
                   ELSE {layout.parent[a] : a \in list}

Cursor(key) == IF key \notin DOMAIN cursors \/ cursors[key] >= CursorLimit THEN 0 ELSE cursors[key]

\* The credential is given and each cursor used moves on. What was counted so
\* far counts unless the list is another or a cursor starts again.
Gives(list, a, used) ==
    LET counts == turns.list = list /\ \A k \in DOMAIN used : used[k] # 0 \/ k \notin DOMAIN cursors
        count  == IF counts THEN turns.count ELSE [b \in list |-> 0]
    IN  /\ cursors' = [k \in DOMAIN used \cup DOMAIN cursors |->
                          IF k \in DOMAIN used THEN used[k] + 1 ELSE cursors[k]]
        /\ turns' = [list |-> list, count |-> [count EXCEPT ![a] = @ + 1]]

InTurn(list, a) ==
    LET i == Cursor("flat")
    IN  a = Nth(list, i % Cardinality(list)) /\ Gives(list, a, [k \in {"flat"} |-> i])

\* Mutant: the place in the group is taken from the cursor of the groups.
MutantGroupInTurn(list, a) ==
    LET parents == ParentsOf(list)
        starts  == IF "group" \in DOMAIN cursors THEN {Cursor("group")}
                   ELSE 0 .. Cardinality(parents) - 1
    IN  \E g \in starts :
           LET parent == Nth(parents, g % Cardinality(parents))
               group  == {b \in list : layout.parent[b] = parent}
           IN  a = Nth(group, g % Cardinality(group)) /\ Gives(list, a, [k \in {"group"} |-> g])

\* A group in turn, from a random one on, and in it a credential in turn.
GroupInTurn(list, a) ==
    LET parents == ParentsOf(list)
        starts  == IF "group" \in DOMAIN cursors THEN {Cursor("group")}
                   ELSE 0 .. Cardinality(parents) - 1
    IN  \E g \in starts :
           LET parent == Nth(parents, g % Cardinality(parents))
               group  == {b \in list : layout.parent[b] = parent}
               i      == Cursor(CredKey[parent])
           IN  /\ a = Nth(group, i % Cardinality(group))
               /\ Gives(list, a, [k \in {"group", CredKey[parent]} |-> IF k = "group" THEN g ELSE i])

\* RoundRobinSelector.Pick.
RoundRobin(list, a) == IF Cardinality(ParentsOf(list)) > 1 THEN GroupInTurn(list, a) ELSE InTurn(list, a)

-----------------------------------------------------------------------------
(* A pick of the affinity selector. *)

Live(k, t) == k \in DOMAIN entries /\ t <= entries[k].until
Without(k) == Restrict(entries, DOMAIN entries \ {k})
With(map, k, v) == [j \in DOMAIN map \cup {k} |-> IF j = k THEN v ELSE map[j]]
Bound(k, a, until) == With(entries, k, [auth |-> a, until |-> until])

\* Who has to serve the session, when it was served lately.
Owner(k, t) == IF k \in DOMAIN bound /\ t <= bound[k].at + TTL THEN {bound[k].auth} ELSE {}

\* The pick of p is answered with a; those of the same session that are still
\* running, or that look at it, need not know.
Answer(p, a) ==
    LET k == pick[p].session
    IN  /\ bound' = With(bound, k, [auth |-> a, at |-> pick[p].at])
        /\ moved' = IF pick[p].expected \subseteq {a} THEN moved ELSE moved \cup {k}
        /\ pick' = [q \in Pickers |->
                       IF q = p THEN NoPick
                       ELSE IF pick[q].session = k
                            THEN [pick[q] EXCEPT !.expected = {}] ELSE pick[q]]

\* tried and filtered credentials are not among those it is given.
StartPick(p, k, auths) ==
    /\ pick[p].pc = "idle" /\ picks < MaxPicks
    /\ Available(auths) # {}
    /\ pick' = [pick EXCEPT ![p] =
           [pc |-> IF k = Sessionless THEN "choose" ELSE "lookup", session |-> k, auths |-> auths,
            list |-> Available(auths), at |-> now, auth |-> 0,
            expected |-> Owner(k, now) \cap Available(auths)]]
    /\ picks' = picks + 1
    /\ UNCHANGED <<layout, blocked, entries, cursors, now, historyVars>>

\* Mutant: a hit does not put the end off.
MutantLookup(p) ==
    LET k == pick[p].session
    IN  /\ pick[p].pc = "lookup"
        /\ entries' = IF Live(k, now) THEN entries ELSE Without(k)
        /\ IF Live(k, now) /\ entries[k].auth \in pick[p].list
           THEN Answer(p, entries[k].auth)
           ELSE /\ pick' = [pick EXCEPT ![p].pc =
                      IF Live(k, now) \/ Prior[k] = Sessionless THEN "choose" ELSE "prior"]
                /\ UNCHANGED <<bound, moved>>
        /\ UNCHANGED <<layout, blocked, cursors, now, picks, turns>>

\* GetAndRefresh, and the answer when the credential is there to be used.
Lookup(p) ==
    LET k == pick[p].session
    IN  /\ pick[p].pc = "lookup"
        /\ entries' = IF Live(k, now) THEN Bound(k, entries[k].auth, now + TTL)
                      ELSE Without(k)
        /\ IF Live(k, now) /\ entries[k].auth \in pick[p].list
           THEN Answer(p, entries[k].auth)
           ELSE /\ pick' = [pick EXCEPT ![p].pc =
                      IF Live(k, now) \/ Prior[k] = Sessionless THEN "choose" ELSE "prior"]
                /\ UNCHANGED <<bound, moved>>
        /\ UNCHANGED <<layout, blocked, cursors, now, picks, turns>>

\* Get of the fallback id: read under the read lock, and not refreshed.
Inherit(p) ==
    LET prior == Prior[pick[p].session]
        owner == IF pick[p].session \in DOMAIN bound THEN {} ELSE Owner(prior, now)
        found == prior \in DOMAIN entries
    IN  /\ pick[p].pc = "prior"
        /\ pick' = [pick EXCEPT
              ![p].pc = IF found /\ ~Live(prior, now) THEN "drop"
                        ELSE IF found /\ entries[prior].auth \in pick[p].list THEN "bind"
                        ELSE "choose",
              ![p].auth = IF found THEN entries[prior].auth ELSE 0,
              ![p].expected = @ \cup (owner \cap pick[p].list)]
        /\ UNCHANGED <<layout, blocked, entries, cursors, now, picks, historyVars>>

\* The binding found to have ended is deleted, whichever is there by now.
Drop(p) ==
    LET prior == Prior[pick[p].session]
    IN  /\ pick[p].pc = "drop"
        /\ pick' = [q \in Pickers |->
               IF q = p THEN [pick[q] EXCEPT !.pc = "choose"]
               ELSE IF pick[q].session = prior THEN [pick[q] EXCEPT !.expected = {}] ELSE pick[q]]
        /\ entries' = Without(prior)
        /\ bound' = Restrict(bound, DOMAIN bound \ {prior})
        /\ UNCHANGED <<layout, blocked, cursors, now, picks, moved, turns>>

\* The round-robin selector looks at the credentials again.
Choose(p) ==
    /\ pick[p].pc = "choose"
    /\ \E a \in Auths :
          /\ RoundRobin(Available(pick[p].auths), a)
          /\ pick' = [pick EXCEPT ![p] = IF @.session = Sessionless THEN NoPick
                                          ELSE [@ EXCEPT !.pc = "bind", !.auth = a]]
    /\ UNCHANGED <<layout, blocked, entries, now, picks, bound, moved>>

Bind(p) ==
    /\ pick[p].pc = "bind"
    /\ entries' = Bound(pick[p].session, pick[p].auth, now + TTL)
    /\ Answer(p, pick[p].auth)
    /\ UNCHANGED <<layout, blocked, cursors, now, picks, turns>>

-----------------------------------------------------------------------------
(* Around it. *)

\* cleanup, every half TTL.
Cleanup ==
    /\ entries' = Restrict(entries, {k \in DOMAIN entries : Live(k, now)})
    /\ UNCHANGED <<layout, blocked, cursors, pick, now, picks, historyVars>>

\* A credential is blocked under the manager's mutex, when nobody picks; a
\* cooldown ends by itself.
Block(a) ==
    /\ \A p \in Pickers : pick[p].pc = "idle"
    /\ blocked' = blocked \cup {a}
    /\ UNCHANGED <<layout, entries, cursors, pick, now, picks, historyVars>>

Unblock(a) ==
    /\ blocked' = blocked \ {a}
    /\ UNCHANGED <<layout, entries, cursors, pick, now, picks, historyVars>>

\* A look-up that comes after the TTL may find nothing.
Tick ==
    /\ now < LastTime /\ now' = now + 1
    /\ pick' = [p \in Pickers |->
           IF pick[p].pc = "lookup" /\ Owner(pick[p].session, now + 1) = {}
           THEN [pick[p] EXCEPT !.expected = {}] ELSE pick[p]]
    /\ UNCHANGED <<layout, blocked, entries, cursors, picks, historyVars>>

-----------------------------------------------------------------------------
AffinityInit ==
    /\ layout \in Layouts /\ blocked = {}
    /\ entries = <<>> /\ cursors = <<>>
    /\ pick = [p \in Pickers |-> NoPick] /\ now = 0 /\ picks = 0
    /\ bound = <<>> /\ moved = {} /\ turns = [list |-> {}, count |-> <<>>]

AffinityNext ==
    \/ \E p \in Pickers :
          \/ \E k \in Sessions \cup {Sessionless}, auths \in SUBSET Auths : StartPick(p, k, auths)
          \/ Lookup(p) \/ Inherit(p) \/ Drop(p) \/ Choose(p) \/ Bind(p)
    \/ \E a \in Auths : Block(a) \/ Unblock(a)
    \/ Cleanup \/ Tick

AffinitySpec == AffinityInit /\ [][AffinityNext]_affinityVars

-----------------------------------------------------------------------------
(* Properties. *)

\* A session stays with its credential, and a conversation keeps the one its
\* first request had, for as long as the credential is on the list of the pick
\* and the session was used within the TTL.  Excused are picks of one session
\* that overlap, and a binding that another pick deletes as ended.
SessionStays == moved = {}

\* As long as the list does not change, the credentials get their turns evenly:
\* the groups among themselves, and in each group the credentials.
EvenFallback ==
    LET parents  == ParentsOf(turns.list)
        Turns(S) == Cardinality(UNION {{a} \X (1 .. turns.count[a]) : a \in S})
        Even(a, b) == turns.count[a] - turns.count[b] \in -1 .. 1
    IN  IF Cardinality(parents) > 1
        THEN LET Group(g) == {a \in turns.list : layout.parent[a] = g}
             IN  /\ \A g, h \in parents : Turns(Group(g)) - Turns(Group(h)) \in -1 .. 1
                 /\ \A g \in parents : \A a, b \in Group(g) : Even(a, b)
        ELSE \A a, b \in turns.list : Even(a, b)
=============================================================================
