---------------------------- MODULE AppStateProofs ----------------------------
(***************************************************************************)
(* What the client of AppState stores and decodes, for any indexes, tasks  *)
(* and modes: with and without transactions, with removals of its own,     *)
(* lost snapshots, refused patches, failures and other devices; and, in    *)
(* the second half, what the listeners of InitialSync know when everything *)
(* that was buffered is told, for any messages, handlers and earlier views.*)
(***************************************************************************)
EXTENDS AppState, InitialSync, SequenceTheorems, TLAPS

(***************************************************************************)
(* The facts about data.  A mac is minted for one index and one kind of    *)
(* mutation: ix says for which.                                            *)
(***************************************************************************)
Labels == [index : Indexes, op : {"set", "remove"}]
Flaws == {"removal", "lost", "refused"}

Hash(macs, map) ==
    [k \in macs |-> IF \E i \in Indexes : map[i] = k THEN 1 ELSE 0]

(* What a client may have at an index, and what the server may. *)
Marks(ix) ==
    {map \in [Indexes -> DOMAIN ix \cup {None}] :
        \A i \in Indexes : map[i] # None => ix[map[i]].index = i}
Maps(ix) ==
    {map \in Marks(ix) : \A i \in Indexes : map[i] # None => ix[map[i]].op = "set"}

(* The hash of a client's state tells its map, but for macs of removals,   *)
(* and without a removal of its own all of it.                             *)
Sums(macs, ix, s) ==
    \A k \in macs : (k \in DOMAIN ix => ix[k].op = "set") =>
        s.hash[k] = IF \E i \in Indexes : s.map[i] = k THEN 1 ELSE 0
States(macs, ix) ==
    {s \in [version : Nat \cup {Unset}, map : Marks(ix), hash : [macs -> Int],
            flaws : SUBSET Flaws] :
        /\ Sums(macs, ix, s)
        /\ "removal" \notin s.flaws => s.map \in Maps(ix) /\ s.hash = Hash(macs, s.map)
        /\ s.version = Unset => s.map = NoMap /\ s.flaws = {}}

Mutations(macs, ix) ==
    {m \in [index : Indexes, op : {"set", "remove"}, mac : DOMAIN ix, version : Nat,
            sum : [macs -> Int]] : ix[m.mac] = [index |-> m.index, op |-> m.op]}

Minted(ix, m) ==
    /\ m.mac \in DOMAIN ix /\ m.index \in Indexes /\ m.op \in {"set", "remove"}
    /\ ix[m.mac] = [index |-> m.index, op |-> m.op]

Requests(macs, ix) ==
    [from : Tasks \cup {Nobody}, kind : {"read"}, version : Nat]
    \cup [from : Tasks \cup {Nobody}, kind : {"push"}, version : Nat,
          patch : Mutations(macs, ix)]

(* The server's patches lead from each of its maps to the next. *)
Logged ==
    /\ Len(truth) = Len(log) + 1 /\ truth[1] = NoMap
    /\ \A n \in 1 .. Len(log) :
         log[n].version = n /\ truth[n + 1] = After(truth[n], log[n])

(* What is on its way may become of the log, or is of it. *)
PushesNext ==
    \A n \in 1 .. Len(wire) :
      wire[n].kind = "push" => wire[n].patch.version = wire[n].version + 1
HandsOfLog(t) ==
    \A n \in 1 .. Len(patches[t]) :
      /\ patches[t][n].version \in 1 .. Len(log)
      /\ patches[t][n] = log[patches[t][n].version]
UnderWay == PushesNext /\ \A t \in Tasks : HandsOfLog(t)

Places == {"idle", "read", "asked", "decode", "patching", "done", "tell", "encode", "pushed",
           "answered", "publish"}
Typed(ix) ==
    /\ mode \in Modes
    /\ made \in Macs \cup {0} /\ ix \in [1 .. made -> Labels]
    /\ truth \in Seq(Maps(ix)) /\ log \in Seq(Mutations(Macs, ix))
    /\ wire \in Seq(Requests(Macs, ix))
    /\ store \in States(Macs, ix) /\ pending \in States(Macs, ix)
    /\ acc \in [Tasks -> States(Macs, ix)] /\ snapshot \in [Tasks -> States(Macs, ix)]
    /\ patches \in [Tasks -> Seq(Mutations(Macs, ix))]
    /\ pc \in [Tasks -> Places]
    /\ min \in [Tasks -> Nat \cup {Unset}] /\ more \in [Tasks -> BOOLEAN]
    /\ tries \in [Tasks -> Nat]
    /\ fresh \in [Tasks -> [Indexes -> Nat]] /\ muts \in [Tasks -> [Indexes -> Nat]]

(* A task at work has a state.  A request that is waited for is its only   *)
(* one; the state of a patch without a flaw is what the server will have   *)
(* if it takes it.                                                         *)
AtWork(t) == pc[t] \in {"asked", "decode", "patching", "pushed", "answered"}
Asked(n, t) ==
    /\ \A k \in 1 .. Len(wire) : wire[k].from = t => k = n
    /\ wire[n].kind = "read" => pc[t] = "asked" /\ wire[n].version = acc[t].version
    /\ wire[n].kind = "push" =>
         /\ pc[t] = "pushed" /\ acc[t].version = wire[n].version + 1
         /\ acc[t].flaws = {} =>
              /\ wire[n].version <= Len(log)
              /\ acc[t].map = After(truth[wire[n].version + 1], wire[n].patch)
Awaited ==
    /\ \A t \in Tasks : AtWork(t) => acc[t].version # Unset
    /\ \A n \in 1 .. Len(wire) : \A t \in Tasks : wire[n].from = t => Asked(n, t)

(* A state without a flaw is the server's. *)
RightState(s) ==
    s.flaws = {} /\ s.version # Unset =>
        s.version <= Len(log) /\ s.map = truth[s.version + 1]

(* The patches in hand follow the snapshot in hand, or the state.          *)
Follows(t) ==
    /\ snapshot[t].version # Unset =>
         \A n \in 1 .. Len(patches[t]) : patches[t][n].version = snapshot[t].version + n
    /\ snapshot[t].version = Unset /\ acc[t].flaws = {} =>
         \A n \in 1 .. Len(patches[t]) : patches[t][n].version = acc[t].version + n
RightTask(t) ==
    /\ pc[t] \in {"asked", "decode", "patching", "answered"} => RightState(acc[t])
    /\ pc[t] \in {"decode", "patching"} =>
         /\ RightState(snapshot[t]) /\ snapshot[t].flaws = {}
         /\ Follows(t)
Right == RightState(store) /\ RightState(pending) /\ \A t \in Tasks : RightTask(t)

(* A patch just applied left the hash its author had. *)
VerifiedTask(t) ==
    pc[t] = "patching" =>
      /\ snapshot[t].version = Unset
      /\ acc[t].version \in 1 .. Len(log)
      /\ Verify => acc[t].hash = log[acc[t].version].sum
Verified == \A t \in Tasks : VerifiedTask(t)

General(ix) == Typed(ix) /\ Logged /\ UnderWay /\ Awaited /\ Right /\ Verified

-----------------------------------------------------------------------------
(***************************************************************************)
(* Lemmas about data.                                                      *)
(***************************************************************************)
LEMMA SumIsHash == \A map : Sum(map) = Hash(Macs, map)
  BY DEF Sum, Hash

LEMMA NoStateMinted ==
    ASSUME NEW macs, NEW ix
    PROVE  /\ NoMap \in Maps(ix) /\ Maps(ix) \subseteq Marks(ix)
           /\ Hash(macs, NoMap) \in [macs -> Int]
           /\ [version |-> Unset, map |-> NoMap, hash |-> Hash(macs, NoMap), flaws |-> {}]
                \in States(macs, ix)
           /\ [version |-> 0, map |-> NoMap, hash |-> Hash(macs, NoMap), flaws |-> {}]
                \in States(macs, ix)
<1>1. NoMap \in Maps(ix) /\ Maps(ix) \subseteq Marks(ix)
  BY DEF NoMap, Maps, Marks
<1>2. Hash(macs, NoMap) \in [macs -> Int]
  BY DEF Hash
<1>3. ASSUME NEW v \in Nat \cup {Unset}
      PROVE  [version |-> v, map |-> NoMap, hash |-> Hash(macs, NoMap), flaws |-> {}]
               \in States(macs, ix)
  <2> DEFINE s == [version |-> v, map |-> NoMap, hash |-> Hash(macs, NoMap), flaws |-> {}]
  <2>1. Sums(macs, ix, s)
    BY DEF Sums, Hash
  <2>2. s \in [version : Nat \cup {Unset}, map : Marks(ix), hash : [macs -> Int],
               flaws : SUBSET Flaws]
    BY <1>1, <1>2
  <2> QED
    BY <1>1, <2>1, <2>2 DEF States
<1> QED
  BY <1>1, <1>2, <1>3

(* A hash that is the server's tells the map, but for removals.            *)
LEMMA HashTells ==
    ASSUME NEW ix, NEW s, NEW map, NEW i,
           DOMAIN ix \subseteq Macs, None \notin DOMAIN ix, s \in States(Macs, ix),
           map \in Maps(ix), s.hash = Hash(Macs, map), i \in Indexes
    PROVE  s.map[i] = map[i] \/ ("removal" \in s.flaws /\ map[i] = None)
<1>1. /\ s.map \in Marks(ix) /\ Sums(Macs, ix, s)
      /\ "removal" \notin s.flaws => s.map \in Maps(ix)
  BY DEF States
<1>2. CASE map[i] # None
  <2>1. map[i] \in Macs /\ map[i] \in DOMAIN ix /\ ix[map[i]].op = "set" /\ ix[map[i]].index = i
    BY <1>2 DEF Maps, Marks
  <2>2. s.hash[map[i]] = 1
    BY <2>1 DEF Hash
  <2>3. \E j \in Indexes : s.map[j] = map[i]
    BY <1>1, <2>1, <2>2 DEF Sums
  <2> QED
    BY <1>1, <1>2, <2>1, <2>3 DEF Marks
<1>3. CASE map[i] = None /\ s.map[i] # None /\ "removal" \notin s.flaws
  <2>1. s.map \in Maps(ix)
    BY <1>1, <1>3
  <2>2. s.map[i] \in Macs /\ s.map[i] \in DOMAIN ix /\ ix[s.map[i]].op = "set"
        /\ ix[s.map[i]].index = i
    BY <1>3, <2>1 DEF Maps, Marks
  <2>3. s.hash[s.map[i]] = 1
    BY <1>1, <2>2 DEF Sums
  <2>4. \E j \in Indexes : map[j] = s.map[i]
    BY <2>2, <2>3 DEF Hash
  <2> QED
    BY <1>3, <2>2, <2>4 DEF Maps, Marks
<1> QED
  BY <1>2, <1>3

LEMMA MutationMinted ==
    ASSUME NEW macs, NEW ix, NEW m \in Mutations(macs, ix)
    PROVE  Minted(ix, m)
  BY DEF Mutations, Minted

LEMMA AfterMinted ==
    ASSUME NEW ix, NEW map, NEW m, Minted(ix, m)
    PROVE  /\ map \in Marks(ix) => After(map, m) \in Marks(ix)
           /\ map \in Maps(ix) => After(map, m) \in Maps(ix)
  BY DEF Minted, After, Maps, Marks

(* Mixing a mutation in keeps what the hash tells of a mac.                *)
LEMMA MixedSum ==
    ASSUME NEW ix, None \notin Macs, NEW s \in [version : Nat \cup {Unset}, map : Marks(ix),
             hash : [Macs -> Int], flaws : SUBSET Flaws],
           NEW m, Minted(ix, m), NEW version, NEW k \in Macs,
           s.hash[k] = IF \E i \in Indexes : s.map[i] = k THEN 1 ELSE 0
    PROVE  Mix(s, m, version).hash[k]
             = IF \E i \in Indexes : After(s.map, m)[i] = k THEN 1 ELSE 0
<1> DEFINE new == Mix(s, m, version).hash
<1>1. m.mac \in DOMAIN ix /\ ix[m.mac].index = m.index /\ m.index \in Indexes
      /\ m.op \in {"set", "remove"}
  BY DEF Minted
<1>2. new[k] = s.hash[k] + (IF m.op = "set" /\ k = m.mac THEN 1 ELSE 0)
                         - (IF k = s.map[m.index] THEN 1 ELSE 0)
  BY DEF Mix
<1>3. \A i \in Indexes : After(s.map, m)[i] =
        IF i = m.index THEN IF m.op = "set" THEN m.mac ELSE None ELSE s.map[i]
  BY DEF After, Marks
<1>4. \A i \in Indexes : s.map[i] = k => ix[k].index = i
  BY k # None DEF Marks
<1> HIDE DEF new
<1>5. CASE k = s.map[m.index]
  <2>1. s.hash[k] = 1
    BY <1>1, <1>5
  <2>2. (\E i \in Indexes : After(s.map, m)[i] = k) <=> m.op = "set" /\ k = m.mac
    BY <1>1, <1>3, <1>4, <1>5, k # None
  <2> QED
    BY <1>2, <1>5, <2>1, <2>2 DEF new
<1>6. CASE k # s.map[m.index] /\ m.op = "set" /\ k = m.mac
  <2>1. \A i \in Indexes : s.map[i] # k
    BY <1>1, <1>4, <1>6
  <2>2. \E i \in Indexes : After(s.map, m)[i] = k
    BY <1>1, <1>3, <1>6
  <2> QED
    BY <1>2, <1>6, <2>1, <2>2 DEF new
<1>7. CASE k # s.map[m.index] /\ ~(m.op = "set" /\ k = m.mac)
  <2>1. (\E i \in Indexes : After(s.map, m)[i] = k) <=> \E i \in Indexes : s.map[i] = k
    BY <1>1, <1>3, <1>7, k # None
  <2>2. new[k] = s.hash[k]
    BY <1>2, <1>7
  <2> QED
    BY <2>1, <2>2 DEF new
<1> QED
  BY <1>5, <1>6, <1>7

LEMMA MixMinted ==
    ASSUME NEW ix, None \notin Macs, NEW s \in States(Macs, ix), NEW m, Minted(ix, m),
           NEW version \in Nat
    PROVE  /\ Mix(s, m, version) \in States(Macs, ix)
           /\ Mix(s, m, version).version = version
           /\ Mix(s, m, version).map = After(s.map, m)
           /\ Mix(s, m, version).flaws = s.flaws
<1> DEFINE new == Mix(s, m, version)
<1>1. s \in [version : Nat \cup {Unset}, map : Marks(ix), hash : [Macs -> Int],
             flaws : SUBSET Flaws]
  BY DEF States
<1>2. new.version = version /\ new.map = After(s.map, m) /\ new.flaws = s.flaws
  BY DEF Mix, After
<1>3. \A k \in Macs :
        s.hash[k] = (IF \E i \in Indexes : s.map[i] = k THEN 1 ELSE 0)
          => new.hash[k] = (IF \E i \in Indexes : new.map[i] = k THEN 1 ELSE 0)
  BY <1>1, <1>2, MixedSum
<1>4. new = [version |-> new.version, map |-> new.map, hash |-> new.hash, flaws |-> new.flaws]
  BY DEF Mix
<1>5. new.hash \in [Macs -> Int]
  <2>1. \A k \in Macs : s.hash[k] + (IF m.op = "set" /\ k = m.mac THEN 1 ELSE 0)
                          - (IF k = s.map[m.index] THEN 1 ELSE 0) \in Int
    BY <1>1
  <2> QED
    BY <2>1 DEF Mix
<1> HIDE DEF new
<1>6. new.map \in Marks(ix)
  BY <1>1, <1>2, AfterMinted
<1>7. Sums(Macs, ix, new)
  BY <1>3 DEF States, Sums
<1>8. ASSUME "removal" \notin new.flaws
      PROVE  new.map \in Maps(ix) /\ new.hash = Hash(Macs, new.map)
  <2>1. s.map \in Maps(ix) /\ s.hash = Hash(Macs, s.map)
    BY <1>2, <1>8 DEF States
  <2>2. new.map \in Maps(ix)
    BY <1>2, <2>1, AfterMinted
  <2>3. \A k \in Macs : s.hash[k] = IF \E i \in Indexes : s.map[i] = k THEN 1 ELSE 0
    BY <2>1 DEF Hash
  <2>4. \A k \in Macs : new.hash[k] = Hash(Macs, new.map)[k]
    BY <1>3, <2>3 DEF Hash
  <2>5. Hash(Macs, new.map) \in [Macs -> Int]
    BY DEF Hash
  <2> QED
    BY <1>5, <2>2, <2>4, <2>5
<1>9. new \in [version : Nat \cup {Unset}, map : Marks(ix), hash : [Macs -> Int],
               flaws : SUBSET Flaws]
  BY <1>1, <1>2, <1>4, <1>5, <1>6
<1>10. new \in States(Macs, ix)
  BY <1>2, <1>7, <1>8, <1>9 DEF States, Unset
<1> QED
  BY <1>2, <1>10 DEF new

(* The client's own patch: without a flaw it sets, and is mixed in like    *)
(* any other.                                                              *)
LEMMA EncodedMinted ==
    ASSUME NEW ix, None \notin Macs, NEW s \in States(Macs, ix), s.version \in Nat,
           NEW m, Minted(ix, m)
    PROVE  /\ Encoded(s, m) \in States(Macs, ix)
           /\ Encoded(s, m).version = s.version + 1
           /\ Encoded(s, m).flaws = {} => s.flaws = {} /\ Encoded(s, m).map = After(s.map, m)
           /\ Encoded(s, m).map = [s.map EXCEPT ![m.index] = m.mac]
<1> DEFINE mix == Mix(s, m, s.version + 1)
           new == Encoded(s, m)
<1>1. /\ mix \in States(Macs, ix) /\ mix.version = s.version + 1
      /\ mix.map = After(s.map, m) /\ mix.flaws = s.flaws
  BY MixMinted
<1> HIDE DEF mix
<1>2. mix = [version |-> mix.version, map |-> mix.map, hash |-> mix.hash, flaws |-> mix.flaws]
  BY <1>1 DEF States
<1>3. new = [version |-> s.version + 1, map |-> [s.map EXCEPT ![m.index] = m.mac],
             hash |-> mix.hash,
             flaws |-> IF m.op = "remove" THEN s.flaws \cup {"removal"} ELSE s.flaws]
  <2>1. new = [mix EXCEPT !.map = [s.map EXCEPT ![m.index] = m.mac],
                          !.flaws = IF m.op = "remove" THEN @ \cup {"removal"} ELSE @]
    BY DEF Encoded, mix
  <2> QED
    BY <1>1, <1>2, <2>1
<1> HIDE DEF new
<1>4. m.op \in {"set", "remove"} /\ m.index \in Indexes /\ m.mac \in DOMAIN ix
      /\ ix[m.mac].index = m.index /\ ix[m.mac].op = m.op
  BY DEF Minted
<1>5. CASE m.op = "set"
  <2>1. After(s.map, m) = [s.map EXCEPT ![m.index] = m.mac]
    BY <1>5 DEF After
  <2>2. new = mix
    BY <1>1, <1>2, <1>3, <1>5, <2>1
  <2> QED
    BY <1>1, <2>1, <2>2 DEF new
<1>6. CASE m.op = "remove"
  <2>1. /\ new.version = s.version + 1 /\ new.map = [s.map EXCEPT ![m.index] = m.mac]
        /\ new.hash = mix.hash /\ new.flaws = s.flaws \cup {"removal"}
    BY <1>3, <1>6
  <2>2. s.map \in Marks(ix) /\ s.flaws \subseteq Flaws /\ mix.hash \in [Macs -> Int]
        /\ Sums(Macs, ix, mix)
    BY <1>1 DEF States
  <2>3. new.map \in Marks(ix)
    BY <1>4, <2>1, <2>2 DEF Marks
  <2>4. ASSUME NEW k \in Macs, k \in DOMAIN ix => ix[k].op = "set"
        PROVE  new.hash[k] = IF \E i \in Indexes : new.map[i] = k THEN 1 ELSE 0
    <3>1. mix.hash[k] = IF \E i \in Indexes : mix.map[i] = k THEN 1 ELSE 0
      BY <2>2, <2>4 DEF Sums
    <3>2. k # m.mac /\ k # None
      BY <1>4, <1>6, <2>4
    <3>3. \A i \in Indexes : mix.map[i] = IF i = m.index THEN None ELSE s.map[i]
      BY <1>1, <1>6, <2>2 DEF After, Marks
    <3>4. \A i \in Indexes : new.map[i] = IF i = m.index THEN m.mac ELSE s.map[i]
      BY <2>1, <2>2 DEF Marks
    <3>5. (\E i \in Indexes : mix.map[i] = k) <=> (\E i \in Indexes : new.map[i] = k)
      BY <3>2, <3>3, <3>4
    <3> QED
      BY <2>1, <3>1, <3>5
  <2>5. Sums(Macs, ix, new)
    BY <2>4 DEF Sums
  <2>6. new \in [version : Nat \cup {Unset}, map : Marks(ix), hash : [Macs -> Int],
                 flaws : SUBSET Flaws]
    <3>1. new = [version |-> new.version, map |-> new.map, hash |-> new.hash,
                 flaws |-> new.flaws]
      BY <1>3
    <3>2. new.flaws \subseteq Flaws
      BY <2>1, <2>2 DEF Flaws
    <3> QED
      BY <2>1, <2>2, <2>3, <3>1, <3>2
  <2>7. new.version # Unset /\ "removal" \in new.flaws
    BY <2>1 DEF Unset
  <2>8. new \in States(Macs, ix)
    BY <2>5, <2>6, <2>7 DEF States
  <2> QED
    BY <2>1, <2>7, <2>8 DEF new
<1> QED
  BY <1>4, <1>5, <1>6

(* A mac minted for an index leaves the others to theirs. *)
LEMMA MintedStays ==
    ASSUME NEW macs, NEW n \in Nat, NEW ix \in [1 .. n -> Labels],
           NEW iy \in [1 .. n + 1 -> Labels], \A k \in 1 .. n : iy[k] = ix[k]
    PROVE  /\ Maps(ix) \subseteq Maps(iy)
           /\ States(macs, ix) \subseteq States(macs, iy)
           /\ Mutations(macs, ix) \subseteq Mutations(macs, iy)
           /\ Requests(macs, ix) \subseteq Requests(macs, iy)
<1>1. Maps(ix) \subseteq Maps(iy) /\ Marks(ix) \subseteq Marks(iy)
  BY DEF Maps, Marks, None
<1>2. ASSUME NEW s, Sums(macs, ix, s)
      PROVE  Sums(macs, iy, s)
  BY <1>2 DEF Sums
<1>3. States(macs, ix) \subseteq States(macs, iy)
  BY <1>1, <1>2 DEF States
<1>4. Mutations(macs, ix) \subseteq Mutations(macs, iy)
  BY DEF Mutations
<1>5. Requests(macs, ix) \subseteq Requests(macs, iy)
  BY <1>4 DEF Requests
<1> QED
  BY <1>1, <1>3, <1>4, <1>5

LEMMA TypeFacts ==
    ASSUME NEW ix, Typed(ix)
    PROVE  /\ mode.maxMacs \in Nat /\ mode.page \in Nat \ {0}
           /\ mode.transactional \in BOOLEAN /\ mode.verify \in BOOLEAN
           /\ made \in Nat /\ made <= mode.maxMacs
           /\ DOMAIN ix = 1 .. made /\ DOMAIN ix \subseteq Macs
           /\ None \notin Macs /\ None \notin DOMAIN ix
           /\ NoState \in States(Macs, ix) /\ Fresh \in States(Macs, ix)
           /\ Stored \in States(Macs, ix) /\ Current \in States(Macs, ix)
           /\ NoState.version = Unset /\ Fresh.version = 0 /\ Fresh.map = NoMap
           /\ NoState.map = NoMap /\ NoState.flaws = {} /\ Fresh.flaws = {}
           /\ \A s \in States(Macs, ix) : s.version = Unset <=> s = NoState
           /\ \A s \in States(Macs, ix) : s.version \in Nat \cup {Unset}
           /\ Current.version \in Nat
<1>1. /\ mode.maxMacs \in Nat /\ mode.page \in Nat \ {0}
      /\ mode.transactional \in BOOLEAN /\ mode.verify \in BOOLEAN
  BY ModesAssumption DEF Typed
<1>2. /\ made \in Nat /\ made <= mode.maxMacs
      /\ DOMAIN ix = 1 .. made /\ DOMAIN ix \subseteq Macs
      /\ None \notin Macs /\ None \notin DOMAIN ix
  BY <1>1 DEF Typed, Macs, MaxMacs, None
<1>3. /\ NoState = [version |-> Unset, map |-> NoMap, hash |-> Hash(Macs, NoMap), flaws |-> {}]
      /\ Fresh = [version |-> 0, map |-> NoMap, hash |-> Hash(Macs, NoMap), flaws |-> {}]
  BY SumIsHash DEF NoState, Fresh
<1>4. NoState \in States(Macs, ix) /\ Fresh \in States(Macs, ix)
  BY <1>3, NoStateMinted
<1>5. \A s \in States(Macs, ix) : s.version = Unset <=> s = NoState
  <2> SUFFICES ASSUME NEW s \in States(Macs, ix), s.version = Unset
               PROVE  s = NoState
    BY <1>3
  <2>1. s = [version |-> s.version, map |-> s.map, hash |-> s.hash, flaws |-> s.flaws]
    BY DEF States
  <2>2. s.map = NoMap /\ s.flaws = {} /\ s.hash = Hash(Macs, s.map)
    BY DEF States
  <2> QED
    BY <1>3, <2>1, <2>2
<1>6. Stored \in States(Macs, ix) /\ Current \in States(Macs, ix)
  BY <1>4 DEF Typed, Stored, Current
<1>7. Current.version \in Nat
  <2>1. CASE Stored = NoState
    BY <1>3, <2>1 DEF Current
  <2>2. CASE Stored # NoState
    BY <1>5, <1>6, <2>2 DEF Current, States
  <2> QED
    BY <2>1, <2>2
<1>8. \A s \in States(Macs, ix) : s.version \in Nat \cup {Unset}
  BY DEF States
<1> QED
  BY <1>1, <1>2, <1>3, <1>4, <1>5, <1>6, <1>7, <1>8

LEMMA ModeStays ==
    ASSUME mode' = mode
    PROVE  /\ Macs' = Macs /\ Verify' = Verify
           /\ Transactional' = Transactional /\ NoState' = NoState /\ Fresh' = Fresh
<1>1. Macs' = Macs
  BY DEF Macs, MaxMacs
<1>2. Sum(NoMap)' = Sum(NoMap)
  BY <1>1 DEF Sum, NoMap
<1> QED
  BY <1>1, <1>2 DEF Transactional, Verify, NoState, Fresh, NoMap

-----------------------------------------------------------------------------
(***************************************************************************)
(* The stored and decoded states: one lemma per action.                    *)
(***************************************************************************)
(* What other tasks have stays theirs, and right.                          *)
OthersSame(t) ==
    \A u \in Tasks : u # t =>
      /\ pc'[u] = pc[u] /\ acc'[u] = acc[u]
      /\ snapshot'[u] = snapshot[u] /\ patches'[u] = patches[u]

LEMMA TaskSteps ==
    ASSUME NEW ix, General(ix), NEW t \in Tasks, UNCHANGED <<mode, log, truth, made>>,
           OthersSame(t), Typed(ix)', PushesNext', Awaited',
           RightState(store)', RightState(pending)',
           HandsOfLog(t)', RightTask(t)', VerifiedTask(t)'
    PROVE  General(ix)'
<1>1. Logged'
  BY DEF General, Logged
<1>2. \A u \in Tasks : u # t => HandsOfLog(u)'
  BY DEF General, UnderWay, HandsOfLog, OthersSame
<1>3. \A u \in Tasks : u # t => RightTask(u)'
  BY DEF General, Right, RightTask, RightState, Follows, OthersSame
<1>4. \A u \in Tasks : u # t => VerifiedTask(u)'
  BY ModeStays DEF General, Verified, VerifiedTask, OthersSame
<1> QED
  BY <1>1, <1>2, <1>3, <1>4 DEF General, UnderWay, Right, Verified

LEMMA StillAwaited ==
    ASSUME NEW ix, General(ix), NEW t \in Tasks, UNCHANGED <<wire, log, truth>>,
           OthersSame(t), pc[t] \notin {"asked", "pushed"},
           pc'[t] \in {"asked", "decode", "patching", "pushed", "answered"}
             => acc'[t].version # Unset
    PROVE  Awaited' /\ PushesNext'
<1>1. PushesNext'
  BY DEF General, UnderWay, PushesNext
<1>2. \A n \in 1 .. Len(wire) : wire[n].from # t
  <2> SUFFICES ASSUME NEW n \in 1 .. Len(wire), wire[n].from = t
               PROVE  FALSE
    OBVIOUS
  <2>1. Asked(n, t) /\ wire[n] \in Requests(Macs, ix)
    BY ElementOfSeq, LenProperties DEF General, Awaited, Typed
  <2> QED
    BY <2>1 DEF Asked, Requests
<1>3. \A u \in Tasks : u # t => (AtWork(u)' => acc'[u].version # Unset)
  BY DEF General, Awaited, AtWork, OthersSame
<1>4. ASSUME NEW n \in 1 .. Len(wire), NEW u \in Tasks, wire[n].from = u
      PROVE  Asked(n, u)'
  <2>1. u # t /\ Asked(n, u)
    BY <1>2, <1>4 DEF General, Awaited
  <2> QED
    BY <2>1 DEF Asked, OthersSame
<1> QED
  BY <1>1, <1>3, <1>4 DEF Awaited, AtWork

LEMMA EnterGeneral ==
    ASSUME NEW ix, General(ix), NEW t \in Tasks, Enter(t)
    PROVE  General(ix)'
<1> USE DEF General
<1>1. UNCHANGED <<mode, log, truth, made, wire, store, acc, snapshot, patches>>
  BY DEF Enter, Continue, server, answer
<1>2. Typed(ix)'
  BY <1>1, ModeStays, TypeFacts DEF Typed, Enter, Continue, answer, Places
<1>3. OthersSame(t) /\ pc[t] = "idle" /\ pc'[t] = "read"
  BY <1>1 DEF OthersSame, Enter, Continue, Typed
<1>4. Awaited' /\ PushesNext'
  BY <1>1, <1>3, StillAwaited
<1>5. RightState(store)' /\ RightState(pending)'
  <2>1. pending' = store \/ pending' = NoState
    BY DEF Enter
  <2> QED
    BY <1>1, <2>1, TypeFacts DEF Right, RightState
<1>6. HandsOfLog(t)' /\ RightTask(t)' /\ VerifiedTask(t)'
  BY <1>1, <1>3 DEF UnderWay, HandsOfLog, RightTask, VerifiedTask
<1> QED
  BY <1>1, <1>2, <1>3, <1>4, <1>5, <1>6, TaskSteps

(* What a task reads is right. *)
LEMMA CurrentRight ==
    ASSUME NEW ix, General(ix)
    PROVE  RightState(Stored) /\ RightState(Current)
<1>1. RightState(Stored)
  BY DEF General, Right, Stored
<1>2. RightState(Fresh)
  <2>1. Fresh.version = 0 /\ Fresh.map = NoMap
    BY TypeFacts DEF General
  <2>2. Len(log) \in Nat /\ truth[1] = NoMap
    BY LenProperties DEF General, Typed, Logged
  <2> QED
    BY <2>1, <2>2 DEF RightState
<1> QED
  BY <1>1, <1>2 DEF Current

LEMMA AskGeneral ==
    ASSUME NEW ix, General(ix), NEW t \in Tasks, Ask(t)
    PROVE  General(ix)'
<1> USE DEF General
<1> DEFINE request == [from |-> t, kind |-> "read", version |-> Current.version]
<1>1. UNCHANGED <<mode, log, truth, made, store, pending, snapshot, patches, more, tries, fresh,
                  muts>>
      /\ acc' = [acc EXCEPT ![t] = Current] /\ pc[t] = "read"
      /\ pc' = [pc EXCEPT ![t] = "asked"] /\ wire' = Append(wire, request)
  BY DEF Ask, server, answer
<1>2. request \in Requests(Macs, ix) /\ Current \in States(Macs, ix) /\ Current.version \in Nat
  BY TypeFacts DEF Requests
<1>3. /\ wire' \in Seq(Requests(Macs, ix)) /\ Len(wire') = Len(wire) + 1 /\ Len(wire) \in Nat
      /\ wire'[Len(wire) + 1] = request
      /\ \A n \in 1 .. Len(wire) : wire'[n] = wire[n]
  <2>1. wire \in Seq(Requests(Macs, ix))
    BY DEF Typed
  <2> HIDE DEF request
  <2> QED
    BY <1>1, <1>2, <2>1, AppendProperties, LenProperties
<1>4. Typed(ix)'
  <2>1. Stored.version \in Nat \cup {Unset}
    BY TypeFacts
  <2>2. min' \in [Tasks -> Nat \cup {Unset}]
    BY <2>1 DEF Ask, Typed
  <2>3. acc' \in [Tasks -> States(Macs, ix)] /\ pc' \in [Tasks -> Places]
    BY <1>1, <1>2 DEF Typed, Places
  <2> QED
    BY <1>1, <1>3, <2>2, <2>3, ModeStays DEF Typed
<1>5. /\ OthersSame(t) /\ acc'[t] = Current /\ pc'[t] = "asked"
      /\ \A u \in Tasks : u # t => pc'[u] = pc[u] /\ acc'[u] = acc[u]
  BY <1>1 DEF OthersSame, Typed
<1>6. \A n \in 1 .. Len(wire) : wire[n].from # t /\ wire[n] \in Requests(Macs, ix)
  <2> SUFFICES ASSUME NEW n \in 1 .. Len(wire)
               PROVE  wire[n].from # t /\ wire[n] \in Requests(Macs, ix)
    OBVIOUS
  <2>1. wire[n] \in Requests(Macs, ix)
    BY ElementOfSeq, LenProperties DEF Typed
  <2>2. wire[n].from = t => Asked(n, t)
    BY DEF Awaited
  <2> QED
    BY <1>1, <2>1, <2>2 DEF Asked, Requests
<1>7. PushesNext'
  BY <1>3, SMTT(30) DEF UnderWay, PushesNext
<1>8. Awaited'
  <2>1. \A u \in Tasks : AtWork(u)' => acc'[u].version # Unset
    BY <1>2, <1>5 DEF Awaited, AtWork, Unset
  <2>2. ASSUME NEW n \in 1 .. Len(wire'), NEW u \in Tasks, wire'[n].from = u
        PROVE  Asked(n, u)'
    <3>1. CASE n = Len(wire) + 1
      <4>1. wire'[n] = request /\ u = t
        BY <1>3, <2>2, <3>1
      <4>2. \A k \in 1 .. Len(wire') : wire'[k].from = t => k = n
        BY <1>3, <1>6, <3>1
      <4> QED
        BY <1>5, <4>1, <4>2 DEF Asked
    <3>2. CASE n \in 1 .. Len(wire)
      <4>1. wire'[n] = wire[n] /\ u # t /\ Asked(n, u)
        BY <1>3, <1>6, <2>2, <3>2 DEF Awaited
      <4>2. \A k \in 1 .. Len(wire') : wire'[k].from = u => k = n
        BY <1>3, <4>1 DEF Asked
      <4> QED
        BY <1>1, <1>5, <4>1, <4>2 DEF Asked
    <3> QED
      BY <1>3, <3>1, <3>2
  <2> QED
    BY <2>1, <2>2 DEF Awaited
<1>9. RightState(store)' /\ RightState(pending)'
  BY <1>1 DEF Right, RightState
<1>10. HandsOfLog(t)' /\ RightTask(t)' /\ VerifiedTask(t)'
  <2>1. HandsOfLog(t)'
    BY <1>1 DEF UnderWay, HandsOfLog
  <2>2. RightState(acc[t])'
    BY <1>1, <1>5, CurrentRight DEF RightState
  <2> QED
    BY <1>5, <2>1, <2>2 DEF RightTask, VerifiedTask
<1> QED
  BY <1>1, <1>4, <1>5, <1>7, <1>8, <1>9, <1>10, TaskSteps

LEMMA NewerTyped ==
    ASSUME NEW ix, Typed(ix), NEW s \in States(Macs, ix), NEW old \in [Indexes -> Nat]
    PROVE  Newer(s.map, old) \in [Indexes -> Nat] /\ s.map \in [Indexes -> Nat]
<1>1. DOMAIN ix \subseteq Nat /\ None \in Nat
  BY TypeFacts DEF None
<1>2. s.map \in Marks(ix)
  BY DEF States
<1>3. \A i \in Indexes : s.map[i] \in Nat
  BY <1>1, <1>2 DEF Marks
<1> QED
  BY <1>2, <1>3 DEF Newer, Marks

(* What the transaction or the store is given. *)
LEMMA WriteKeeps ==
    ASSUME NEW ix, General(ix), NEW s \in States(Macs, ix), RightState(s), Write(s),
           UNCHANGED <<log, truth>>
    PROVE  /\ store' \in States(Macs, ix) /\ pending' \in States(Macs, ix)
           /\ RightState(store)' /\ RightState(pending)'
<1>1. (store' = s /\ pending' = pending) \/ (store' = store /\ pending' = s)
  BY DEF Write
<1> QED
  BY <1>1 DEF General, Typed, Right, RightState

LEMMA TakeSnapshotGeneral ==
    ASSUME NEW ix, General(ix), NEW t \in Tasks, TakeSnapshot(t)
    PROVE  General(ix)'
<1> USE DEF General
<1>1. UNCHANGED <<mode, log, truth, made, wire, pc, min, patches, more, tries, fresh>>
      /\ acc' = [acc EXCEPT ![t] = snapshot[t]] /\ Write(snapshot[t])
      /\ snapshot' = [snapshot EXCEPT ![t] = NoState]
      /\ pc[t] = "decode" /\ snapshot[t] # NoState
  BY DEF TakeSnapshot, server
<1>2. /\ snapshot[t] \in States(Macs, ix) /\ snapshot[t].version \in Nat
      /\ RightState(snapshot[t]) /\ Follows(t) /\ snapshot[t].flaws = {}
  <2>1. snapshot[t] \in States(Macs, ix)
    BY DEF Typed
  <2> QED
    BY <1>1, <2>1, TypeFacts DEF Right, RightTask
<1>3. /\ store' \in States(Macs, ix) /\ pending' \in States(Macs, ix)
      /\ RightState(store)' /\ RightState(pending)'
  BY <1>1, <1>2, WriteKeeps
<1>4. muts' \in [Tasks -> [Indexes -> Nat]]
  <2>1. Newer(snapshot[t].map, muts[t]) \in [Indexes -> Nat]
    BY <1>2, NewerTyped DEF Typed
  <2> QED
    BY <2>1 DEF TakeSnapshot, Typed
<1>5. Typed(ix)'
  <2>1. acc' \in [Tasks -> States(Macs, ix)] /\ snapshot' \in [Tasks -> States(Macs, ix)]
    BY <1>1, <1>2, TypeFacts DEF Typed
  <2> QED
    BY <1>1, <1>3, <1>4, <2>1, ModeStays DEF Typed
<1>6. OthersSame(t) /\ acc'[t] = snapshot[t] /\ snapshot'[t] = NoState /\ pc'[t] = "decode"
  BY <1>1 DEF OthersSame, Typed
<1>7. Awaited' /\ PushesNext'
  BY <1>1, <1>2, <1>6, StillAwaited DEF Unset
<1>8. HandsOfLog(t)' /\ VerifiedTask(t)'
  BY <1>1, <1>6 DEF UnderWay, HandsOfLog, VerifiedTask
<1>9. RightTask(t)'
  <2>1. RightState(acc[t])'
    BY <1>1, <1>2, <1>6 DEF RightState
  <2>2. NoState.version = Unset /\ NoState.flaws = {}
    BY TypeFacts
  <2>3. RightState(snapshot[t])' /\ snapshot'[t].flaws = {}
    BY <1>6, <2>2 DEF RightState
  <2>4. Follows(t)'
    BY <1>1, <1>2, <1>6, <2>2 DEF Follows, Unset
  <2> QED
    BY <2>1, <2>3, <2>4 DEF RightTask
<1> QED
  BY <1>1, <1>3, <1>5, <1>6, <1>7, <1>8, <1>9, TaskSteps

LEMMA LoseSnapshotGeneral ==
    ASSUME NEW ix, General(ix), NEW t \in Tasks, LoseSnapshot(t)
    PROVE  General(ix)'
<1> USE DEF General
<1> DEFINE new == [acc[t] EXCEPT !.flaws = @ \cup {"lost"}]
<1>1. UNCHANGED <<mode, log, truth, made, wire, store, pending, pc, min, patches, more, tries,
                  fresh, muts>>
      /\ acc' = [acc EXCEPT ![t] = new]
      /\ snapshot' = [snapshot EXCEPT ![t] = NoState] /\ pc[t] = "decode"
  BY DEF LoseSnapshot, server
<1>2. acc[t] \in States(Macs, ix) /\ acc[t].version # Unset
  BY <1>1 DEF Typed, Awaited, AtWork
<1>3. /\ new.version = acc[t].version /\ new.map = acc[t].map /\ new.hash = acc[t].hash
      /\ new.flaws = acc[t].flaws \cup {"lost"} /\ new \in States(Macs, ix)
  <2>1. acc[t] = [version |-> acc[t].version, map |-> acc[t].map, hash |-> acc[t].hash,
                  flaws |-> acc[t].flaws]
    BY <1>2 DEF States
  <2>2. new = [version |-> acc[t].version, map |-> acc[t].map, hash |-> acc[t].hash,
               flaws |-> acc[t].flaws \cup {"lost"}]
    BY <2>1
  <2> HIDE DEF new
  <2> QED
    BY <1>2, <2>2 DEF States, Sums, Flaws
<1> HIDE DEF new
<1>4. Typed(ix)'
  <2>1. acc' \in [Tasks -> States(Macs, ix)] /\ snapshot' \in [Tasks -> States(Macs, ix)]
    BY <1>1, <1>3, TypeFacts DEF Typed
  <2> QED
    BY <1>1, <2>1, ModeStays DEF Typed
<1>5. OthersSame(t) /\ acc'[t] = new /\ snapshot'[t] = NoState /\ pc'[t] = "decode"
  BY <1>1 DEF OthersSame, Typed
<1>6. Awaited' /\ PushesNext'
  BY <1>1, <1>2, <1>3, <1>5, StillAwaited
<1>7. RightState(store)' /\ RightState(pending)'
  BY <1>1 DEF Right, RightState
<1>8. HandsOfLog(t)' /\ VerifiedTask(t)'
  BY <1>1, <1>5 DEF UnderWay, HandsOfLog, VerifiedTask
<1>9. RightTask(t)'
  <2>1. NoState.version = Unset /\ NoState.flaws = {} /\ new.flaws # {}
    BY <1>3, TypeFacts
  <2> QED
    BY <1>5, <2>1 DEF RightTask, RightState, Follows
<1> QED
  BY <1>1, <1>4, <1>5, <1>6, <1>7, <1>8, <1>9, TaskSteps

(* The patches in hand but the first one. *)
LEMMA HandsTail ==
    ASSUME NEW ix, General(ix), NEW t \in Tasks, patches[t] # <<>>
    PROVE  /\ Head(patches[t]) \in Mutations(Macs, ix) /\ Head(patches[t]) = patches[t][1]
           /\ Tail(patches[t]) \in Seq(Mutations(Macs, ix))
           /\ Len(patches[t]) \in Nat \ {0} /\ Len(Tail(patches[t])) = Len(patches[t]) - 1
           /\ \A n \in 1 .. Len(Tail(patches[t])) :
                n + 1 \in 1 .. Len(patches[t]) /\ Tail(patches[t])[n] = patches[t][n + 1]
<1>1. patches[t] \in Seq(Mutations(Macs, ix))
  BY DEF General, Typed
<1> QED
  BY <1>1, HeadTailProperties, EmptySeq

LEMMA TakePatchGeneral ==
    ASSUME NEW ix, General(ix), NEW t \in Tasks, TakePatch(t)
    PROVE  General(ix)'
<1> USE DEF General
<1> DEFINE patch == Head(patches[t])
           new == Mix(acc[t], patch, patch.version)
<1>1. UNCHANGED <<mode, log, truth, made, wire, store, pending, min, snapshot, more, tries, muts>>
      /\ pc[t] \in {"decode", "patching"} /\ snapshot[t] = NoState /\ patches[t] # <<>>
      /\ acc' = [acc EXCEPT ![t] = new] /\ patches' = [patches EXCEPT ![t] = Tail(@)]
      /\ pc' = [pc EXCEPT ![t] = "patching"]
  BY DEF TakePatch, Ready, server
<1>2. /\ patch \in Mutations(Macs, ix) /\ patch.version \in 1 .. Len(log)
      /\ patch = patches[t][1] /\ patch = log[patch.version] /\ 1 \in 1 .. Len(patches[t])
      /\ patch.mac \in Nat /\ patch.index \in Indexes
  <2>1. patch \in Mutations(Macs, ix) /\ patch = patches[t][1] /\ 1 \in 1 .. Len(patches[t])
    BY <1>1, HandsTail
  <2>2. patch.version \in 1 .. Len(log) /\ patch = log[patch.version]
    BY <2>1 DEF UnderWay, HandsOfLog
  <2>3. DOMAIN ix \subseteq Nat
    BY TypeFacts
  <2> HIDE DEF patch
  <2> QED
    BY <2>1, <2>2, <2>3 DEF Mutations
<1>3. acc[t] \in States(Macs, ix) /\ acc[t].version # Unset /\ Len(log) \in Nat
  BY <1>1, LenProperties DEF Typed, Awaited, AtWork
<1>4. /\ new \in States(Macs, ix) /\ new.version = patch.version
      /\ new.map = After(acc[t].map, patch) /\ new.flaws = acc[t].flaws
  <2>1. Minted(ix, patch) /\ patch.version \in Nat /\ None \notin Macs
    BY <1>2, MutationMinted, TypeFacts
  <2> HIDE DEF patch
  <2> QED
    BY <1>3, <2>1, MixMinted
<1>5. Verify => new.hash = patch.sum
  BY DEF TakePatch, Sound
<1> HIDE DEF new, patch
<1>6. Typed(ix)'
  <2>1. acc' \in [Tasks -> States(Macs, ix)] /\ pc' \in [Tasks -> Places]
    BY <1>1, <1>4 DEF Typed, Places
  <2>2. patches' \in [Tasks -> Seq(Mutations(Macs, ix))]
    BY <1>1, HandsTail DEF Typed
  <2>3. fresh' \in [Tasks -> [Indexes -> Nat]]
    <3>1. \/ fresh' = fresh
          \/ fresh' = [fresh EXCEPT ![t] = [fresh[t] EXCEPT ![patch.index] = patch.mac]]
      BY DEF TakePatch, patch
    <3>2. [fresh[t] EXCEPT ![patch.index] = patch.mac] \in [Indexes -> Nat]
      BY <1>2 DEF Typed
    <3> QED
      BY <3>1, <3>2 DEF Typed
  <2> QED
    BY <1>1, <2>1, <2>2, <2>3, ModeStays DEF Typed
<1>7. /\ OthersSame(t) /\ acc'[t] = new /\ snapshot'[t] = NoState /\ pc'[t] = "patching"
      /\ patches'[t] = Tail(patches[t])
  BY <1>1 DEF OthersSame, Typed
<1>8. Awaited' /\ PushesNext'
  <2>1. new.version # Unset
    BY <1>2, <1>3, <1>4 DEF Unset
  <2> QED
    BY <1>1, <1>7, <2>1, StillAwaited
<1>9. RightState(store)' /\ RightState(pending)'
  BY <1>1 DEF Right, RightState
<1>10. HandsOfLog(t)'
  BY <1>1, <1>7, HandsTail DEF UnderWay, HandsOfLog
<1>11. VerifiedTask(t)'
  <2>1. NoState.version = Unset
    BY TypeFacts
  <2> QED
    BY <1>1, <1>2, <1>4, <1>5, <1>7, <2>1, ModeStays DEF VerifiedTask
<1>12. RightTask(t)'
  <2>1. RightState(acc[t]) /\ Follows(t) /\ NoState.version = Unset /\ NoState.flaws = {}
    BY <1>1, TypeFacts DEF Right, RightTask
  <2>2. acc[t].flaws = {} => patch.version = acc[t].version + 1
    BY <1>1, <1>2, <2>1 DEF Follows
  <2>3. RightState(acc[t])'
    <3> SUFFICES ASSUME new.flaws = {}
                 PROVE  new.version <= Len(log) /\ new.map = truth[new.version + 1]
      BY <1>1, <1>7 DEF RightState
    <3>1. acc[t].map = truth[acc[t].version + 1] /\ new.version = acc[t].version + 1
      BY <1>3, <1>4, <2>1, <2>2 DEF RightState
    <3>2. truth[new.version + 1] = After(truth[new.version], log[new.version])
      BY <1>2, <1>4 DEF Logged
    <3> QED
      BY <1>2, <1>4, <3>1, <3>2
  <2>4. Follows(t)'
    <3>1. \A n \in 1 .. Len(Tail(patches[t])) :
            new.flaws = {} => Tail(patches[t])[n].version = new.version + n
      <4> SUFFICES ASSUME NEW n \in 1 .. Len(Tail(patches[t])), new.flaws = {}
                   PROVE  Tail(patches[t])[n].version = new.version + n
        OBVIOUS
      <4>1. n + 1 \in 1 .. Len(patches[t]) /\ Tail(patches[t])[n] = patches[t][n + 1]
        BY <1>1, HandsTail
      <4>2. patches[t][n + 1].version = acc[t].version + (n + 1)
        BY <1>1, <1>4, <2>1, <4>1 DEF Follows
      <4>3. new.version = acc[t].version + 1 /\ acc[t].version \in Nat /\ n \in Nat
        BY <1>3, <1>4, <2>2, TypeFacts
      <4> QED
        BY <4>1, <4>2, <4>3
    <3> QED
      BY <1>7, <2>1, <3>1 DEF Follows
  <2> QED
    BY <1>7, <2>1, <2>3, <2>4 DEF RightTask, RightState
<1> QED
  BY <1>1, <1>6, <1>7, <1>8, <1>9, <1>10, <1>11, <1>12, TaskSteps

LEMMA StorePatchesGeneral ==
    ASSUME NEW ix, General(ix), NEW t \in Tasks, StorePatches(t)
    PROVE  General(ix)'
<1> USE DEF General
<1>1. UNCHANGED <<mode, log, truth, made, wire, acc, snapshot, patches, more, tries>>
      /\ Write(acc[t]) /\ pc[t] = "patching" /\ pc' = [pc EXCEPT ![t] = "decode"]
  BY DEF StorePatches, server, answer
<1>2. acc[t] \in States(Macs, ix) /\ acc[t].version \in Nat \cup {Unset} /\ RightState(acc[t])
      /\ acc[t].version # Unset
  BY <1>1, TypeFacts DEF Typed, Right, RightTask, Awaited, AtWork
<1>3. /\ store' \in States(Macs, ix) /\ pending' \in States(Macs, ix)
      /\ RightState(store)' /\ RightState(pending)'
  BY <1>1, <1>2, WriteKeeps
<1>4. Typed(ix)'
  <2>1. muts' \in [Tasks -> [Indexes -> Nat]]
    BY DEF StorePatches, Newer, Typed
  <2>2. fresh' \in [Tasks -> [Indexes -> Nat]]
    BY DEF StorePatches, Typed, NoMap, None
  <2>3. min' \in [Tasks -> Nat \cup {Unset}] /\ pc' \in [Tasks -> Places]
    BY <1>1, <1>2 DEF StorePatches, Typed, Places
  <2> QED
    BY <1>1, <1>3, <2>1, <2>2, <2>3, ModeStays DEF Typed
<1>5. OthersSame(t) /\ pc'[t] = "decode"
  BY <1>1 DEF OthersSame, Typed
<1>6. Awaited' /\ PushesNext'
  BY <1>1, <1>2, <1>5, StillAwaited
<1>7. HandsOfLog(t)' /\ VerifiedTask(t)'
  BY <1>1, <1>5 DEF UnderWay, HandsOfLog, VerifiedTask
<1>8. RightTask(t)'
  BY <1>1, <1>5 DEF Right, RightTask, RightState, Follows
<1> QED
  BY <1>1, <1>3, <1>4, <1>5, <1>6, <1>7, <1>8, TaskSteps

LEMMA RoundGeneral ==
    ASSUME NEW ix, General(ix), NEW t \in Tasks, Round(t)
    PROVE  General(ix)'
<1> USE DEF General
<1>1. UNCHANGED <<mode, log, truth, made, wire, store, pending, acc, min, snapshot, patches, more,
                  tries, fresh, muts>>
      /\ pc[t] = "decode" /\ (pc' = [pc EXCEPT ![t] = "read"] \/ pc' = [pc EXCEPT ![t] = "done"])
  BY DEF Round, Continue, server, answer
<1>2. Typed(ix)'
  BY <1>1, ModeStays DEF Typed, Places
<1>3. OthersSame(t) /\ pc'[t] \in {"read", "done"}
  BY <1>1 DEF OthersSame, Typed
<1>4. Awaited' /\ PushesNext'
  BY <1>1, <1>3, StillAwaited
<1>5. RightState(store)' /\ RightState(pending)'
  BY <1>1 DEF Right, RightState
<1>6. HandsOfLog(t)' /\ RightTask(t)' /\ VerifiedTask(t)'
  BY <1>1, <1>3 DEF UnderWay, HandsOfLog, RightTask, VerifiedTask
<1> QED
  BY <1>1, <1>2, <1>3, <1>4, <1>5, <1>6, TaskSteps

LEMMA NoStateRight ==
    ASSUME NEW ix, Typed(ix)
    PROVE  NoState \in States(Macs, ix) /\ NoState.version = Unset /\ RightState(NoState)
  BY TypeFacts DEF RightState

LEMMA DecodeFailsGeneral ==
    ASSUME NEW ix, General(ix), NEW t \in Tasks, DecodeFails(t)
    PROVE  General(ix)'
<1> USE DEF General
<1>1. UNCHANGED <<mode, log, truth, made, wire, acc, min, more, muts>>
      /\ Write(NoState) /\ snapshot' = [snapshot EXCEPT ![t] = NoState]
      /\ patches' = [patches EXCEPT ![t] = <<>>] /\ pc[t] \in {"decode", "patching"}
      /\ (pc' = [pc EXCEPT ![t] = "read"] \/ pc' = [pc EXCEPT ![t] = "done"])
  BY DEF DecodeFails, Ready, server
<1>2. /\ store' \in States(Macs, ix) /\ pending' \in States(Macs, ix)
      /\ RightState(store)' /\ RightState(pending)'
  BY <1>1, NoStateRight, WriteKeeps
<1>3. Typed(ix)'
  <2>1. fresh' \in [Tasks -> [Indexes -> Nat]] /\ tries' \in [Tasks -> Nat]
    BY DEF DecodeFails, Typed, NoMap, None
  <2>2. patches' \in [Tasks -> Seq(Mutations(Macs, ix))]
    BY <1>1, EmptySeq DEF Typed
  <2>3. snapshot' \in [Tasks -> States(Macs, ix)] /\ pc' \in [Tasks -> Places]
    BY <1>1, TypeFacts DEF Typed, Places
  <2> QED
    BY <1>1, <1>2, <2>1, <2>2, <2>3, ModeStays DEF Typed
<1>4. OthersSame(t) /\ pc'[t] \in {"read", "done"} /\ patches'[t] = <<>>
  BY <1>1 DEF OthersSame, Typed
<1>5. Awaited' /\ PushesNext'
  BY <1>1, <1>4, StillAwaited
<1>6. HandsOfLog(t)' /\ RightTask(t)' /\ VerifiedTask(t)'
  BY <1>4 DEF HandsOfLog, RightTask, VerifiedTask
<1> QED
  BY <1>1, <1>2, <1>3, <1>4, <1>5, <1>6, TaskSteps

(* A task's end. *)
LEMMA Ended ==
    ASSUME NEW ix, General(ix), NEW t \in Tasks,
           NEW next \in {"idle", "tell", "publish"}, End(t, next)
    PROVE  /\ pc' \in [Tasks -> Places] /\ acc' \in [Tasks -> States(Macs, ix)]
           /\ snapshot' \in [Tasks -> States(Macs, ix)]
           /\ patches' \in [Tasks -> Seq(Mutations(Macs, ix))]
           /\ min' \in [Tasks -> Nat \cup {Unset}] /\ more' \in [Tasks -> BOOLEAN]
           /\ tries' \in [Tasks -> Nat] /\ fresh' \in [Tasks -> [Indexes -> Nat]]
           /\ OthersSame(t) /\ pc'[t] = next
           /\ HandsOfLog(t)' /\ RightTask(t)' /\ VerifiedTask(t)'
<1>1. NoMap \in [Indexes -> Nat]
  BY DEF NoMap, None
<1>2. NoState \in States(Macs, ix)
  BY TypeFacts DEF General
<1>3. <<>> \in Seq(Mutations(Macs, ix)) /\ Len(<<>>) = 0
  BY EmptySeq
<1>4. OthersSame(t) /\ pc'[t] = next /\ patches'[t] = <<>>
  BY DEF OthersSame, End, General, Typed
<1>5. HandsOfLog(t)' /\ RightTask(t)' /\ VerifiedTask(t)'
  BY <1>3, <1>4 DEF HandsOfLog, RightTask, VerifiedTask
<1>6. pc' \in [Tasks -> Places]
  BY DEF End, General, Typed, Places
<1> QED
  BY <1>1, <1>2, <1>3, <1>4, <1>5, <1>6 DEF End, General, Typed

LEMMA FinishGeneral ==
    ASSUME NEW ix, General(ix), NEW t \in Tasks, Finish(t)
    PROVE  General(ix)'
<1> USE DEF General
<1>1. UNCHANGED <<mode, log, truth, made, wire, muts>> /\ pc[t] = "done"
  BY DEF Finish, server
<1>2. PICK next \in {"idle", "tell", "publish"} : End(t, next)
  BY DEF Finish
<1>3. \/ store' = Stored /\ pending' = NoState
      \/ UNCHANGED <<store, pending>>
  BY DEF Finish, Commit
<1>4. /\ store' \in States(Macs, ix) /\ pending' \in States(Macs, ix)
  BY <1>3, TypeFacts DEF Typed
<1>5. RightState(store)' /\ RightState(pending)'
  BY <1>1, <1>3, CurrentRight, NoStateRight DEF Right, RightState
<1>6. Typed(ix)'
  BY <1>1, <1>2, <1>4, Ended, ModeStays DEF Typed
<1>7. Awaited' /\ PushesNext'
  BY <1>1, <1>2, Ended, StillAwaited
<1> QED
  BY <1>1, <1>2, <1>5, <1>6, <1>7, Ended, TaskSteps

LEMMA StorePushGeneral ==
    ASSUME NEW ix, General(ix), NEW t \in Tasks, StorePush(t)
    PROVE  General(ix)'
<1> USE DEF General
<1>1. UNCHANGED <<mode, log, truth, made, wire>> /\ pc[t] = "answered" /\ End(t, "publish")
      /\ store' = acc[t] /\ pending' = NoState
  BY DEF StorePush, Commit, server
<1>2. acc[t] \in States(Macs, ix) /\ RightState(acc[t])
  BY <1>1 DEF Typed, Right, RightTask
<1>3. RightState(store)' /\ RightState(pending)'
  BY <1>1, <1>2, NoStateRight DEF RightState
<1>4. muts' \in [Tasks -> [Indexes -> Nat]]
  BY DEF StorePush, Typed
<1>5. Typed(ix)'
  BY <1>1, <1>2, <1>4, NoStateRight, Ended, ModeStays DEF Typed
<1>6. Awaited' /\ PushesNext'
  BY <1>1, Ended, StillAwaited
<1> QED
  BY <1>1, <1>3, <1>5, <1>6, Ended, TaskSteps

LEMMA PublishGeneral ==
    ASSUME NEW ix, General(ix), NEW t \in Tasks, Publish(t) \/ StopPublishing(t)
    PROVE  General(ix)'
<1> USE DEF General
<1>1. UNCHANGED <<mode, log, truth, made, wire, store, pending, acc, min, snapshot, patches, more,
                  tries, fresh>>
      /\ pc[t] \in {"publish", "tell"}
      /\ \E next \in {"publish", "tell", "encode", "idle"} : pc' = [pc EXCEPT ![t] = next]
  BY DEF Publish, StopPublishing, Continue, server, answer
<1>2. muts' \in [Tasks -> [Indexes -> Nat]]
  <2>1. \/ muts' = muts \/ muts' = [muts EXCEPT ![t] = NoMap]
        \/ \E i \in Indexes : muts' = [muts EXCEPT ![t] = [muts[t] EXCEPT ![i] = None]]
    BY DEF Publish, StopPublishing
  <2>2. NoMap \in [Indexes -> Nat] /\ None \in Nat
    BY DEF NoMap, None
  <2>3. muts \in [Tasks -> [Indexes -> Nat]]
    BY DEF Typed
  <2>4. \E map \in [Indexes -> Nat] : muts' = [muts EXCEPT ![t] = map]
    <3>1. CASE muts' = muts \/ muts' = [muts EXCEPT ![t] = NoMap]
      BY <2>2, <2>3, <3>1
    <3>2. CASE \E i \in Indexes : muts' = [muts EXCEPT ![t] = [muts[t] EXCEPT ![i] = None]]
      <4>1. PICK i \in Indexes : muts' = [muts EXCEPT ![t] = [muts[t] EXCEPT ![i] = None]]
        BY <3>2
      <4>2. [muts[t] EXCEPT ![i] = None] \in [Indexes -> Nat]
        BY <2>2, <2>3
      <4> QED
        BY <4>1, <4>2
    <3> QED
      BY <2>1, <3>1, <3>2
  <2> QED
    BY <2>3, <2>4
<1>3. Typed(ix)'
  <2>1. pc' \in [Tasks -> Places]
    BY <1>1 DEF Typed, Places
  <2> QED
    BY <1>1, <1>2, <2>1, ModeStays DEF Typed
<1>4. OthersSame(t) /\ pc'[t] \in {"publish", "tell", "encode", "idle"}
  BY <1>1 DEF OthersSame, Typed
<1>5. Awaited' /\ PushesNext'
  BY <1>1, <1>4, StillAwaited
<1>6. RightState(store)' /\ RightState(pending)'
  BY <1>1 DEF Right, RightState
<1>7. HandsOfLog(t)' /\ RightTask(t)' /\ VerifiedTask(t)'
  BY <1>1, <1>4 DEF UnderWay, HandsOfLog, RightTask, VerifiedTask
<1> QED
  BY <1>1, <1>3, <1>4, <1>5, <1>6, <1>7, TaskSteps

(* Requests whose sender has given up. *)
LEMMA Disowned ==
    ASSUME NEW ix, Typed(ix), NEW t \in Tasks, Raise(t)
    PROVE  /\ wire' \in Seq(Requests(Macs, ix)) /\ Len(wire') = Len(wire)
           /\ \A n \in 1 .. Len(wire) :
                /\ wire'[n].from = IF wire[n].from = t THEN Nobody ELSE wire[n].from
                /\ wire'[n].kind = wire[n].kind /\ wire'[n].version = wire[n].version
                /\ wire[n].kind = "push" => wire'[n].patch = wire[n].patch
<1>1. /\ Len(wire) \in Nat /\ DOMAIN wire = 1 .. Len(wire)
      /\ \A n \in 1 .. Len(wire) : wire[n] \in Requests(Macs, ix)
  BY LenProperties, ElementOfSeq DEF Typed
<1>2. wire' = [n \in 1 .. Len(wire) |->
                 IF wire[n].from = t THEN [wire[n] EXCEPT !.from = Nobody] ELSE wire[n]]
  BY <1>1 DEF Raise
<1>3. ASSUME NEW n \in 1 .. Len(wire)
      PROVE  /\ wire'[n] \in Requests(Macs, ix)
             /\ wire'[n].from = IF wire[n].from = t THEN Nobody ELSE wire[n].from
             /\ wire'[n].kind = wire[n].kind /\ wire'[n].version = wire[n].version
             /\ wire[n].kind = "push" => wire'[n].patch = wire[n].patch
  <2>1. wire'[n] = IF wire[n].from = t THEN [wire[n] EXCEPT !.from = Nobody] ELSE wire[n]
    BY <1>2
  <2>2. wire[n] \in Requests(Macs, ix)
    BY <1>1
  <2> QED
    BY <2>1, <2>2 DEF Requests
<1>4. wire' \in Seq(Requests(Macs, ix))
  BY <1>1, <1>2, <1>3, SeqDef
<1>5. Len(wire') = Len(wire)
  <2>1. DOMAIN wire' = 1 .. Len(wire)
    BY <1>2
  <2>2. Len(wire') \in Nat /\ DOMAIN wire' = 1 .. Len(wire')
    BY <1>4, LenProperties
  <2> QED
    BY <1>1, <2>1, <2>2
<1> QED
  BY <1>3, <1>4, <1>5

LEMMA RaiseGeneral ==
    ASSUME NEW ix, General(ix), NEW t \in Tasks, Raise(t)
    PROVE  General(ix)'
<1> USE DEF General
<1>1. UNCHANGED <<mode, log, truth, made, store>> /\ pending' = NoState /\ End(t, "idle")
  BY DEF Raise, RollBack, server
<1>2. muts' \in [Tasks -> [Indexes -> Nat]]
  BY DEF Raise, Typed, NoMap, None
<1>3. Typed(ix)'
  BY <1>1, <1>2, Disowned, NoStateRight, Ended, ModeStays DEF Typed
<1>4. RightState(store)' /\ RightState(pending)'
  BY <1>1, NoStateRight DEF Right, RightState
<1>5. PushesNext'
  BY Disowned DEF UnderWay, PushesNext
<1>6. Awaited'
  <2>1. \A u \in Tasks : u # t => pc'[u] = pc[u] /\ acc'[u] = acc[u]
    BY <1>1, Ended DEF OthersSame
  <2>2. \A u \in Tasks : AtWork(u)' => acc'[u].version # Unset
    BY <1>1, <2>1, Ended DEF Awaited, AtWork
  <2>3. ASSUME NEW n \in 1 .. Len(wire'), NEW u \in Tasks, wire'[n].from = u
        PROVE  Asked(n, u)'
    <3>1. n \in 1 .. Len(wire) /\ Len(wire') = Len(wire) /\ u # Nobody
      BY Disowned, TasksAssumption DEF Tasks
    <3>2. u # t /\ wire[n].from = u
      BY <2>3, <3>1, Disowned
    <3>3. Asked(n, u)
      BY <3>1, <3>2 DEF Awaited
    <3>4. \A k \in 1 .. Len(wire') : wire'[k].from = u => k = n
      BY <3>1, <3>3, Disowned DEF Asked
    <3>5. /\ wire'[n].kind = wire[n].kind /\ wire'[n].version = wire[n].version
          /\ wire[n].kind = "push" => wire'[n].patch = wire[n].patch
      BY <3>1, Disowned
    <3> QED
      BY <1>1, <2>1, <3>2, <3>3, <3>4, <3>5 DEF Asked
  <2> QED
    BY <2>2, <2>3 DEF Awaited
<1> QED
  BY <1>1, <1>3, <1>4, <1>5, <1>6, Ended, TaskSteps

(* The request at the head of the queue. *)
LEMMA WireTail ==
    ASSUME NEW ix, General(ix), Server
    PROVE  /\ Head(wire) \in Requests(Macs, ix) /\ Head(wire) = wire[1] /\ 1 \in 1 .. Len(wire)
           /\ wire' \in Seq(Requests(Macs, ix))
           /\ Len(wire) \in Nat \ {0} /\ Len(wire') = Len(wire) - 1
           /\ \A n \in 1 .. Len(wire') : n + 1 \in 1 .. Len(wire) /\ wire'[n] = wire[n + 1]
           /\ PushesNext'
           /\ \A n \in 1 .. Len(wire'), t \in Tasks :
                wire'[n].from = t => t # Head(wire).from /\ Asked(n + 1, t)
<1>1. wire \in Seq(Requests(Macs, ix)) /\ wire # <<>> /\ wire' = Tail(wire)
  BY DEF General, Typed, Server
<1>2. /\ Head(wire) \in Requests(Macs, ix) /\ Head(wire) = wire[1] /\ 1 \in 1 .. Len(wire)
      /\ wire' \in Seq(Requests(Macs, ix))
      /\ Len(wire) \in Nat \ {0} /\ Len(wire') = Len(wire) - 1
      /\ \A n \in 1 .. Len(wire') : n + 1 \in 1 .. Len(wire) /\ wire'[n] = wire[n + 1]
  BY <1>1, HeadTailProperties, EmptySeq
<1>3. PushesNext'
  BY <1>2 DEF General, UnderWay, PushesNext
<1>4. ASSUME NEW n \in 1 .. Len(wire'), NEW t \in Tasks, wire'[n].from = t
      PROVE  t # Head(wire).from /\ Asked(n + 1, t)
  <2>1. n + 1 \in 1 .. Len(wire) /\ wire[n + 1].from = t /\ n + 1 # 1
    BY <1>2, <1>4
  <2>2. Asked(n + 1, t)
    BY <2>1 DEF General, Awaited
  <2> QED
    BY <1>2, <2>1, <2>2 DEF Asked
<1> QED
  BY <1>2, <1>3, <1>4

(* The answer to a read: the snapshot of at, if any, and the patches that  *)
(* follow it, up to last.                                                  *)
Answer(ix, t, version, at, last) ==
    /\ IF version > 0 \/ log = <<>> THEN at = version ELSE at \in 1 .. Len(log)
    /\ last <= Len(log) /\ (at <= Len(log) => at <= last)
    /\ snapshot' = [snapshot EXCEPT ![t] =
         IF at = version THEN NoState
         ELSE [version |-> at, map |-> truth[at + 1], hash |-> Hash(Macs, truth[at + 1]),
               flaws |-> {}]]
    /\ patches' = [patches EXCEPT ![t] = SubSeq(log, at + 1, last)]
    /\ more' = [more EXCEPT ![t] = last < Len(log)]
    /\ pc' = [pc EXCEPT ![t] = "decode"]
    /\ Len(SubSeq(log, at + 1, last)) = IF at < last THEN last - at ELSE 0
    /\ SubSeq(log, at + 1, last) \in Seq(Mutations(Macs, ix))
    /\ \A n \in 1 .. Len(SubSeq(log, at + 1, last)) :
         at + n \in 1 .. Len(log) /\ SubSeq(log, at + 1, last)[n] = log[at + n]

LEMMA Answered ==
    ASSUME NEW ix, General(ix), ServeRead, Head(wire).from # Nobody
    PROVE  /\ Head(wire).from \in Tasks /\ pc[Head(wire).from] = "asked"
           /\ Head(wire).version \in Nat
           /\ acc[Head(wire).from].version = Head(wire).version
           /\ \E at \in Nat, last \in Nat : Answer(ix, Head(wire).from, Head(wire).version, at, last)
           /\ UNCHANGED <<acc, min, tries, fresh, muts>>
<1> USE DEF General
<1> DEFINE t == Head(wire).from
           version == Head(wire).version
<1>1. t \in Tasks /\ version \in Nat /\ pc[t] = "asked" /\ acc[t].version = version
  <2>1. Head(wire) \in Requests(Macs, ix) /\ Head(wire) = wire[1] /\ 1 \in 1 .. Len(wire)
        /\ wire[1].kind = "read"
    BY WireTail DEF ServeRead
  <2>2. t \in Tasks /\ version \in Nat
    BY <2>1 DEF Requests
  <2>3. Asked(1, t)
    BY <2>1, <2>2 DEF Awaited
  <2> QED
    BY <2>1, <2>2, <2>3 DEF Asked
<1>2. Len(log) \in Nat /\ mode.page \in Nat \ {0}
  BY LenProperties, TypeFacts DEF Typed
<1>3. PICK at \in IF version > 0 \/ log = <<>> THEN {version} ELSE 1 .. Len(log) :
        LET last == Least(at + Page, Len(log)) IN
        /\ snapshot' = [snapshot EXCEPT ![t] =
             IF at = version THEN NoState
             ELSE [version |-> at, map |-> truth[at + 1], hash |-> Sum(truth[at + 1]),
                   flaws |-> {}]]
        /\ patches' = [patches EXCEPT ![t] = SubSeq(log, at + 1, last)]
        /\ more' = [more EXCEPT ![t] = last < Len(log)]
        /\ pc' = [pc EXCEPT ![t] = "decode"]
        /\ UNCHANGED <<acc, min, tries, fresh, muts>>
  BY DEF ServeRead
<1> DEFINE last == Least(at + Page, Len(log))
<1>4. at \in Nat
  BY <1>1, <1>3
<1>5. last \in Nat /\ last <= Len(log) /\ (at <= Len(log) => at <= last)
  BY <1>2, <1>4 DEF Least, Page
<1> HIDE DEF t, version, last
<1>6. \A n \in at + 1 .. last : n \in 1 .. Len(log) /\ log[n] \in Mutations(Macs, ix)
  BY <1>2, <1>4, <1>5, ElementOfSeq DEF Typed
<1>7. /\ SubSeq(log, at + 1, last) \in Seq(Mutations(Macs, ix))
      /\ Len(SubSeq(log, at + 1, last)) = IF at + 1 <= last THEN last - (at + 1) + 1 ELSE 0
      /\ \A n \in 1 .. last - (at + 1) + 1 : SubSeq(log, at + 1, last)[n] = log[at + 1 + n - 1]
  BY <1>4, <1>5, <1>6, SubSeqProperties
<1>8. \A n \in 1 .. Len(SubSeq(log, at + 1, last)) :
        at + n \in 1 .. Len(log) /\ SubSeq(log, at + 1, last)[n] = log[at + n]
  BY <1>2, <1>4, <1>5, <1>7
<1>9. Len(SubSeq(log, at + 1, last)) = IF at < last THEN last - at ELSE 0
  BY <1>4, <1>5, <1>7
<1>10. IF version > 0 \/ log = <<>> THEN at = version ELSE at \in 1 .. Len(log)
  BY <1>3
<1>11. Answer(ix, t, version, at, last)
  BY <1>3, <1>5, <1>7, <1>8, <1>9, <1>10, SumIsHash DEF Answer, last
<1> QED
  BY <1>1, <1>3, <1>4, <1>5, <1>11 DEF t, version

(* A map of the server as a state. *)
LEMMA ServersState ==
    ASSUME NEW ix, General(ix), NEW v \in 0 .. Len(log)
    PROVE  /\ truth[v + 1] \in Maps(ix)
           /\ [version |-> v, map |-> truth[v + 1], hash |-> Hash(Macs, truth[v + 1]),
               flaws |-> {}] \in States(Macs, ix)
<1> DEFINE s == [version |-> v, map |-> truth[v + 1], hash |-> Hash(Macs, truth[v + 1]),
                 flaws |-> {}]
<1>1. v + 1 \in 1 .. Len(truth) /\ v \in Nat
  BY LenProperties DEF General, Logged, Typed
<1>2. truth[v + 1] \in Maps(ix) /\ truth[v + 1] \in Marks(ix)
  BY <1>1, ElementOfSeq DEF General, Typed, Maps
<1>3. Hash(Macs, truth[v + 1]) \in [Macs -> Int]
  BY DEF Hash
<1>4. Sums(Macs, ix, s)
  BY DEF Sums, Hash
<1>5. s \in [version : Nat \cup {Unset}, map : Marks(ix), hash : [Macs -> Int],
             flaws : SUBSET Flaws]
  BY <1>1, <1>2, <1>3
<1> QED
  BY <1>1, <1>2, <1>4, <1>5 DEF States, Unset

(* The requests behind one that is served are still awaited, also if the   *)
(* log grows.                                                              *)
LogKept ==
    \A v \in Nat : v <= Len(log) => v <= Len(log') /\ truth'[v + 1] = truth[v + 1]

LEMMA RestAwaited ==
    ASSUME NEW ix, General(ix), Server, LogKept, NEW t, t = Head(wire).from,
           \A u \in Tasks : u # t => pc'[u] = pc[u] /\ acc'[u] = acc[u],
           t \in Tasks => acc'[t].version # Unset
    PROVE  Awaited'
<1>1. \A u \in Tasks : AtWork(u)' => acc'[u].version # Unset
  BY DEF General, Awaited, AtWork
<1>2. ASSUME NEW n \in 1 .. Len(wire'), NEW u \in Tasks, wire'[n].from = u
      PROVE  Asked(n, u)'
  <2>1. u # t /\ Asked(n + 1, u) /\ wire'[n] = wire[n + 1] /\ wire'[n] \in Requests(Macs, ix)
    BY <1>2, WireTail, ElementOfSeq
  <2>2. \A k \in 1 .. Len(wire') : wire'[k].from = u => k = n
    <3> SUFFICES ASSUME NEW k \in 1 .. Len(wire'), wire'[k].from = u
                 PROVE  k = n
      OBVIOUS
    <3>1. k + 1 \in 1 .. Len(wire) /\ wire[k + 1].from = u
      BY WireTail
    <3>2. k + 1 = n + 1
      BY <2>1, <3>1 DEF Asked
    <3> QED
      BY <3>2
  <2>3. wire'[n].version \in Nat
    BY <2>1 DEF Requests
  <2> QED
    BY <2>1, <2>2, <2>3 DEF Asked, LogKept, After
<1> QED
  BY <1>1, <1>2 DEF Awaited

LEMMA ServeReadGeneral ==
    ASSUME NEW ix, General(ix), ServeRead
    PROVE  General(ix)'
<1> USE DEF General
<1>1. UNCHANGED <<mode, log, truth, made, store, pending>> /\ Server
  BY DEF ServeRead, server
<1>t. PICK t : t = Head(wire).from
  OBVIOUS
<1>2. PushesNext' /\ wire' \in Seq(Requests(Macs, ix))
  BY <1>1, WireTail
<1>3. RightState(store)' /\ RightState(pending)'
  BY <1>1 DEF Right, RightState
<1>4. LogKept
  BY <1>1 DEF LogKept
<1>5. CASE t = Nobody
  <2>1. UNCHANGED <<pc, acc, min, snapshot, patches, more, tries, fresh, muts>>
    BY <1>5, <1>t DEF ServeRead, local, answer
  <2>2. t \notin Tasks
    BY <1>5, TasksAssumption DEF Tasks
  <2>3. Awaited'
    BY <1>1, <1>4, <1>t, <2>1, <2>2, RestAwaited
  <2>4. Typed(ix)'
    BY <1>1, <1>2, <2>1, ModeStays DEF Typed
  <2>5. Logged' /\ UnderWay'
    BY <1>1, <1>2, <2>1 DEF Logged, UnderWay, HandsOfLog
  <2>6. ASSUME NEW u \in Tasks
        PROVE  RightTask(u)' /\ VerifiedTask(u)'
    <3>1. RightTask(u) /\ VerifiedTask(u)
      BY DEF Right, Verified
    <3>2. RightTask(u)'
      BY <1>1, <2>1, <3>1 DEF RightTask, RightState, Follows
    <3>3. VerifiedTask(u)'
      BY <1>1, <2>1, <3>1, ModeStays DEF VerifiedTask
    <3> QED
      BY <3>2, <3>3
  <2> QED
    BY <1>3, <2>3, <2>4, <2>5, <2>6 DEF Right, Verified
<1>6. CASE t # Nobody
  <2>1. t \in Tasks /\ UNCHANGED <<acc, min, tries, fresh, muts>> /\ pc[t] = "asked"
        /\ Head(wire).version \in Nat /\ acc[t].version = Head(wire).version
    BY <1>6, <1>t, Answered
  <2>2. PICK at \in Nat, last \in Nat : Answer(ix, t, Head(wire).version, at, last)
    BY <1>6, <1>t, Answered
  <2>3. /\ pc' = [pc EXCEPT ![t] = "decode"] /\ patches' = [patches EXCEPT ![t] = patches'[t]]
        /\ snapshot' = [snapshot EXCEPT ![t] = snapshot'[t]]
        /\ patches'[t] \in Seq(Mutations(Macs, ix))
        /\ \A n \in 1 .. Len(patches'[t]) : at + n \in 1 .. Len(log) /\ patches'[t][n] = log[at + n]
    BY <2>1, <2>2 DEF Answer, Typed
  <2>4. OthersSame(t) /\ pc'[t] = "decode"
    BY <2>1, <2>3 DEF OthersSame, Typed
  <2>5. Awaited'
    <3>1. acc[t].version # Unset
      BY <2>1 DEF Awaited, AtWork
    <3> QED
      BY <1>1, <1>4, <1>t, <2>1, <2>4, <3>1, RestAwaited DEF OthersSame
  <2>6. /\ snapshot'[t] \in States(Macs, ix) /\ snapshot'[t].flaws = {}
        /\ RightState(snapshot[t])'
        /\ snapshot'[t].version = IF at = Head(wire).version THEN Unset ELSE at
    <3>1. CASE at = Head(wire).version
      <4>1. snapshot'[t] = NoState
        BY <2>1, <2>2, <3>1 DEF Answer, Typed
      <4> QED
        BY <3>1, <4>1, TypeFacts DEF RightState
    <3>2. CASE at # Head(wire).version
      <4>1. at \in 1 .. Len(log)
        BY <2>2, <3>2 DEF Answer
      <4>2. snapshot'[t] = [version |-> at, map |-> truth[at + 1],
                            hash |-> Hash(Macs, truth[at + 1]), flaws |-> {}]
        BY <2>1, <2>2, <3>2 DEF Answer, Typed
      <4>3. Len(log) \in Nat
        BY LenProperties DEF Typed
      <4>4. snapshot'[t] \in States(Macs, ix)
        BY <4>1, <4>2, <4>3, ServersState
      <4> QED
        BY <1>1, <3>2, <4>1, <4>2, <4>4 DEF RightState
    <3> QED
      BY <3>1, <3>2
  <2>7. Typed(ix)'
    <3>1. pc' \in [Tasks -> Places] /\ patches' \in [Tasks -> Seq(Mutations(Macs, ix))]
          /\ snapshot' \in [Tasks -> States(Macs, ix)]
      BY <2>1, <2>3, <2>6 DEF Typed, Places
    <3>2. \E b \in BOOLEAN : more' = [more EXCEPT ![t] = b]
      <4> WITNESS (last < Len(log)) \in BOOLEAN
      <4> QED
        BY <2>2 DEF Answer
    <3>3. more' \in [Tasks -> BOOLEAN]
      BY <3>2 DEF Typed
    <3> QED
      BY <1>1, <1>2, <2>1, <3>1, <3>3, ModeStays DEF Typed
  <2>8. \A n \in 1 .. Len(patches'[t]) :
          patches'[t][n].version = at + n /\ at + n \in 1 .. Len(log)
    BY <2>3 DEF Logged
  <2>9. HandsOfLog(t)'
    BY <1>1, <2>3, <2>8 DEF HandsOfLog
  <2>10. RightTask(t)'
    <3>1. RightState(acc[t])'
      BY <1>1, <2>1 DEF Right, RightTask, RightState
    <3>2. Follows(t)'
      BY <2>1, <2>6, <2>8 DEF Follows, Unset
    <3> QED
      BY <2>4, <2>6, <3>1, <3>2 DEF RightTask
  <2>11. VerifiedTask(t)'
    BY <2>4 DEF VerifiedTask
  <2> QED
    BY <1>1, <1>2, <1>3, <2>1, <2>4, <2>5, <2>7, <2>9, <2>10, <2>11, TaskSteps
<1> QED
  BY <1>5, <1>6

(* The next mac is minted for an index and a kind of mutation. *)
Minting(ix, i, op) ==
    [k \in 1 .. made + 1 |-> IF k = made + 1 THEN [index |-> i, op |-> op] ELSE ix[k]]
LEMMA MintingTyped ==
    ASSUME NEW ix, Typed(ix), made < MaxMacs, NEW i \in Indexes, NEW op \in {"set", "remove"},
           NEW iy, iy = Minting(ix, i, op)
    PROVE  /\ iy \in [1 .. made + 1 -> Labels] /\ iy[made + 1] = [index |-> i, op |-> op]
           /\ made + 1 \in Macs /\ DOMAIN iy \subseteq Macs /\ None \notin DOMAIN iy
           /\ None \notin Macs /\ made + 1 \in Nat
           /\ truth \in Seq(Maps(iy)) /\ log \in Seq(Mutations(Macs, iy))
           /\ wire \in Seq(Requests(Macs, iy))
           /\ store \in States(Macs, iy) /\ pending \in States(Macs, iy)
           /\ acc \in [Tasks -> States(Macs, iy)] /\ snapshot \in [Tasks -> States(Macs, iy)]
           /\ patches \in [Tasks -> Seq(Mutations(Macs, iy))]
           /\ Current \in States(Macs, iy) /\ Current.version \in Nat
<1>1. made \in Nat /\ mode.maxMacs \in Nat /\ ix \in [1 .. made -> Labels]
  BY TypeFacts DEF Typed
<1>2. iy \in [1 .. made + 1 -> Labels] /\ iy[made + 1] = [index |-> i, op |-> op]
      /\ \A k \in 1 .. made : iy[k] = ix[k]
  <2>1. [index |-> i, op |-> op] \in Labels
    BY DEF Labels
  <2> QED
    BY <1>1, <2>1 DEF Minting
<1>3. made + 1 \in Macs /\ DOMAIN iy \subseteq Macs /\ None \notin DOMAIN iy /\ None \notin Macs
  BY <1>1, <1>2 DEF Macs, MaxMacs, None
<1>4. /\ Maps(ix) \subseteq Maps(iy)
      /\ States(Macs, ix) \subseteq States(Macs, iy)
      /\ Mutations(Macs, ix) \subseteq Mutations(Macs, iy)
      /\ Requests(Macs, ix) \subseteq Requests(Macs, iy)
  BY <1>1, <1>2, MintedStays
<1>5. truth \in Seq(Maps(iy)) /\ log \in Seq(Mutations(Macs, iy)) /\ wire \in Seq(Requests(Macs, iy))
  BY <1>4, SeqMonotonic DEF Typed
<1>6. patches \in [Tasks -> Seq(Mutations(Macs, iy))]
  BY <1>4, SeqMonotonic DEF Typed
<1>7. Current \in States(Macs, iy) /\ Current.version \in Nat
  BY <1>4, TypeFacts
<1>8. /\ store \in States(Macs, iy) /\ pending \in States(Macs, iy)
      /\ acc \in [Tasks -> States(Macs, iy)] /\ snapshot \in [Tasks -> States(Macs, iy)]
  BY <1>4 DEF Typed
<1> QED
  BY <1>1, <1>2, <1>3, <1>5, <1>6, <1>7, <1>8

(* A patch of the client. *)
PushPatch(i, op, sum) == [index |-> i, op |-> op, mac |-> made + 1,
                          version |-> Current.version + 1, sum |-> sum]
PushedWith(iy, t, i, patch) ==
    /\ patch \in Mutations(Macs, iy)
    /\ acc'[t] \in States(Macs, iy)
    /\ acc'[t].version = Current.version + 1
    /\ acc'[t].flaws = {} =>
         Current.flaws = {} /\ acc'[t].map = After(Current.map, patch)
    /\ acc'[t].map = [Current.map EXCEPT ![i] = made + 1]
    /\ acc' = [acc EXCEPT ![t] = acc'[t]]
    /\ wire' = Append(wire, [from |-> t, kind |-> "push", version |-> Current.version,
                             patch |-> patch])

LEMMA Pushed ==
    ASSUME NEW ix, General(ix), NEW t \in Tasks, NEW i \in Indexes,
           NEW op \in {"set", "remove"}, Push(t, i, op), NEW iy, iy = Minting(ix, i, op)
    PROVE  \E sum \in [Macs -> Int] :
             PushedWith(iy, t, i, PushPatch(i, op, sum))
<1> DEFINE m == [index |-> i, op |-> op, mac |-> made + 1]
           state == Encoded(Current, m)
           patch == PushPatch(i, op, state.hash)
<1> USE DEF General
<1>1. made < MaxMacs
  BY DEF Push
<1>2. /\ acc' = [acc EXCEPT ![t] = state]
      /\ wire' = Append(wire,
           [from |-> t, kind |-> "push", version |-> Current.version,
            patch |-> [index |-> i, op |-> op, mac |-> made + 1,
                       version |-> state.version, sum |-> state.hash]])
  BY DEF Push
<1>3. /\ iy \in [1 .. made + 1 -> Labels] /\ iy[made + 1] = [index |-> i, op |-> op]
      /\ None \notin Macs /\ made + 1 \in DOMAIN iy
      /\ Current \in States(Macs, iy) /\ Current.version \in Nat /\ made \in Nat
  <2>1. made \in Nat
    BY TypeFacts
  <2>2. /\ iy \in [1 .. made + 1 -> Labels] /\ iy[made + 1] = [index |-> i, op |-> op]
        /\ None \notin Macs
    BY <1>1, MintingTyped
  <2>3. Current \in States(Macs, iy) /\ Current.version \in Nat
    BY <1>1, MintingTyped
  <2>4. made + 1 \in DOMAIN iy
    BY <2>1, <2>2
  <2> QED
    BY <2>1, <2>2, <2>3, <2>4
<1>4. Minted(iy, m)
  BY <1>3 DEF Minted
<1>5. /\ state \in States(Macs, iy) /\ state.version = Current.version + 1
      /\ state.flaws = {} => Current.flaws = {} /\ state.map = After(Current.map, m)
      /\ state.map = [Current.map EXCEPT ![i] = made + 1]
  <2>1. m.index = i /\ m.mac = made + 1
    OBVIOUS
  <2>2. PICK s : s = Current
    OBVIOUS
  <2>3. PICK n : n = m
    OBVIOUS
  <2>4. None \notin Macs /\ s \in States(Macs, iy) /\ s.version \in Nat /\ Minted(iy, n)
    BY <1>3, <1>4, <2>2, <2>3
  <2>5. /\ Encoded(s, n) \in States(Macs, iy) /\ Encoded(s, n).version = s.version + 1
        /\ Encoded(s, n).flaws = {} => s.flaws = {} /\ Encoded(s, n).map = After(s.map, n)
        /\ Encoded(s, n).map = [s.map EXCEPT ![n.index] = n.mac]
    BY <2>4, EncodedMinted
  <2> QED
    BY <2>1, <2>2, <2>3, <2>5
<1> HIDE DEF state
<1>6. After(Current.map, patch) = After(Current.map, m)
  BY DEF After, PushPatch
<1>7. state.hash \in [Macs -> Int]
  BY <1>5 DEF States
<1>8. patch \in Mutations(Macs, iy)
  BY <1>3, <1>7 DEF Mutations, PushPatch
<1>9. patch = [index |-> i, op |-> op, mac |-> made + 1,
               version |-> state.version, sum |-> state.hash]
  BY <1>5 DEF PushPatch
<1>10. acc'[t] = state
  BY <1>2 DEF Typed
<1>11. PushedWith(iy, t, i, patch)
  BY <1>2, <1>5, <1>6, <1>8, <1>9, <1>10 DEF PushedWith
<1> QED
  BY <1>7, <1>11

LEMMA PushGeneral ==
    ASSUME NEW ix, General(ix), NEW t \in Tasks, NEW i \in Indexes,
           NEW op \in {"set", "remove"}, Push(t, i, op)
    PROVE  \E iy \in [1 .. made' -> Labels] : General(iy)'
<1> USE DEF General
<1>1. UNCHANGED <<mode, log, truth, store, pending, min, snapshot, patches, more, tries, muts>>
      /\ made < MaxMacs /\ made' = made + 1 /\ pc[t] = "encode"
      /\ pc' = [pc EXCEPT ![t] = "pushed"]
  BY DEF Push, answer
<1>2. PICK iy : iy = Minting(ix, i, op)
  OBVIOUS
<1>p. PICK sum \in [Macs -> Int] : PushedWith(iy, t, i, PushPatch(i, op, sum))
  BY <1>2, Pushed
<1> DEFINE patch == PushPatch(i, op, sum)
<1>3. /\ patch \in Mutations(Macs, iy)
      /\ acc'[t] \in States(Macs, iy)
      /\ acc'[t].version = Current.version + 1
      /\ acc'[t].flaws = {} =>
           Current.flaws = {} /\ acc'[t].map = After(Current.map, patch)
      /\ acc'[t].map = [Current.map EXCEPT ![i] = made + 1]
      /\ acc' = [acc EXCEPT ![t] = acc'[t]]
      /\ wire' = Append(wire, [from |-> t, kind |-> "push", version |-> Current.version,
                               patch |-> patch])
  BY <1>p DEF PushedWith
<1> DEFINE request == [from |-> t, kind |-> "push", version |-> Current.version,
                       patch |-> PushPatch(i, op, sum)]
<1>4. request \in Requests(Macs, iy) /\ Current.version \in Nat
  BY <1>3, TypeFacts DEF Requests
<1>5. wire \in Seq(Requests(Macs, iy))
  BY <1>1, <1>2, MintingTyped
<1>6. /\ wire' \in Seq(Requests(Macs, iy)) /\ Len(wire') = Len(wire) + 1 /\ Len(wire) \in Nat
      /\ wire'[Len(wire) + 1] = request
      /\ \A n \in 1 .. Len(wire) : wire'[n] = wire[n]
  <2> HIDE DEF request
  <2>1. wire' = Append(wire, request)
    BY <1>3 DEF request
  <2> QED
    BY <1>4, <1>5, <2>1, AppendProperties, LenProperties
<1>7. Typed(iy)'
  <2>1. made + 1 \in Nat
    BY TypeFacts
  <2>2. pc' \in [Tasks -> Places]
    BY <1>1 DEF Typed, Places
  <2>3. fresh' \in [Tasks -> [Indexes -> Nat]]
    <3>1. fresh' = [fresh EXCEPT ![t] = [fresh[t] EXCEPT ![i] = made + 1]]
      BY DEF Push
    <3>2. [fresh[t] EXCEPT ![i] = made + 1] \in [Indexes -> Nat]
      BY <2>1 DEF Typed
    <3> QED
      BY <3>1, <3>2 DEF Typed
  <2>4. acc' \in [Tasks -> States(Macs, iy)]
    <3>1. acc \in [Tasks -> States(Macs, iy)]
      BY <1>1, <1>2, MintingTyped
    <3>2. acc' = [acc EXCEPT ![t] = acc'[t]] /\ acc'[t] \in States(Macs, iy)
      BY <1>3
    <3> QED
      BY <3>1, <3>2
  <2>5. muts' \in [Tasks -> [Indexes -> Nat]] /\ min' \in [Tasks -> Nat \cup {Unset}]
        /\ more' \in [Tasks -> BOOLEAN] /\ tries' \in [Tasks -> Nat] /\ mode' \in Modes
    BY <1>1 DEF Typed
  <2> QED
    BY <1>1, <1>2, <1>6, <2>2, <2>3, <2>4, <2>5, MintingTyped, ModeStays DEF Typed
<1>8. /\ \A u \in Tasks : u # t => pc'[u] = pc[u] /\ acc'[u] = acc[u]
      /\ pc'[t] = "pushed"
  <2>1. acc' = [acc EXCEPT ![t] = acc'[t]]
    BY <1>3
  <2> QED
    BY <1>1, <2>1 DEF Typed
<1>9. PushesNext'
  <2>1. request.patch.version = request.version + 1
    BY DEF PushPatch
  <2> HIDE DEF request
  <2> SUFFICES ASSUME NEW n \in 1 .. Len(wire'), wire'[n].kind = "push"
               PROVE  wire'[n].patch.version = wire'[n].version + 1
    BY DEF PushesNext
  <2>2. CASE n \in 1 .. Len(wire)
    BY <1>6, <2>2 DEF UnderWay, PushesNext
  <2>3. CASE n = Len(wire) + 1
    BY <1>6, <2>1, <2>3
  <2> QED
    BY <1>6, <2>2, <2>3
<1>10. Awaited'
  <2>1. \A u \in Tasks : AtWork(u)' => acc'[u].version # Unset
    BY <1>3, <1>4, <1>8 DEF Awaited, AtWork, Unset
  <2>2. \A n \in 1 .. Len(wire) : wire[n].from # t
    <3> SUFFICES ASSUME NEW n \in 1 .. Len(wire), wire[n].from = t
                 PROVE  FALSE
      OBVIOUS
    <3>1. Asked(n, t) /\ wire[n] \in Requests(Macs, iy)
      BY <1>5, ElementOfSeq, LenProperties DEF Awaited
    <3> QED
      BY <1>1, <3>1 DEF Asked, Requests
  <2>3. ASSUME NEW n \in 1 .. Len(wire'), NEW u \in Tasks, wire'[n].from = u
        PROVE  Asked(n, u)'
    <3>1. CASE n = Len(wire) + 1
      <4>1. wire'[n] = request /\ u = t
        BY <1>6, <2>3, <3>1
      <4>2. \A k \in 1 .. Len(wire') : wire'[k].from = t => k = n
        BY <1>6, <2>2, <3>1
      <4>3. acc'[t].flaws = {} =>
              /\ Current.version <= Len(log)
              /\ acc'[t].map = After(truth[Current.version + 1], PushPatch(i, op, sum))
        BY <1>3, <1>4, CurrentRight DEF RightState, Unset
      <4>4. /\ wire'[n].kind = "push" /\ wire'[n].version = Current.version
            /\ wire'[n].patch = PushPatch(i, op, sum)
        BY <4>1
      <4>5. acc'[t].flaws = {} =>
              /\ wire'[n].version <= Len(log')
              /\ acc'[t].map = After(truth'[wire'[n].version + 1], wire'[n].patch)
        BY <1>1, <4>3, <4>4
      <4> QED
        BY <1>3, <1>8, <4>1, <4>2, <4>4, <4>5 DEF Asked, After
    <3>2. CASE n \in 1 .. Len(wire)
      <4>1. wire'[n] = wire[n] /\ u # t /\ Asked(n, u)
        BY <1>6, <2>2, <2>3, <3>2 DEF Awaited
      <4>2. \A k \in 1 .. Len(wire') : wire'[k].from = u => k = n
        BY <1>6, <4>1 DEF Asked
      <4> QED
        BY <1>1, <1>8, <4>1, <4>2 DEF Asked
    <3> QED
      BY <1>6, <3>1, <3>2
  <2> QED
    BY <2>1, <2>3 DEF Awaited
<1>11. Logged' /\ UnderWay'
  BY <1>1, <1>9 DEF Logged, UnderWay, HandsOfLog
<1>12. Right'
  <2>1. RightState(store)' /\ RightState(pending)'
    BY <1>1 DEF Right, RightState
  <2>2. RightTask(t)'
    BY <1>8 DEF RightTask
  <2>3. \A u \in Tasks : u # t => RightTask(u)'
    BY <1>1, <1>8 DEF Right, RightTask, RightState, Follows
  <2> QED
    BY <2>1, <2>2, <2>3 DEF Right
<1>13. Verified'
  <2>1. VerifiedTask(t)'
    BY <1>8 DEF VerifiedTask
  <2>2. \A u \in Tasks : u # t => VerifiedTask(u)'
    BY <1>1, <1>8, ModeStays DEF Verified, VerifiedTask
  <2> QED
    BY <2>1, <2>2 DEF Verified
<1> QED
  BY <1>1, <1>2, <1>7, <1>10, <1>11, <1>12, <1>13, MintingTyped

-----------------------------------------------------------------------------
(* The log and its maps grow. *)
LEMMA LogGrows ==
    ASSUME NEW ix, Typed(ix), Logged, NEW iy, truth \in Seq(Maps(iy)),
           log \in Seq(Mutations(Macs, iy)), NEW patch \in Mutations(Macs, iy),
           patch.version = Len(log) + 1,
           log' = Append(log, patch), truth' = Append(truth, After(truth[Len(truth)], patch))
    PROVE  /\ Logged' /\ log' \in Seq(Mutations(Macs, iy)) /\ truth' \in Seq(Maps(iy))
           /\ Len(log) \in Nat /\ Len(log') = Len(log) + 1 /\ LogKept
           /\ \A n \in 1 .. Len(log) : log'[n] = log[n]
           /\ truth'[Len(log) + 2] = After(truth[Len(log) + 1], patch)
<1>1. Len(log) \in Nat /\ Len(truth) = Len(log) + 1
  BY LenProperties DEF Logged, Typed
<1>2. truth[Len(truth)] \in Maps(iy)
  BY <1>1, ElementOfSeq
<1>3. After(truth[Len(truth)], patch) \in Maps(iy)
  BY <1>2, AfterMinted, MutationMinted
<1>4. /\ log' \in Seq(Mutations(Macs, iy)) /\ Len(log') = Len(log) + 1
      /\ log'[Len(log) + 1] = patch /\ \A n \in 1 .. Len(log) : log'[n] = log[n]
  BY AppendProperties
<1>5. /\ truth' \in Seq(Maps(iy)) /\ Len(truth') = Len(truth) + 1
      /\ truth'[Len(truth) + 1] = After(truth[Len(truth)], patch)
      /\ \A n \in 1 .. Len(truth) : truth'[n] = truth[n]
  BY <1>3, AppendProperties
<1>6. Logged'
  <2>1. Len(truth') = Len(log') + 1 /\ truth'[1] = NoMap
    BY <1>1, <1>4, <1>5 DEF Logged
  <2>2. ASSUME NEW n \in 1 .. Len(log')
        PROVE  log'[n].version = n /\ truth'[n + 1] = After(truth'[n], log'[n])
    <3>1. CASE n \in 1 .. Len(log)
      <4>1. n \in 1 .. Len(truth) /\ n + 1 \in 1 .. Len(truth)
        BY <1>1, <3>1
      <4> QED
        BY <1>4, <1>5, <3>1, <4>1 DEF Logged
    <3>2. CASE n = Len(log) + 1
      BY <1>1, <1>4, <1>5, <3>2
    <3> QED
      BY <1>1, <1>4, <3>1, <3>2
  <2>3. NoMap' = NoMap
    BY DEF NoMap
  <2> QED
    BY <2>1, <2>2, <2>3 DEF Logged, After
<1>7. LogKept
  BY <1>1, <1>4, <1>5 DEF LogKept
<1> QED
  BY <1>1, <1>4, <1>5, <1>6, <1>7

(* What referred to the log still does. *)
LEMMA LogGrown ==
    ASSUME NEW ix, General(ix), mode' = mode, UNCHANGED <<patches, snapshot, acc, store, pending>>,
           \A u \in Tasks : pc'[u] = pc[u] \/ (pc'[u] = "answered" /\ RightState(acc[u])'),
           Len(log) \in Nat, Len(log') = Len(log) + 1, LogKept,
           \A n \in 1 .. Len(log) : log'[n] = log[n]
    PROVE  (\A u \in Tasks : HandsOfLog(u)') /\ Right' /\ Verified'
<1>1. \A v \in 1 .. Len(log) : v \in 1 .. Len(log') /\ log'[v] = log[v]
  OBVIOUS
<1>2. \A u \in Tasks : HandsOfLog(u)'
  BY <1>1 DEF General, UnderWay, HandsOfLog
<1>3. ASSUME NEW s \in States(Macs, ix), RightState(s)
      PROVE  s.flaws = {} /\ s.version # Unset =>
               s.version <= Len(log') /\ s.map = truth'[s.version + 1]
  <2>1. s.version \in Nat \cup {Unset}
    BY DEF States
  <2> QED
    BY <1>3, <2>1 DEF RightState, LogKept
<1>4. RightState(store)' /\ RightState(pending)'
  BY <1>3 DEF General, Typed, Right, RightState
<1>5. ASSUME NEW u \in Tasks
      PROVE  RightTask(u)'
  <2>1. CASE pc'[u] = pc[u]
    <3>1. RightState(acc[u]) => RightState(acc[u])'
      BY <1>3 DEF General, Typed, RightState
    <3>2. RightState(snapshot[u]) => RightState(snapshot[u])'
      BY <1>3 DEF General, Typed, RightState
    <3> QED
      BY <2>1, <3>1, <3>2 DEF General, Right, RightTask, Follows
  <2>2. CASE pc'[u] = "answered" /\ RightState(acc[u])'
    BY <2>2 DEF RightTask
  <2> QED
    BY <2>1, <2>2
<1>6. ASSUME NEW u \in Tasks
      PROVE  VerifiedTask(u)'
  <2> SUFFICES ASSUME pc'[u] = "patching"
               PROVE  /\ snapshot[u].version = Unset
                      /\ acc[u].version \in 1 .. Len(log')
                      /\ Verify => acc[u].hash = log'[acc[u].version].sum
    BY ModeStays DEF VerifiedTask
  <2>1. VerifiedTask(u) /\ pc[u] = "patching"
    BY DEF General, Verified
  <2> QED
    BY <1>1, <2>1 DEF VerifiedTask
<1> QED
  BY <1>2, <1>4, <1>5, <1>6 DEF Right, Verified

LEMMA RefusedState ==
    ASSUME NEW ix, NEW s \in States(Macs, ix), s.version # Unset
    PROVE  LET new == [s EXCEPT !.flaws = @ \cup {"refused"}] IN
           new \in States(Macs, ix) /\ new.version = s.version /\ new.flaws # {}
<1> DEFINE new == [s EXCEPT !.flaws = @ \cup {"refused"}]
<1>1. s = [version |-> s.version, map |-> s.map, hash |-> s.hash, flaws |-> s.flaws]
  BY DEF States
<1>2. new = [version |-> s.version, map |-> s.map, hash |-> s.hash,
             flaws |-> s.flaws \cup {"refused"}]
  BY <1>1
<1> HIDE DEF new
<1>3. new \in States(Macs, ix) /\ new.version = s.version /\ new.flaws # {}
  BY <1>2 DEF States, Sums, Flaws
<1> QED
  BY <1>3 DEF new

LEMMA ServePushGeneral ==
    ASSUME NEW ix, General(ix), ServePush
    PROVE  General(ix)'
<1> USE DEF General
<1>r. PICK request : request = Head(wire)
  OBVIOUS
<1>t. PICK t : t = request.from
  OBVIOUS
<1>1. /\ UNCHANGED <<mode, made, store, pending, min, snapshot, patches, more, tries, fresh, muts>>
      /\ Server /\ request.kind = "push"
      /\ pc' = IF t = Nobody THEN pc ELSE [pc EXCEPT ![t] = "answered"]
      /\ IF request.version = Len(log)
         THEN /\ log' = Append(log, request.patch)
              /\ truth' = Append(truth, After(truth[Len(truth)], request.patch))
         ELSE UNCHANGED <<log, truth>>
      /\ acc' = IF t = Nobody \/ request.version = Len(log) THEN acc
                ELSE [acc EXCEPT ![t].flaws = @ \cup {"refused"}]
  BY <1>r, <1>t DEF ServePush, answer
<1>2. /\ request \in Requests(Macs, ix) /\ request = wire[1] /\ 1 \in 1 .. Len(wire)
      /\ t = Head(wire).from
  BY <1>1, <1>r, <1>t, WireTail
<1>3. request.patch \in Mutations(Macs, ix) /\ request.patch.version = request.version + 1
      /\ request.version \in Nat /\ t \in Tasks \cup {Nobody}
  <2>1. request.patch \in Mutations(Macs, ix) /\ request.version \in Nat
        /\ t \in Tasks \cup {Nobody}
    BY <1>1, <1>2, <1>t DEF Requests
  <2>2. request.patch.version = request.version + 1
    BY <1>1, <1>2 DEF UnderWay, PushesNext
  <2> QED
    BY <2>1, <2>2
<1>4. t \in Tasks => /\ pc[t] = "pushed" /\ acc[t].version = request.version + 1
                     /\ acc[t].flaws = {} =>
                          acc[t].map = After(truth[request.version + 1], request.patch)
                     /\ t # Nobody
  <2> SUFFICES ASSUME t \in Tasks
               PROVE  /\ pc[t] = "pushed" /\ acc[t].version = request.version + 1
                      /\ acc[t].flaws = {} =>
                           acc[t].map = After(truth[request.version + 1], request.patch)
                      /\ t # Nobody
    OBVIOUS
  <2>1. Asked(1, t)
    BY <1>2, <1>t DEF Awaited
  <2> QED
    BY <1>1, <1>2, <2>1, TasksAssumption DEF Asked, Tasks
<1>5. pc' \in [Tasks -> Places] /\ \A u \in Tasks : pc'[u] = IF u = t THEN "answered" ELSE pc[u]
  BY <1>1, <1>4 DEF Typed, Places
<1>6. truth \in Seq(Maps(ix)) /\ log \in Seq(Mutations(Macs, ix))
  BY DEF Typed
<1>7. PushesNext' /\ wire' \in Seq(Requests(Macs, ix))
  BY <1>1, WireTail
<1>8. ASSUME LogKept, \A u \in Tasks : u # t => acc'[u] = acc[u],
             t \in Tasks => acc'[t].version = acc[t].version
      PROVE  Awaited'
  <2>1. t \in Tasks => acc'[t].version # Unset
    BY <1>4, <1>8 DEF Awaited, AtWork
  <2> QED
    BY <1>1, <1>2, <1>5, <1>8, <2>1, RestAwaited
<1>9. CASE request.version = Len(log)
  <2>1. /\ log' = Append(log, request.patch)
        /\ truth' = Append(truth, After(truth[Len(truth)], request.patch))
        /\ acc' = acc
    BY <1>1, <1>9
  <2>2. request.patch.version = Len(log) + 1
    BY <1>3, <1>9
  <2>3. /\ Logged' /\ log' \in Seq(Mutations(Macs, ix)) /\ truth' \in Seq(Maps(ix))
        /\ Len(log) \in Nat /\ Len(log') = Len(log) + 1 /\ LogKept
        /\ \A n \in 1 .. Len(log) : log'[n] = log[n]
        /\ truth'[Len(log) + 2] = After(truth[Len(log) + 1], request.patch)
    BY <1>3, <1>6, <2>1, <2>2, LogGrows
  <2>4. Typed(ix)'
    BY <1>1, <1>5, <1>7, <2>1, <2>3, ModeStays DEF Typed
  <2>5. \A u \in Tasks : pc'[u] = pc[u] \/ (pc'[u] = "answered" /\ RightState(acc[u])')
    <3>1. ASSUME t \in Tasks
          PROVE  RightState(acc[t])'
      <4>1. acc[t].version = Len(log) + 1 /\ acc[t].version + 1 = Len(log) + 2
        BY <1>4, <1>9, <2>3, <3>1
      <4>2. acc[t].flaws = {} => acc[t].map = After(truth[Len(log) + 1], request.patch)
        BY <1>4, <1>9, <3>1
      <4>3. acc[t].version <= Len(log')
        BY <2>3, <4>1
      <4>4. truth'[acc[t].version + 1] = After(truth[Len(log) + 1], request.patch)
        BY <2>3, <4>1
      <4> QED
        BY <2>1, <4>2, <4>3, <4>4 DEF RightState
    <3> QED
      BY <1>5, <3>1
  <2>6. (\A u \in Tasks : HandsOfLog(u)') /\ Right' /\ Verified'
    BY <1>1, <2>1, <2>3, <2>5, LogGrown
  <2>7. Awaited'
    BY <1>8, <2>1, <2>3
  <2> QED
    BY <1>7, <2>3, <2>4, <2>6, <2>7 DEF UnderWay
<1>10. CASE request.version # Len(log)
  <2>1. UNCHANGED <<log, truth>> /\ LogKept
    BY <1>1, <1>10 DEF LogKept
  <2>2. CASE t = Nobody
    <3>1. t \notin Tasks /\ acc' = acc /\ pc' = pc
      BY <1>1, <2>2, TasksAssumption DEF Tasks
    <3>2. Awaited'
      BY <1>8, <2>1, <3>1
    <3>3. Typed(ix)'
      BY <1>1, <1>7, <2>1, <3>1, ModeStays DEF Typed
    <3>4. Logged' /\ UnderWay'
      BY <1>1, <1>7, <2>1 DEF Logged, UnderWay, HandsOfLog
    <3>5. RightState(store)' /\ RightState(pending)'
      BY <1>1, <2>1 DEF Right, RightState
    <3>6. ASSUME NEW u \in Tasks
          PROVE  RightTask(u)' /\ VerifiedTask(u)'
      <4>1. RightTask(u) /\ VerifiedTask(u)
        BY DEF Right, Verified
      <4>2. RightTask(u)'
        BY <1>1, <2>1, <3>1, <4>1 DEF RightTask, RightState, Follows
      <4>3. VerifiedTask(u)'
        BY <1>1, <2>1, <3>1, <4>1, ModeStays DEF VerifiedTask
      <4> QED
        BY <4>2, <4>3
    <3> QED
      BY <3>2, <3>3, <3>4, <3>5, <3>6 DEF Right, Verified
  <2>3. CASE t # Nobody
    <3>1. t \in Tasks /\ acc[t] \in States(Macs, ix) /\ acc[t].version # Unset
      BY <1>3, <1>4, <2>3 DEF Typed, Awaited, AtWork
    <3>2. acc' = [acc EXCEPT ![t] = [acc[t] EXCEPT !.flaws = @ \cup {"refused"}]]
      BY <1>1, <1>10, <2>3
    <3>3. /\ acc' = [acc EXCEPT ![t] = acc'[t]] /\ acc'[t] \in States(Macs, ix)
          /\ acc'[t].version = acc[t].version /\ acc'[t].flaws # {}
      <4>1. acc'[t] = [acc[t] EXCEPT !.flaws = @ \cup {"refused"}]
        BY <3>1, <3>2 DEF Typed
      <4> QED
        BY <3>1, <3>2, <4>1, RefusedState
    <3>4. OthersSame(t) /\ pc'[t] = "answered"
      BY <1>1, <1>5, <3>1, <3>3 DEF OthersSame, Typed
    <3>5. Awaited'
      BY <1>8, <2>1, <3>3, <3>4 DEF OthersSame
    <3>6. Typed(ix)'
      <4>1. acc' \in [Tasks -> States(Macs, ix)]
        BY <3>3 DEF Typed
      <4> QED
        BY <1>1, <1>5, <1>7, <2>1, <4>1, ModeStays DEF Typed
    <3>7. RightState(store)' /\ RightState(pending)'
      BY <1>1, <2>1 DEF Right, RightState
    <3>8. HandsOfLog(t)' /\ RightTask(t)' /\ VerifiedTask(t)'
      BY <1>1, <2>1, <3>1, <3>3, <3>4
         DEF UnderWay, HandsOfLog, RightTask, RightState, VerifiedTask
    <3> QED
      BY <1>1, <1>7, <2>1, <3>1, <3>4, <3>5, <3>6, <3>7, <3>8, TaskSteps
  <2> QED
    BY <2>2, <2>3
<1> QED
  BY <1>9, <1>10

(* The patch of another device. *)
Foreign(i, op) ==
    [index |-> i, op |-> op, mac |-> made + 1, version |-> Len(log) + 1,
     sum |-> Hash(Macs, After(truth[Len(truth)], [index |-> i, op |-> op, mac |-> made + 1]))]

LEMMA ForeignGrows ==
    ASSUME NEW ix, General(ix), NEW i \in Indexes, NEW op \in {"set", "remove"},
           OtherPatch(i, op), NEW iy, iy = Minting(ix, i, op)
    PROVE  /\ Foreign(i, op) \in Mutations(Macs, iy)
           /\ log' = Append(log, Foreign(i, op))
           /\ truth' = Append(truth, After(truth[Len(truth)], Foreign(i, op)))
           /\ Foreign(i, op).version = Len(log) + 1
           /\ truth \in Seq(Maps(iy)) /\ log \in Seq(Mutations(Macs, iy))
<1> DEFINE m == [index |-> i, op |-> op, mac |-> made + 1]
           last == truth[Len(truth)]
<1>1. made < MaxMacs
  BY DEF OtherPatch
<1>2. /\ iy \in [1 .. made + 1 -> Labels] /\ iy[made + 1] = [index |-> i, op |-> op]
      /\ truth \in Seq(Maps(iy)) /\ log \in Seq(Mutations(Macs, iy))
  BY <1>1, MintingTyped DEF General
<1>3. Len(log) \in Nat /\ made \in Nat
  BY <1>2, LenProperties, TypeFacts DEF General
<1>4. After(last, Foreign(i, op)) = After(last, m)
  BY DEF After, Foreign
<1>5. Hash(Macs, After(last, m)) \in [Macs -> Int]
  BY DEF Hash
<1>6. Foreign(i, op) \in Mutations(Macs, iy)
  BY <1>2, <1>3, <1>5 DEF Mutations, Foreign
<1>7. log' = Append(log, Foreign(i, op)) /\ truth' = Append(truth, After(last, m))
  BY SumIsHash DEF OtherPatch, Foreign
<1> QED
  BY <1>2, <1>4, <1>6, <1>7 DEF Foreign

LEMMA OtherPatchGeneral ==
    ASSUME NEW ix, General(ix), NEW i \in Indexes, NEW op \in {"set", "remove"},
           OtherPatch(i, op)
    PROVE  \E iy \in [1 .. made' -> Labels] : General(iy)'
<1> USE DEF General
<1>1. UNCHANGED <<mode, wire, store, pending, pc, acc, min, snapshot, patches, more, tries, fresh,
                  muts>>
      /\ made < MaxMacs /\ made' = made + 1
  BY DEF OtherPatch, local, answer
<1>2. PICK iy : iy = Minting(ix, i, op)
  OBVIOUS
<1>3. /\ Logged' /\ log' \in Seq(Mutations(Macs, iy)) /\ truth' \in Seq(Maps(iy))
      /\ Len(log) \in Nat /\ Len(log') = Len(log) + 1 /\ LogKept
      /\ \A n \in 1 .. Len(log) : log'[n] = log[n]
  BY <1>2, ForeignGrows, LogGrows
<1>4. Typed(iy)'
  <2>1. /\ iy \in [1 .. made + 1 -> Labels] /\ made + 1 \in Macs
        /\ wire \in Seq(Requests(Macs, iy))
        /\ store \in States(Macs, iy) /\ pending \in States(Macs, iy)
        /\ acc \in [Tasks -> States(Macs, iy)] /\ snapshot \in [Tasks -> States(Macs, iy)]
        /\ patches \in [Tasks -> Seq(Mutations(Macs, iy))]
    BY <1>1, <1>2, MintingTyped
  <2> QED
    BY <1>1, <1>3, <2>1, ModeStays DEF Typed
<1>5. (\A u \in Tasks : HandsOfLog(u)') /\ Right' /\ Verified'
  BY <1>1, <1>3, LogGrown
<1>6. PushesNext'
  BY <1>1 DEF UnderWay, PushesNext
<1>7. Awaited'
  <2>1. \A u \in Tasks : AtWork(u)' => acc'[u].version # Unset
    BY <1>1 DEF Awaited, AtWork
  <2>2. ASSUME NEW n \in 1 .. Len(wire), NEW u \in Tasks, wire[n].from = u
        PROVE  Asked(n, u)'
    <3>1. wire[n] \in Requests(Macs, ix)
      BY ElementOfSeq, LenProperties DEF Typed
    <3>2. Asked(n, u) /\ wire[n].version \in Nat
      BY <2>2, <3>1 DEF Awaited, Requests
    <3> QED
      BY <1>1, <1>3, <3>2 DEF Asked, LogKept, After
  <2> QED
    BY <1>1, <2>1, <2>2 DEF Awaited
<1> QED
  BY <1>1, <1>2, <1>3, <1>4, <1>5, <1>6, <1>7, MintingTyped DEF UnderWay

LEMMA InitGeneral == Init => \E ix \in [1 .. made -> Labels] : General(ix)
<1> SUFFICES ASSUME Init
             PROVE  \E ix \in [1 .. made -> Labels] : General(ix)
  OBVIOUS
<1>1. PICK ix : ix = [k \in 1 .. made |-> CHOOSE l \in Labels : TRUE]
  OBVIOUS
<1>2. made = 0 /\ ix \in [1 .. made -> Labels]
  BY <1>1 DEF Init
<1>3. /\ NoState \in States(Macs, ix) /\ NoMap \in Maps(ix) /\ NoMap \in [Indexes -> Nat]
      /\ NoState.version = Unset
  <2>1. NoState = [version |-> Unset, map |-> NoMap, hash |-> Hash(Macs, NoMap), flaws |-> {}]
    BY SumIsHash DEF NoState, Fresh
  <2> QED
    BY <2>1, NoStateMinted DEF NoMap, None
<1>4. <<NoMap>> \in Seq(Maps(ix)) /\ Len(<<NoMap>>) = 1 /\ <<NoMap>>[1] = NoMap
  BY <1>3
<1>5. /\ <<>> \in Seq(Mutations(Macs, ix)) /\ <<>> \in Seq(Requests(Macs, ix)) /\ Len(<<>>) = 0
  BY EmptySeq
<1>6. Typed(ix)
  BY <1>2, <1>3, <1>4, <1>5 DEF Typed, Init, Places
<1>7. Logged
  BY <1>4, <1>5 DEF Logged, Init
<1>8. UnderWay /\ Verified
  BY <1>5 DEF UnderWay, PushesNext, HandsOfLog, Verified, VerifiedTask, Init
<1>9. Awaited
  BY <1>5 DEF Awaited, AtWork, Init
<1>10. Right
  BY <1>3 DEF Right, RightState, RightTask, Init
<1> QED
  BY <1>2, <1>6, <1>7, <1>8, <1>9, <1>10 DEF General

LEMMA IdleGeneral ==
    ASSUME NEW ix, General(ix), UNCHANGED vars
    PROVE  General(ix)'
<1>1. UNCHANGED <<mode, log, truth, made, wire, store, pending, pc, acc, min, snapshot, patches,
                  more, tries, fresh, muts>>
  BY DEF vars, server, local, answer
<1>2. Typed(ix)'
  BY <1>1, ModeStays DEF General, Typed
<1>3. Logged' /\ UnderWay' /\ Awaited'
  BY <1>1 DEF General, Logged, UnderWay, PushesNext, HandsOfLog, Awaited, AtWork, Asked
<1>4. RightState(store)' /\ RightState(pending)'
  BY <1>1 DEF General, Right, RightState
<1>5. ASSUME NEW u \in Tasks
      PROVE  RightTask(u)' /\ VerifiedTask(u)'
  <2>1. RightTask(u) /\ VerifiedTask(u)
    BY DEF General, Right, Verified
  <2>2. RightTask(u)'
    BY <1>1, <2>1 DEF RightTask, RightState, Follows
  <2>3. VerifiedTask(u)'
    BY <1>1, <2>1, ModeStays DEF VerifiedTask
  <2> QED
    BY <2>2, <2>3
<1> QED
  BY <1>2, <1>3, <1>4, <1>5 DEF General, Right, Verified

LEMMA StepGeneral ==
    ASSUME NEW ix \in [1 .. made -> Labels], General(ix), [Next]_vars
    PROVE  \E iy \in [1 .. made' -> Labels] : General(iy)'
<1>1. ASSUME General(ix)' PROVE \E iy \in [1 .. made' -> Labels] : General(iy)'
  BY <1>1 DEF General, Typed
<1>2. ASSUME NEW t \in Tasks, Enter(t) \/ Step(t) \/ Raise(t)
      PROVE  General(ix)'
  BY <1>2, EnterGeneral, AskGeneral, TakeSnapshotGeneral, LoseSnapshotGeneral, TakePatchGeneral,
     StorePatchesGeneral, RoundGeneral, DecodeFailsGeneral, FinishGeneral, StorePushGeneral,
     PublishGeneral, RaiseGeneral DEF Step
<1>3. ASSUME NEW t \in Patchers, NEW i \in Indexes, NEW op \in {"set", "remove"}, Push(t, i, op)
      PROVE  \E iy \in [1 .. made' -> Labels] : General(iy)'
  BY <1>3, PushGeneral DEF Tasks
<1> QED
  BY <1>1, <1>2, <1>3, ServeReadGeneral, ServePushGeneral, OtherPatchGeneral, IdleGeneral DEF Next

-----------------------------------------------------------------------------
(***************************************************************************)
(* The theorems.                                                           *)
(***************************************************************************)
GeneralHolds == \E ix \in [1 .. made -> Labels] : General(ix)

LEMMA GeneralAlways == Spec => []GeneralHolds
<1>1. Init => GeneralHolds
  BY InitGeneral DEF GeneralHolds
<1>2. GeneralHolds /\ [Next]_vars => GeneralHolds'
  <2> SUFFICES ASSUME GeneralHolds, [Next]_vars
               PROVE  GeneralHolds'
    OBVIOUS
  <2>1. PICK ix \in [1 .. made -> Labels] : General(ix)
    BY DEF GeneralHolds
  <2>2. \E iy \in [1 .. made' -> Labels] : General(iy)'
    BY <2>1, StepGeneral
  <2> QED
    BY <2>2 DEF GeneralHolds
<1> QED
  BY <1>1, <1>2, PTL DEF Spec

(* A state without a flaw is the server's of its version. *)
LEMMA RightIsServers ==
    ASSUME NEW ix, General(ix), NEW s \in States(Macs, ix), RightState(s), s.flaws = {}
    PROVE  IsServers(s)
<1> SUFFICES ASSUME s # NoState
             PROVE  /\ s.version \in 0 .. Len(log)
                    /\ s.map = truth[s.version + 1] /\ s.hash = Sum(s.map)
  BY DEF IsServers
<1>1. s.version # Unset /\ s.version \in Nat \cup {Unset}
  BY TypeFacts DEF General
<1>2. s.version <= Len(log) /\ s.map = truth[s.version + 1]
  BY <1>1 DEF RightState
<1>3. s.hash = Sum(s.map)
  BY SumIsHash DEF States
<1>4. Len(log) \in Nat
  BY LenProperties DEF General, Typed
<1> QED
  BY <1>1, <1>2, <1>3, <1>4

(* What is stored is what the server has at that version, in stores with   *)
(* and without transactions, unless a removal of the client's own, a lost  *)
(* snapshot or a refused patch has gone into it since the snapshot that it *)
(* comes from (chats.py 266-318, 363-406, chat_utils.py 187 and 351).      *)
THEOREM StoredIsServers == Spec => []StoreIsServers
<1>1. GeneralHolds => StoreIsServers
  <2> SUFFICES ASSUME GeneralHolds, store.flaws = {}
               PROVE  IsServers(store)
    BY DEF StoreIsServers
  <2>1. PICK ix \in [1 .. made -> Labels] : General(ix)
    BY DEF GeneralHolds
  <2>2. store \in States(Macs, ix) /\ RightState(store)
    BY <2>1 DEF General, Typed, Right
  <2> QED
    BY <2>1, <2>2, RightIsServers
<1> QED
  BY <1>1, GeneralAlways, PTL

(* With macs verified, a patch with the right hash was applied on the      *)
(* server's state.                                                         *)
LEMMA HealedState ==
    ASSUME NEW ix, General(ix), Verify, NEW t \in Tasks, pc[t] = "patching",
           NEW map, map = truth[acc[t].version + 1], log[acc[t].version].sum = Hash(Macs, map),
           NEW i \in Indexes
    PROVE  /\ acc[t].hash = Hash(Macs, map)
           /\ acc[t].map[i] = map[i] \/ ("removal" \in acc[t].flaws /\ map[i] = None)
<1>1. acc[t].version \in 1 .. Len(log) /\ acc[t].hash = Hash(Macs, map)
  BY DEF General, Verified, VerifiedTask
<1>2. map \in Maps(ix)
  <2>1. acc[t].version \in 0 .. Len(log)
    BY <1>1, LenProperties DEF General, Typed
  <2> QED
    BY <2>1, ServersState
<1>3. PICK s : s = acc[t]
  OBVIOUS
<1>4. s \in States(Macs, ix) /\ s.hash = Hash(Macs, map)
  BY <1>1, <1>3 DEF General, Typed
<1>5. DOMAIN ix \subseteq Macs /\ None \notin DOMAIN ix
  BY TypeFacts DEF General
<1>6. s.map[i] = map[i] \/ ("removal" \in s.flaws /\ map[i] = None)
  BY <1>2, <1>4, <1>5, HashTells
<1> QED
  BY <1>1, <1>3, <1>6

(* With macs verified, what a patch with the right hash was applied on is  *)
(* the server's state, also after a lost snapshot or a refused patch: the  *)
(* hash tells the index map, but for removals of the client's own, and at  *)
(* their indexes the server then has nothing (chat_utils.py 477-491, 187). *)
THEOREM VerifiedPatchHeals == Spec => []PatchHeals
<1>1. GeneralHolds => PatchHeals
  <2> SUFFICES ASSUME GeneralHolds, Verify, NEW t \in Tasks, pc[t] = "patching",
                      log[acc[t].version].sum = Sum(truth[acc[t].version + 1])
               PROVE  /\ acc[t].hash = Sum(truth[acc[t].version + 1])
                      /\ \A i \in Indexes :
                           \/ acc[t].map[i] = truth[acc[t].version + 1][i]
                           \/ /\ "removal" \in acc[t].flaws
                              /\ truth[acc[t].version + 1][i] = None
    BY DEF PatchHeals
  <2>1. PICK ix \in [1 .. made -> Labels] : General(ix)
    BY DEF GeneralHolds
  <2>2. PICK map : map = truth[acc[t].version + 1]
    OBVIOUS
  <2>3. log[acc[t].version].sum = Hash(Macs, map)
    BY <2>2, SumIsHash
  <2>4. acc[t].hash = Hash(Macs, map)
    BY <2>1, <2>3 DEF General, Verified, VerifiedTask
  <2>5. \A i \in Indexes :
          acc[t].map[i] = map[i] \/ ("removal" \in acc[t].flaws /\ map[i] = None)
    BY <2>1, <2>2, <2>3, HealedState
  <2> QED
    BY <2>2, <2>4, <2>5, SumIsHash
<1> QED
  BY <1>1, GeneralAlways, PTL
-----------------------------------------------------------------------------
(***************************************************************************)
(* The initial sync, whose own modules are EventData and InitialSync.      *)
(* What the listeners know of a message is its entry.                      *)
(***************************************************************************)
Entry == {NoEntry} \cup Nat
Counts == {NoEntry, NoField, Null, Marked} \cup Nat

OfMessages == {"messages.upsert", "messages.update", "messages.delete"}
Types == {"none", "notify", "append", "read", "other"}
Conditions == {"none", "newer", "older"}

(* The events handed out: only those of the chat have a count. *)
HandedEvents ==
    {e \in [event : OfTheChat \cup OfMessages, messages : SUBSET Messages, type : Types,
            values : [Messages -> Entry], count : Counts, condition : Conditions] :
        e.event \notin OfTheChat => e.count = NoField}

(* The events emitted. *)
Emittable(e) ==
    /\ e \in HandedEvents
    /\ \A m \in e.messages :
         /\ e.event \in {"messaging-history.set", "messages.upsert"} => e.values[m] = 0
         /\ e.event = "messages.update" => e.values[m] \in Nat
         /\ e.event = "messages.delete" => e.values[m] = NoEntry
    /\ e.event \in {"chats.update", "chats.upsert", "chats.delete"} => e.messages = {}
    /\ e.condition # "none" => e.event = "chats.update"
    /\ e.count # NoEntry

(* The data of a session, and those that hand nothing out. *)
DataFields == {"historySet", "history", "historyChat", "upserts", "type", "updates",
               "deletes", "chatUpsert", "chatUpdate", "condition", "chatDelete"}
SessionData(d) ==
    /\ DOMAIN d = DataFields
    /\ d.history \in [Messages -> Entry] /\ d.upserts \in [Messages -> Entry]
    /\ d.updates \in [Messages -> Entry] /\ d.deletes \subseteq Messages
    /\ d.historyChat \in Counts /\ d.chatUpsert \in Counts /\ d.chatUpdate \in Counts
    /\ \A m \in Messages : d.history[m] # NoEntry => d.historySet
    /\ d.historyChat # NoEntry => d.historySet
HandsNothing(d) ==
    /\ \A m \in Messages : /\ d.history[m] = NoEntry /\ d.upserts[m] = NoEntry
                           /\ d.updates[m] = NoEntry /\ m \notin d.deletes
    /\ d.historyChat = NoEntry /\ d.chatUpsert = NoEntry /\ ~ d.chatDelete
    /\ d.condition = "none" => d.chatUpdate = NoEntry

(* What the listeners will know of a message once the data are flushed,    *)
(* and whether the chat will be unread: then the second is 1.              *)
FlushedMessage(known, d, m) ==
    LET history == IF d.history[m] # NoEntry THEN d.history[m] ELSE known
        upserted == IF d.upserts[m] # NoEntry THEN d.upserts[m] ELSE history
        updated == IF upserted # NoEntry /\ d.updates[m] # NoEntry THEN d.updates[m]
                                                                   ELSE upserted
    IN IF m \in d.deletes THEN NoEntry ELSE updated

UnreadBy(known, count) ==
    IF count \in {NoEntry, NoField} THEN known
    ELSE IF count = Marked \/ count > 0 THEN 1 ELSE 0
UnreadAfter(known, e) == IF e.event = "chats.delete" THEN 0 ELSE UnreadBy(known, e.count)
FlushedChat(known, d) ==
    IF d.chatDelete THEN 0
    ELSE UnreadBy(UnreadBy(UnreadBy(known, d.historyChat), d.chatUpsert), d.chatUpdate)

(* A message that is not excused is in one part of the data, and so is the *)
(* chat, of which nothing is undecided.                                    *)
MessageApart(d, m) ==
    /\ d.history[m] # NoEntry => d.upserts[m] = NoEntry /\ d.updates[m] = NoEntry
    /\ d.upserts[m] # NoEntry => d.updates[m] = NoEntry /\ m \notin d.deletes
ChatApart(d, known) ==
    /\ d.condition = "none"
    /\ d.historyChat # NoEntry => "chat" \in known /\ d.chatUpsert = NoEntry
    /\ d.chatUpdate # NoEntry => d.historyChat = NoEntry /\ d.chatUpsert = NoEntry
    /\ d.chatDelete => /\ d.historyChat = NoEntry /\ d.chatUpsert = NoEntry
                       /\ d.chatUpdate = NoEntry

(* A subject is a message or the chat (whatever m is).  The values it will *)
(* have while the events handed out are told: a chain, which moves at the  *)
(* events that are about the subject.                                      *)
ValueAfter(kind, m, known, e) ==
    IF kind = "chat" THEN UnreadAfter(known, e) ELSE ShownMessage(known, e, m)
Moves(kind, m, e) == IF kind = "chat" THEN e.event \in OfTheChat ELSE m \in e.messages
Chain(kind, m, w, first, q) ==
    /\ w \in Seq(Entry) /\ Len(w) = Len(q) + 1 /\ w[1] = first
    /\ \A k \in 1 .. Len(q) : w[k + 1] = ValueAfter(kind, m, w[k], q[k])
    /\ \A k \in 1 .. Len(q) : \/ w[k] = w[Len(w)]
                              \/ \E i \in k .. Len(q) : Moves(kind, m, q[i])
(* Told the events of q in turn, the subject goes from first to last. *)
Leads(kind, m, first, q, last) ==
    /\ q \in Seq(HandedEvents)
    /\ \E w \in Seq(Entry) : Chain(kind, m, w, first, q) /\ w[Len(w)] = last

(* The inductive invariant of the initial sync. *)
NotOlder(shown, known) == known <= shown /\ (known = NoEntry => shown = NoEntry)
MessageFollows(m) ==
    /\ MessageApart(data, m)
    /\ \E last \in Entry :
         /\ Leads("message", m, view.messages[m], deliveries, last)
         /\ NotOlder(FlushedMessage(last, data, m), direct.messages[m])
ChatFollows ==
    /\ ChatApart(data, cache)
    /\ \E first, last \in Entry :
         /\ Leads("chat", NoEntry, first, deliveries, last)
         /\ first = 1 <=> view.unread
         /\ FlushedChat(last, data) = 1 <=> direct.unread
SyncTyped ==
    /\ \A m \in Messages : view.messages[m] \in Entry /\ direct.messages[m] \in Entry
    /\ view.unread \in BOOLEAN /\ direct.unread \in BOOLEAN
    /\ SessionData(data) /\ deliveries \in Seq(HandedEvents)
    /\ buffering \in BOOLEAN /\ (~ buffering => HandsNothing(data))
SyncFollows ==
    /\ SyncTyped
    /\ \A m \in Messages \ excused : MessageFollows(m)
    /\ "chat" \notin excused => ChatFollows

(* Chains: every value of one is an entry. *)
LEMMA ValueAfterType ==
    ASSUME NEW kind, NEW m \in Messages \cup {NoEntry}, NEW known \in Entry, NEW e \in HandedEvents,
           kind = "message" => m \in Messages, kind \in {"message", "chat"}
    PROVE  /\ ValueAfter(kind, m, known, e) \in Entry
           /\ ~ Moves(kind, m, e) => ValueAfter(kind, m, known, e) = known
<1>1. CASE kind = "chat"
  <2>1. UnreadBy(known, e.count) \in Entry
    BY DEF UnreadBy, Entry, NoEntry
  <2>2. e.event \notin OfTheChat => e.count = NoField /\ e.event # "chats.delete"
    BY DEF HandedEvents, OfTheChat
  <2> QED BY <1>1, <2>1, <2>2 DEF ValueAfter, UnreadAfter, UnreadBy, Moves, Entry
<1>2. CASE kind = "message"
  <2>1. e.messages \subseteq Messages /\ e.values \in [Messages -> Entry]
    BY DEF HandedEvents
  <2> QED BY <1>2, <2>1 DEF ValueAfter, ShownMessage, Moves
<1> QED BY <1>1, <1>2

(* Nothing that is handed out is about the subject. *)
LEMMA ChainStays ==
    ASSUME NEW kind, NEW m \in Messages \cup {NoEntry}, kind \in {"message", "chat"},
           kind = "message" => m \in Messages,
           NEW q \in Seq(HandedEvents), \A k \in 1 .. Len(q) : ~ Moves(kind, m, q[k]),
           NEW first \in Entry
    PROVE  Leads(kind, m, first, q, first)
<1> DEFINE x == [k \in 1 .. Len(q) + 1 |-> first]
<1>1. Len(q) \in Nat
  OBVIOUS
<1>2. x \in Seq(Entry) /\ Len(x) = Len(q) + 1 /\ \A k \in 1 .. Len(q) + 1 : x[k] = first
  BY <1>1
<1> HIDE DEF x
<1>3. \A k \in 1 .. Len(q) : x[k + 1] = ValueAfter(kind, m, x[k], q[k])
  <2> SUFFICES ASSUME NEW k \in 1 .. Len(q) PROVE x[k + 1] = ValueAfter(kind, m, x[k], q[k])
    OBVIOUS
  <2>1. q[k] \in HandedEvents /\ ~ Moves(kind, m, q[k])
    BY <1>1
  <2>2. x[k] = first /\ x[k + 1] = first
    BY <1>1, <1>2
  <2> QED BY <2>1, <2>2, ValueAfterType
<1>4. Chain(kind, m, x, first, q) /\ x[Len(x)] = first
  BY <1>1, <1>2, <1>3 DEF Chain
<1> QED BY <1>2, <1>4 DEF Leads

LEMMA ChainStayed ==
    ASSUME NEW kind, NEW m, NEW q, NEW first, NEW last, Leads(kind, m, first, q, last),
           \A k \in 1 .. Len(q) : ~ Moves(kind, m, q[k])
    PROVE  last = first
<1>1. PICK w \in Seq(Entry) : Chain(kind, m, w, first, q) /\ w[Len(w)] = last
  BY DEF Leads
<1>2. Len(q) \in Nat
  BY DEF Leads
<1>3. CASE Len(q) = 0
  BY <1>1, <1>3 DEF Chain
<1>4. CASE Len(q) > 0
  <2>1. 1 \in 1 .. Len(q)
    BY <1>2, <1>4
  <2>2. ~ \E i \in 1 .. Len(q) : Moves(kind, m, q[i])
    OBVIOUS
  <2> QED BY <1>1, <2>1, <2>2 DEF Chain
<1> QED BY <1>2, <1>3, <1>4

(* The oldest event is told. *)
LEMMA ChainTail ==
    ASSUME NEW kind, NEW m, NEW q, NEW first, NEW last, Leads(kind, m, first, q, last), q # <<>>
    PROVE  Leads(kind, m, ValueAfter(kind, m, first, Head(q)), Tail(q), last)
<1>1. PICK w \in Seq(Entry) : Chain(kind, m, w, first, q) /\ w[Len(w)] = last
  BY DEF Leads
<1>2. q \in Seq(HandedEvents)
  BY DEF Leads
<1>3. Len(q) \in Nat /\ Len(q) > 0 /\ Head(q) = q[1]
  BY <1>2, EmptySeq
<1>4. /\ Tail(q) \in Seq(HandedEvents) /\ Len(Tail(q)) = Len(q) - 1
      /\ \A i \in 1 .. Len(q) - 1 : Tail(q)[i] = q[i + 1]
  BY <1>2, HeadTailProperties
<1>5. w # <<>> /\ Len(w) = Len(q) + 1
  BY <1>3, <1>1 DEF Chain
<1> DEFINE x == Tail(w)
<1>6. x \in Seq(Entry) /\ Len(x) = Len(q) /\ \A i \in 1 .. Len(q) : x[i] = w[i + 1]
  BY <1>3, <1>5, HeadTailProperties
<1> HIDE DEF x
<1>7. x[1] = ValueAfter(kind, m, first, Head(q))
  BY <1>3, <1>6, <1>1 DEF Chain
<1>8. x[Len(x)] = w[Len(w)]
  BY <1>3, <1>5, <1>6
<1>9. \A k \in 1 .. Len(Tail(q)) : x[k + 1] = ValueAfter(kind, m, x[k], Tail(q)[k])
  <2> SUFFICES ASSUME NEW k \in 1 .. Len(q) - 1
               PROVE  x[k + 1] = ValueAfter(kind, m, x[k], Tail(q)[k])
    BY <1>4
  <2>1. k + 1 \in 1 .. Len(q) /\ k \in 1 .. Len(q)
    BY <1>3
  <2>2. w[k + 1 + 1] = ValueAfter(kind, m, w[k + 1], q[k + 1])
    BY <2>1, <1>1 DEF Chain
  <2> QED BY <2>1, <2>2, <1>4, <1>6
<1>10. \A k \in 1 .. Len(Tail(q)) : \/ x[k] = x[Len(x)]
                                   \/ \E i \in k .. Len(Tail(q)) : Moves(kind, m, Tail(q)[i])
  <2> SUFFICES ASSUME NEW k \in 1 .. Len(q) - 1, x[k] # x[Len(x)]
               PROVE  \E i \in k .. Len(q) - 1 : Moves(kind, m, Tail(q)[i])
    BY <1>4
  <2>1. k + 1 \in 1 .. Len(q) /\ w[k + 1] # w[Len(w)]
    BY <1>3, <1>6, <1>8
  <2>2. PICK i \in k + 1 .. Len(q) : Moves(kind, m, q[i])
    BY <2>1, <1>1 DEF Chain
  <2>3. i - 1 \in k .. Len(q) - 1 /\ i - 1 \in 1 .. Len(q) - 1 /\ Tail(q)[i - 1] = q[(i - 1) + 1]
    BY <1>3, <1>4
  <2>4. (i - 1) + 1 = i
    BY <1>3
  <2> QED BY <2>2, <2>3, <2>4
<1>11. Chain(kind, m, x, ValueAfter(kind, m, first, Head(q)), Tail(q))
  <2>1. x \in Seq(Entry) /\ Len(x) = Len(Tail(q)) + 1
    BY <1>3, <1>4, <1>6
  <2> QED BY <1>7, <1>9, <1>10, <2>1 DEF Chain
<1> QED BY <1>1, <1>4, <1>6, <1>8, <1>11 DEF Leads

(* An event, or none, is handed out. *)
LEMMA ChainPart ==
    ASSUME NEW kind, NEW m \in Messages \cup {NoEntry}, kind \in {"message", "chat"},
           kind = "message" => m \in Messages,
           NEW q, NEW first, NEW last, Leads(kind, m, first, q, last),
           NEW e \in HandedEvents, NEW s \in {<<>>, <<e>>}
    PROVE  Leads(kind, m, first, q \o s,
                 IF s = <<>> THEN last ELSE ValueAfter(kind, m, last, e))
<1>1. PICK w \in Seq(Entry) : Chain(kind, m, w, first, q) /\ w[Len(w)] = last
  BY DEF Leads
<1>2. q \in Seq(HandedEvents)
  BY DEF Leads
<1>3. Len(q) \in Nat
  BY <1>2
<1>4. <<e>> \in Seq(HandedEvents) /\ <<>> \in Seq(HandedEvents)
  OBVIOUS
<1>5. Len(q) \in Nat /\ s \in Seq(HandedEvents)
  BY <1>3, <1>4
<1>6. q \o s \in Seq(HandedEvents)
  BY <1>5, <1>2, ConcatProperties
<1>7. CASE s = <<>>
  <2>1. q \o s = q
    BY <1>2, <1>7, ConcatEmptySeq
  <2> QED BY <1>1, <1>6, <1>7, <2>1 DEF Leads
<1>8. CASE s = <<e>>
  <2> DEFINE p == Append(q, e)
             v == ValueAfter(kind, m, w[Len(w)], e)
             x == Append(w, v)
  <2>1. q \o s = p /\ s # <<>>
    BY <1>2, <1>8, AppendIsConcat
  <2>2. /\ p \in Seq(HandedEvents) /\ Len(p) = Len(q) + 1 /\ p[Len(q) + 1] = e
        /\ \A i \in 1 .. Len(q) : p[i] = q[i]
    BY <1>2, AppendProperties
  <2>3. Len(w) = Len(q) + 1 /\ w[Len(w)] \in Entry
    BY <1>5, <1>1 DEF Chain
  <2>4. v \in Entry /\ (~ Moves(kind, m, e) => v = w[Len(w)])
    BY <2>3, ValueAfterType
  <2> HIDE DEF v, p
  <2>5. /\ x \in Seq(Entry) /\ Len(x) = Len(w) + 1 /\ x[Len(w) + 1] = v
        /\ \A i \in 1 .. Len(w) : x[i] = w[i]
    BY <2>4, AppendProperties
  <2> HIDE DEF x
  <2>6. x[1] = first /\ Len(x) = Len(p) + 1 /\ x[Len(x)] = v
    BY <1>5, <2>2, <2>3, <2>5, <1>1 DEF Chain
  <2>7. \A k \in 1 .. Len(p) : x[k + 1] = ValueAfter(kind, m, x[k], p[k])
    <3> SUFFICES ASSUME NEW k \in 1 .. Len(q) + 1
                 PROVE  x[k + 1] = ValueAfter(kind, m, x[k], p[k])
      BY <2>2
    <3>1. CASE k \in 1 .. Len(q)
      <4>1. w[k + 1] = ValueAfter(kind, m, w[k], q[k])
        BY <3>1, <1>1 DEF Chain
      <4>2. k \in 1 .. Len(w) /\ k + 1 \in 1 .. Len(w)
        BY <1>5, <2>3, <3>1
      <4>3. x[k + 1] = w[k + 1] /\ x[k] = w[k] /\ p[k] = q[k]
        BY <2>2, <2>5, <3>1, <4>2
      <4> QED BY <4>1, <4>3
    <3>2. CASE k = Len(q) + 1
      <4>1. x[k + 1] = v /\ x[k] = w[Len(w)] /\ p[k] = e
        BY <1>5, <2>2, <2>3, <2>5, <3>2
      <4> QED BY <4>1 DEF v
    <3> QED BY <1>5, <3>1, <3>2
  <2>8. \A k \in 1 .. Len(p) : \/ x[k] = x[Len(x)]
                               \/ \E i \in k .. Len(p) : Moves(kind, m, p[i])
    <3> SUFFICES ASSUME NEW k \in 1 .. Len(q) + 1, ~ \E i \in k .. Len(q) + 1 : Moves(kind, m, p[i])
                 PROVE  x[k] = v
      BY <2>2, <2>6
    <3>1. Len(q) + 1 \in k .. Len(q) + 1
      BY <1>5
    <3>2. v = w[Len(w)]
      BY <2>2, <2>4, <3>1
    <3>3. CASE k = Len(q) + 1
      BY <1>5, <2>3, <2>5, <3>2, <3>3
    <3>4. CASE k \in 1 .. Len(q)
      <4>1. ~ \E i \in k .. Len(q) : Moves(kind, m, q[i])
        <5> SUFFICES ASSUME NEW i \in k .. Len(q), Moves(kind, m, q[i]) PROVE FALSE
          OBVIOUS
        <5>1. i \in k .. Len(q) + 1 /\ p[i] = q[i]
          BY <1>5, <2>2, <3>4
        <5> QED BY <5>1
      <4>2. w[k] = w[Len(w)]
        BY <3>4, <4>1, <1>1 DEF Chain
      <4> QED BY <1>5, <2>3, <2>5, <3>2, <3>4, <4>2
    <3> QED BY <1>5, <3>3, <3>4
  <2>9. Chain(kind, m, x, first, q \o s) /\ x[Len(x)] = ValueAfter(kind, m, w[Len(w)], e)
    BY <2>1, <2>5, <2>6, <2>7, <2>8, <1>1 DEF Chain, v
  <2> QED BY <1>1, <1>6, <1>8, <2>1, <2>5, <2>9 DEF Leads
<1> QED BY <1>7, <1>8

(* The events of a flush, each of them handed out or not. *)
LEMMA HandedTypes ==
    ASSUME NEW d, SessionData(d)
    PROVE  /\ [Entries("messaging-history.set", d.history) EXCEPT !.count = d.historyChat]
                \in HandedEvents
           /\ \A event \in OfTheChat, count \in Counts : OfChat(event, count) \in HandedEvents
           /\ Entries("messages.upsert", d.upserts) \in HandedEvents
           /\ Entries("messages.update", d.updates) \in HandedEvents
           /\ About("messages.delete", d.deletes, NoEntry) \in HandedEvents
<1> DEFINE none == EmptyData.history
           T == [event : OfTheChat \cup OfMessages \cup {"none"}, messages : SUBSET Messages,
                 type : Types, values : [Messages -> Entry], count : Counts,
                 condition : Conditions]
<1>1. none \in [Messages -> Entry] /\ NoEntry \in Entry /\ NoField \in Counts /\ {} \subseteq Messages
  BY DEF EmptyData, Entry, Counts
<1>2. Blank = [event |-> "none", messages |-> {}, type |-> "none",
               values |-> none, count |-> NoField, condition |-> "none"]
  BY DEF Blank
<1> HIDE DEF none
<1>3. Blank \in T /\ Blank.values = none /\ Blank.count = NoField
  BY <1>1, <1>2 DEF Types, Conditions
<1>4. ASSUME NEW event \in OfMessages \cup {"messaging-history.set"}, NEW entries \in [Messages -> Entry]
      PROVE  /\ Entries(event, entries) \in T /\ Entries(event, entries).event = event
             /\ Entries(event, entries).count = NoField
  <2>1. {k \in Messages : entries[k] # NoEntry} \in SUBSET Messages
    OBVIOUS
  <2> QED BY <1>1, <1>2, <2>1 DEF Entries, Types, Conditions, OfTheChat
<1>5. ASSUME NEW event \in OfTheChat, NEW count \in Counts
      PROVE  OfChat(event, count) \in HandedEvents
  BY <1>1, <1>2 DEF OfChat, HandedEvents, OfTheChat, Types, Conditions
<1>6. About("messages.delete", d.deletes, NoEntry) \in HandedEvents
  <2>1. [k \in Messages |-> IF k \in d.deletes THEN NoEntry ELSE none[k]] \in [Messages -> Entry]
    BY <1>1
  <2>2. d.deletes \in SUBSET Messages
    BY DEF SessionData
  <2>3. /\ About("messages.delete", d.deletes, NoEntry) \in T
        /\ About("messages.delete", d.deletes, NoEntry).event = "messages.delete"
        /\ About("messages.delete", d.deletes, NoEntry).count = NoField
    BY <1>3, <2>1, <2>2 DEF About, OfMessages
  <2> QED BY <2>3 DEF HandedEvents, OfTheChat, OfMessages
<1>7. Entries("messages.upsert", d.upserts) \in HandedEvents
  BY <1>4 DEF HandedEvents, OfTheChat, OfMessages, SessionData
<1>8. Entries("messages.update", d.updates) \in HandedEvents
  BY <1>4 DEF HandedEvents, OfTheChat, OfMessages, SessionData
<1>9. [Entries("messaging-history.set", d.history) EXCEPT !.count = d.historyChat] \in HandedEvents
  <2>1. d.history \in [Messages -> Entry] /\ d.historyChat \in Counts
    BY DEF SessionData
  <2>2. Entries("messaging-history.set", d.history) \in T
    BY <1>4, <2>1
  <2>3. Entries("messaging-history.set", d.history).event = "messaging-history.set"
    BY <1>4, <2>1
  <2> QED BY <2>1, <2>2, <2>3 DEF HandedEvents, OfTheChat
<1> QED BY <1>5, <1>6, <1>7, <1>8, <1>9

(* What each of them tells. *)
LEMMA EntriesTell ==
    ASSUME NEW event, NEW entries
    PROVE  /\ Entries(event, entries).messages = {k \in Messages : entries[k] # NoEntry}
           /\ \A known : \A m \in Messages : ShownMessage(known, Entries(event, entries), m) =
                IF entries[m] = NoEntry \/ (event = "messages.update" /\ known = NoEntry)
                THEN known ELSE entries[m]
           /\ Entries(event, entries).count = NoField
           /\ Entries(event, entries).event = event
<1>1. Blank = [event |-> "none", messages |-> {}, type |-> "none",
               values |-> EmptyData.history, count |-> NoField, condition |-> "none"]
  BY DEF Blank
<1> QED BY <1>1 DEF Entries, ShownMessage

(* The flush tells what the data hold. *)
LEMMA FlushTells ==
    ASSUME NEW kind, NEW m \in Messages \cup {NoEntry}, kind \in {"message", "chat"},
           kind = "message" => m \in Messages, NEW d, SessionData(d),
           NEW q \in Seq(HandedEvents), NEW first, NEW v0
    PROVE  /\ q \o Consolidate(d) \in Seq(HandedEvents)
           /\ Leads(kind, m, first, q, v0) /\ (kind = "chat" => d.condition = "none") =>
                Leads(kind, m, first, q \o Consolidate(d),
                      IF kind = "chat" THEN FlushedChat(v0, d) ELSE FlushedMessage(v0, d, m))
<1> DEFINE c3 == IF d.condition = "none" THEN d.chatUpdate ELSE NoEntry
           c4 == IF d.chatDelete THEN 0 ELSE NoEntry
           e1 == [Entries("messaging-history.set", d.history) EXCEPT !.count = d.historyChat]
           e2 == OfChat("chats.upsert", d.chatUpsert)
           e3 == OfChat("chats.update", c3)
           e4 == OfChat("chats.delete", c4)
           e5 == Entries("messages.upsert", d.upserts)
           e6 == Entries("messages.update", d.updates)
           e7 == About("messages.delete", d.deletes, NoEntry)
           p1 == IF d.historySet THEN <<e1>> ELSE <<>>
           p2 == IF d.chatUpsert = NoEntry THEN <<>> ELSE <<e2>>
           p3 == IF c3 = NoEntry THEN <<>> ELSE <<e3>>
           p4 == IF c4 = NoEntry THEN <<>> ELSE <<e4>>
           p5 == IF e5.messages = {} THEN <<>> ELSE <<e5>>
           p6 == IF e6.messages = {} THEN <<>> ELSE <<e6>>
           p7 == IF e7.messages = {} THEN <<>> ELSE <<e7>>
           v1 == IF p1 = <<>> THEN v0 ELSE ValueAfter(kind, m, v0, e1)
           v2 == IF p2 = <<>> THEN v1 ELSE ValueAfter(kind, m, v1, e2)
           v3 == IF p3 = <<>> THEN v2 ELSE ValueAfter(kind, m, v2, e3)
           v4 == IF p4 = <<>> THEN v3 ELSE ValueAfter(kind, m, v3, e4)
           v5 == IF p5 = <<>> THEN v4 ELSE ValueAfter(kind, m, v4, e5)
           v6 == IF p6 = <<>> THEN v5 ELSE ValueAfter(kind, m, v5, e6)
           v7 == IF p7 = <<>> THEN v6 ELSE ValueAfter(kind, m, v6, e7)
<1>1. Consolidate(d) = p1 \o p2 \o p3 \o p4 \o p5 \o p6 \o p7
  BY Zenon DEF Consolidate
<1>2. c3 \in Counts /\ c4 \in Counts
  BY DEF SessionData, Counts
<1>3. /\ e1 \in HandedEvents /\ e2 \in HandedEvents /\ e3 \in HandedEvents /\ e4 \in HandedEvents
      /\ e5 \in HandedEvents /\ e6 \in HandedEvents /\ e7 \in HandedEvents
  <2>1. d.chatUpsert \in Counts
    BY DEF SessionData
  <2> HIDE DEF c3, c4
  <2> QED BY <1>2, <2>1, HandedTypes DEF OfTheChat
<1>4. /\ e1.messages = {k \in Messages : d.history[k] # NoEntry} /\ e1.count = d.historyChat
      /\ e1.event = "messaging-history.set"
      /\ kind = "message" => \A known : ShownMessage(known, e1, m) =
                               IF d.history[m] = NoEntry THEN known ELSE d.history[m]
  <2>1. d.history \in [Messages -> Entry]
    BY DEF SessionData
  <2>2. Blank = [event |-> "none", messages |-> {}, type |-> "none",
                 values |-> EmptyData.history, count |-> NoField, condition |-> "none"]
    BY DEF Blank
  <2> QED BY <2>1, <2>2 DEF Entries, ShownMessage
<1>5. /\ e2.messages = {} /\ e2.count = d.chatUpsert /\ e2.event = "chats.upsert"
      /\ e3.messages = {} /\ e3.count = c3 /\ e3.event = "chats.update"
      /\ e4.messages = {} /\ e4.count = c4 /\ e4.event = "chats.delete"
  <2>2. Blank = [event |-> "none", messages |-> {}, type |-> "none",
                 values |-> EmptyData.history, count |-> NoField, condition |-> "none"]
    BY DEF Blank
  <2> HIDE DEF c3, c4
  <2> QED BY <2>2 DEF OfChat
<1>6. /\ e5.messages = {k \in Messages : d.upserts[k] # NoEntry} /\ e5.count = NoField
      /\ e5.event = "messages.upsert"
      /\ kind = "message" => \A known : ShownMessage(known, e5, m) =
                               IF d.upserts[m] = NoEntry THEN known ELSE d.upserts[m]
  <2>1. d.upserts \in [Messages -> Entry]
    BY DEF SessionData
  <2> QED BY <2>1, EntriesTell
<1>7. /\ e6.messages = {k \in Messages : d.updates[k] # NoEntry} /\ e6.count = NoField
      /\ e6.event = "messages.update"
      /\ kind = "message" => \A known : ShownMessage(known, e6, m) =
                               IF d.updates[m] = NoEntry \/ known = NoEntry THEN known
                               ELSE d.updates[m]
  <2>1. d.updates \in [Messages -> Entry]
    BY DEF SessionData
  <2> QED BY <2>1, EntriesTell
<1>8. /\ e7.messages = d.deletes /\ e7.count = NoField /\ e7.event = "messages.delete"
      /\ kind = "message" => \A known : ShownMessage(known, e7, m) =
                               IF m \notin d.deletes THEN known ELSE NoEntry
  <2>1. Blank = [event |-> "none", messages |-> {}, type |-> "none",
                 values |-> EmptyData.history, count |-> NoField, condition |-> "none"]
    BY DEF Blank
  <2>2. DOMAIN EmptyData.history = Messages
    BY DEF EmptyData
  <2> QED BY <2>1, <2>2 DEF About, ShownMessage
<1>9. /\ p1 \in {<<>>, <<e1>>} /\ p2 \in {<<>>, <<e2>>} /\ p3 \in {<<>>, <<e3>>}
      /\ p4 \in {<<>>, <<e4>>} /\ p5 \in {<<>>, <<e5>>} /\ p6 \in {<<>>, <<e6>>}
      /\ p7 \in {<<>>, <<e7>>}
  <2> HIDE DEF e1, e2, e3, e4, e5, e6, e7, c3, c4
  <2> QED OBVIOUS
<1>10. /\ p1 = <<>> <=> ~ d.historySet
       /\ p2 = <<>> <=> d.chatUpsert = NoEntry
       /\ p3 = <<>> <=> c3 = NoEntry
       /\ p4 = <<>> <=> ~ d.chatDelete
       /\ p5 = <<>> <=> e5.messages = {}
       /\ p6 = <<>> <=> e6.messages = {}
       /\ p7 = <<>> <=> e7.messages = {}
  <2>1. \A e : <<e>> # <<>>
    OBVIOUS
  <2>2. c4 = NoEntry <=> ~ d.chatDelete
    BY DEF NoEntry
  <2> HIDE DEF e1, e2, e3, e4, e5, e6, e7, c3, c4
  <2> QED BY <2>1, <2>2
<1> HIDE DEF e1, e2, e3, e4, e5, e6, e7, c3, c4, p1, p2, p3, p4, p5, p6, p7
<1>11. kind = "message" => v7 = FlushedMessage(v0, d, m)
  <2> SUFFICES ASSUME kind = "message" PROVE v7 = FlushedMessage(v0, d, m)
    OBVIOUS
  <2>0. m \in Messages
    OBVIOUS
  <2>1. v1 = IF d.history[m] # NoEntry THEN d.history[m] ELSE v0
    BY <2>0, <1>4, <1>10 DEF ValueAfter, SessionData
  <2> HIDE DEF v1
  <2>2. v2 = v1
    BY <1>5 DEF ValueAfter, ShownMessage
  <2> HIDE DEF v2
  <2>3. v3 = v2
    BY <1>5 DEF ValueAfter, ShownMessage
  <2> HIDE DEF v3
  <2>4. v4 = v3
    BY <1>5 DEF ValueAfter, ShownMessage
  <2> HIDE DEF v4
  <2>5. v5 = IF d.upserts[m] # NoEntry THEN d.upserts[m] ELSE v4
    BY <2>0, <1>6, <1>10 DEF ValueAfter
  <2> HIDE DEF v5
  <2>6. v6 = IF v5 # NoEntry /\ d.updates[m] # NoEntry THEN d.updates[m] ELSE v5
    BY <2>0, <1>7, <1>10 DEF ValueAfter
  <2> HIDE DEF v6
  <2>7. v7 = IF m \in d.deletes THEN NoEntry ELSE v6
    BY <2>0, <1>8, <1>10 DEF ValueAfter
  <2> HIDE DEF v7
  <2> QED BY <2>1, <2>2, <2>3, <2>4, <2>5, <2>6, <2>7 DEF FlushedMessage
<1>12. kind = "chat" /\ d.condition = "none" => v7 = FlushedChat(v0, d)
  <2> SUFFICES ASSUME kind = "chat", d.condition = "none" PROVE v7 = FlushedChat(v0, d)
    OBVIOUS
  <2>1. v1 = UnreadBy(v0, d.historyChat)
    BY <1>4, <1>10 DEF ValueAfter, UnreadAfter, UnreadBy, SessionData
  <2> HIDE DEF v1
  <2>2. v2 = UnreadBy(v1, d.chatUpsert)
    BY <1>5, <1>10 DEF ValueAfter, UnreadAfter, UnreadBy
  <2> HIDE DEF v2
  <2>3. v3 = UnreadBy(v2, d.chatUpdate)
    BY <1>5, <1>10 DEF ValueAfter, UnreadAfter, UnreadBy, c3
  <2> HIDE DEF v3
  <2>4. v4 = IF d.chatDelete THEN 0 ELSE v3
    BY <1>5, <1>10 DEF ValueAfter, UnreadAfter
  <2> HIDE DEF v4
  <2>5. v5 = v4
    BY <1>6 DEF ValueAfter, UnreadAfter, UnreadBy
  <2> HIDE DEF v5
  <2>6. v6 = v5
    BY <1>7 DEF ValueAfter, UnreadAfter, UnreadBy
  <2> HIDE DEF v6
  <2>7. v7 = v6
    BY <1>8 DEF ValueAfter, UnreadAfter, UnreadBy
  <2> HIDE DEF v7
  <2> QED BY <2>1, <2>2, <2>3, <2>4, <2>5, <2>6, <2>7 DEF FlushedChat
<1> HIDE DEF v1, v2, v3, v4, v5, v6, v7
<1>13. /\ v1 = IF p1 = <<>> THEN v0 ELSE ValueAfter(kind, m, v0, e1)
       /\ v2 = IF p2 = <<>> THEN v1 ELSE ValueAfter(kind, m, v1, e2)
       /\ v3 = IF p3 = <<>> THEN v2 ELSE ValueAfter(kind, m, v2, e3)
       /\ v4 = IF p4 = <<>> THEN v3 ELSE ValueAfter(kind, m, v3, e4)
       /\ v5 = IF p5 = <<>> THEN v4 ELSE ValueAfter(kind, m, v4, e5)
       /\ v6 = IF p6 = <<>> THEN v5 ELSE ValueAfter(kind, m, v5, e6)
       /\ v7 = IF p7 = <<>> THEN v6 ELSE ValueAfter(kind, m, v6, e7)
  BY Zenon DEF v1, v2, v3, v4, v5, v6, v7
<1>14. ASSUME NEW r, NEW v, Leads(kind, m, first, r, v), NEW e \in HandedEvents,
              NEW s, s \in {<<>>, <<e>>}
       PROVE  Leads(kind, m, first, r \o s, IF s = <<>> THEN v ELSE ValueAfter(kind, m, v, e))
  BY <1>14, ChainPart
<1> DEFINE q1 == q \o p1
<1>15. Leads(kind, m, first, q, v0) => Leads(kind, m, first, q1, v1)
  BY <1>3, <1>9, <1>13, <1>14
<1> HIDE DEF q1
<1> DEFINE q2 == q1 \o p2
<1>16. Leads(kind, m, first, q, v0) => Leads(kind, m, first, q2, v2)
  BY <1>3, <1>9, <1>13, <1>14, <1>15
<1> HIDE DEF q2
<1> DEFINE q3 == q2 \o p3
<1>17. Leads(kind, m, first, q, v0) => Leads(kind, m, first, q3, v3)
  BY <1>3, <1>9, <1>13, <1>14, <1>16
<1> HIDE DEF q3
<1> DEFINE q4 == q3 \o p4
<1>18. Leads(kind, m, first, q, v0) => Leads(kind, m, first, q4, v4)
  BY <1>3, <1>9, <1>13, <1>14, <1>17
<1> HIDE DEF q4
<1> DEFINE q5 == q4 \o p5
<1>19. Leads(kind, m, first, q, v0) => Leads(kind, m, first, q5, v5)
  BY <1>3, <1>9, <1>13, <1>14, <1>18
<1> HIDE DEF q5
<1> DEFINE q6 == q5 \o p6
<1>20. Leads(kind, m, first, q, v0) => Leads(kind, m, first, q6, v6)
  BY <1>3, <1>9, <1>13, <1>14, <1>19
<1> HIDE DEF q6
<1> DEFINE q7 == q6 \o p7
<1>21. Leads(kind, m, first, q, v0) => Leads(kind, m, first, q7, v7)
  BY <1>3, <1>9, <1>13, <1>14, <1>20
<1>22. q7 = q \o Consolidate(d) /\ q7 \in Seq(HandedEvents)
  <2>1. \A e \in HandedEvents : <<>> \in Seq(HandedEvents) /\ <<e>> \in Seq(HandedEvents)
    OBVIOUS
  <2>2. /\ p1 \in Seq(HandedEvents) /\ p2 \in Seq(HandedEvents) /\ p3 \in Seq(HandedEvents)
        /\ p4 \in Seq(HandedEvents) /\ p5 \in Seq(HandedEvents) /\ p6 \in Seq(HandedEvents)
        /\ p7 \in Seq(HandedEvents)
    BY <2>1, <1>3, <1>9
  <2>3. q \in Seq(HandedEvents)
    OBVIOUS
  <2>4. q7 = q \o p1 \o p2 \o p3 \o p4 \o p5 \o p6 \o p7
    BY DEF q1, q2, q3, q4, q5, q6
  <2> DEFINE r2 == p1 \o p2
             r3 == r2 \o p3
             r4 == r3 \o p4
             r5 == r4 \o p5
             r6 == r5 \o p6
             E == Seq(HandedEvents)
  <2>5. ASSUME NEW r \in E, NEW p \in E
        PROVE  r \o p \in E /\ (q \o r) \o p = q \o (r \o p)
    <3>1. r \o p \in E
      BY ConcatProperties
    <3>2. (q \o r) \o p = q \o (r \o p)
      BY <2>3, ConcatAssociative
    <3> QED BY <3>1, <3>2
  <2>6. r2 \in E /\ (q \o p1) \o p2 = q \o r2
    BY <2>2, <2>5
  <2> HIDE DEF r2
  <2>7. r3 \in E /\ (q \o r2) \o p3 = q \o r3
    BY <2>2, <2>5, <2>6
  <2> HIDE DEF r3
  <2>8. r4 \in E /\ (q \o r3) \o p4 = q \o r4
    BY <2>2, <2>5, <2>7
  <2> HIDE DEF r4
  <2>9. r5 \in E /\ (q \o r4) \o p5 = q \o r5
    BY <2>2, <2>5, <2>8
  <2> HIDE DEF r5
  <2>10. r6 \in E /\ (q \o r5) \o p6 = q \o r6
    BY <2>2, <2>5, <2>9
  <2> HIDE DEF r6
  <2>11. (q \o r6) \o p7 = q \o (r6 \o p7)
    BY <2>2, <2>5, <2>10
  <2>12. q \o (r6 \o p7) \in E
    BY <2>2, <2>3, <2>5, <2>10, ConcatProperties
  <2>13. q \o p1 \o p2 \o p3 \o p4 \o p5 \o p6 \o p7 = q \o (r6 \o p7)
    BY <2>6, <2>7, <2>8, <2>9, <2>10, <2>11
  <2> QED BY <1>1, <2>4, <2>12, <2>13 DEF r2, r3, r4, r5, r6
<1> QED BY <1>11, <1>12, <1>21, <1>22

(* Data that hand nothing out. *)
LEMMA EmptyHolds ==
    /\ SessionData(EmptyData) /\ HandsNothing(EmptyData) /\ EmptyData.condition = "none"
    /\ EmptyData.chatUpdate = NoEntry
<1>1. EmptyData.history \in [Messages -> Entry] /\ NoEntry \in Counts
  BY DEF EmptyData, Entry, Counts
<1> QED BY <1>1 DEF EmptyData, SessionData, HandsNothing, DataFields, Entry

LEMMA KeptBackHolds ==
    ASSUME NEW d, SessionData(d)
    PROVE  /\ SessionData(KeptBack(d)) /\ HandsNothing(KeptBack(d))
           /\ d.condition = "none" => KeptBack(d).condition = "none"
<1>1. CASE d.condition = "none"
  BY <1>1, EmptyHolds DEF KeptBack
<1>2. CASE d.condition # "none"
  <2>1. DOMAIN EmptyData = DataFields /\ d.chatUpdate \in Counts
    BY EmptyHolds DEF SessionData
  <2>2. /\ DOMAIN KeptBack(d) = DataFields
        /\ KeptBack(d).chatUpdate = d.chatUpdate /\ KeptBack(d).condition = d.condition
        /\ \A f \in DataFields \ {"chatUpdate", "condition"} : KeptBack(d)[f] = EmptyData[f]
    BY <1>2, <2>1 DEF KeptBack, DataFields
  <2>3. /\ KeptBack(d).history = EmptyData.history /\ KeptBack(d).upserts = EmptyData.upserts
        /\ KeptBack(d).updates = EmptyData.updates /\ KeptBack(d).deletes = EmptyData.deletes
        /\ KeptBack(d).historyChat = EmptyData.historyChat
        /\ KeptBack(d).chatUpsert = EmptyData.chatUpsert
        /\ KeptBack(d).chatDelete = EmptyData.chatDelete
    BY <2>2 DEF DataFields
  <2>4. SessionData(KeptBack(d))
    BY <2>1, <2>2, <2>3, EmptyHolds DEF SessionData, HandsNothing
  <2>5. HandsNothing(KeptBack(d))
    BY <1>2, <2>2, <2>3, EmptyHolds DEF HandsNothing
  <2> QED BY <1>2, <2>4, <2>5
<1> QED BY <1>1, <1>2

LEMMA NothingTold ==
    ASSUME NEW d, HandsNothing(d), NEW known
    PROVE  /\ \A m \in Messages : MessageApart(d, m) /\ FlushedMessage(known, d, m) = known
           /\ d.condition = "none" =>
                FlushedChat(known, d) = known /\ \A c : ChatApart(d, c)
BY DEF HandsNothing, MessageApart, FlushedMessage, FlushedChat, ChatApart, UnreadBy

(* Two counts merged say of the chat what they say one after the other. *)
LEMMA ConcatTells ==
    ASSUME NEW a \in Counts, NEW c \in Counts, c # NoEntry
    PROVE  /\ Concat(a, c) \in Counts /\ (a # NoEntry => Concat(a, c) # NoEntry)
           /\ \A known : a # NoEntry /\ ~ CountsDiffer(a, c) =>
                UnreadBy(known, Concat(a, c)) = UnreadBy(UnreadBy(known, a), c)
           /\ Concat(NoField, c) = c
BY DEF Counts, NoEntry, NoField, Null, Marked, Concat, CountsDiffer, UnreadBy

-----------------------------------------------------------------------------
(* What an event changes in the data. *)
SameMessages(d, r) ==
    /\ r.history = d.history /\ r.upserts = d.upserts
    /\ r.updates = d.updates /\ r.deletes = d.deletes
SameChat(d, r) ==
    /\ r.historyChat = d.historyChat /\ r.chatUpsert = d.chatUpsert
    /\ r.chatUpdate = d.chatUpdate /\ r.condition = d.condition
    /\ r.chatDelete = d.chatDelete
ChatIs(r, history, upsert, update) ==
    /\ r.historyChat = history /\ r.chatUpsert = upsert /\ r.chatUpdate = update
    /\ r.condition = "none" /\ ~ r.chatDelete

(* The chat takes the buffered update in. *)
LEMMA AbsorbFields ==
    ASSUME NEW d, SessionData(d), NEW field \in {"historyChat", "chatUpsert"},
           d.historySet \/ field # "historyChat", d[field] # NoEntry
    PROVE  /\ SessionData(Absorb(d, field)) /\ SameMessages(d, Absorb(d, field))
           /\ Absorb(d, field).chatDelete = d.chatDelete
           /\ d.condition = "none" =>
                /\ Absorb(d, field).condition = "none"
                /\ Absorb(d, field).chatUpdate = NoEntry
                /\ \A f \in {"historyChat", "chatUpsert"} : Absorb(d, field)[f] =
                     IF f = field /\ d.chatUpdate # NoEntry THEN Concat(d.chatUpdate, d[f]) ELSE d[f]
<1> DEFINE merged == [d EXCEPT ![field] = Concat(d.chatUpdate, @)]
<1>1. DOMAIN d = DataFields /\ d[field] \in Counts /\ d.chatUpdate \in Counts
  BY DEF SessionData
<1>2. Concat(d.chatUpdate, d[field]) \in Counts /\ NoEntry \in Counts
  BY <1>1, ConcatTells DEF Counts
<1>3. ASSUME NEW x, x = d \/ x = merged
      PROVE  /\ SessionData(DropChatUpdate(x)) /\ SameMessages(d, DropChatUpdate(x))
             /\ DropChatUpdate(x).chatDelete = d.chatDelete
             /\ DropChatUpdate(x).condition = "none" /\ DropChatUpdate(x).chatUpdate = NoEntry
             /\ \A f \in {"historyChat", "chatUpsert"} : DropChatUpdate(x)[f] = x[f]
  <2>1. /\ DOMAIN x = DataFields /\ SameMessages(d, x) /\ x.chatDelete = d.chatDelete
        /\ x.historySet = d.historySet /\ x.historyChat \in Counts /\ x.chatUpsert \in Counts
        /\ field = "chatUpsert" => x.historyChat = d.historyChat
    BY <1>1, <1>2, <1>3 DEF DataFields, SameMessages, SessionData
  <2>2. /\ DOMAIN DropChatUpdate(x) = DataFields /\ SameMessages(x, DropChatUpdate(x))
        /\ DropChatUpdate(x).chatDelete = x.chatDelete
        /\ DropChatUpdate(x).historySet = x.historySet
        /\ DropChatUpdate(x).condition = "none" /\ DropChatUpdate(x).chatUpdate = NoEntry
        /\ DropChatUpdate(x).historyChat = x.historyChat
        /\ DropChatUpdate(x).chatUpsert = x.chatUpsert
    BY <2>1 DEF DropChatUpdate, DataFields, SameMessages
  <2>3. SameMessages(d, DropChatUpdate(x))
    BY <2>1, <2>2 DEF SameMessages
  <2>4. SessionData(DropChatUpdate(x))
    BY <1>2, <2>1, <2>2 DEF SessionData, SameMessages
  <2> QED BY <2>1, <2>2, <2>3, <2>4
<1>4. \A f \in {"historyChat", "chatUpsert"} :
        merged[f] = IF f = field THEN Concat(d.chatUpdate, d[f]) ELSE d[f]
  BY <1>1 DEF DataFields
<1>5. CASE d.chatUpdate = NoEntry
  <2>1. Absorb(d, field) = d
    BY <1>5 DEF Absorb
  <2> QED BY <1>5, <2>1 DEF SameMessages
<1>6. CASE d.chatUpdate # NoEntry
  <2>1. /\ Absorb(d, field) \in {DropChatUpdate(merged), DropChatUpdate(d), d}
        /\ d.condition = "none" => Absorb(d, field) = DropChatUpdate(merged)
    <3>1. Absorb(d, field) = CASE Condition(d, d.condition) = "true"  -> DropChatUpdate(merged)
                               [] Condition(d, d.condition) = "false" -> DropChatUpdate(d)
                               [] OTHER -> d
      BY <1>6, Zenon DEF Absorb
    <3>2. d.condition = "none" => Condition(d, d.condition) = "true"
      BY DEF Condition
    <3> HIDE DEF merged
    <3> QED BY <3>1, <3>2
  <2> HIDE DEF merged
  <2> QED BY <1>3, <1>4, <1>6, <2>1 DEF SameMessages
<1> QED BY <1>5, <1>6

(* chats.upsert. *)
LEMMA ChatUpsertFields ==
    ASSUME NEW d, SessionData(d), NEW e \in HandedEvents, e.count # NoEntry
    PROVE  /\ SessionData(AppendChatUpsert(d, e)) /\ SameMessages(d, AppendChatUpsert(d, e))
           /\ \A known : ChatApart(d, known) =>
                CASE d.historyChat # NoEntry ->
                       ChatIs(AppendChatUpsert(d, e), Concat(d.historyChat, e.count), NoEntry, NoEntry)
                  [] d.historyChat = NoEntry /\ d.chatUpsert # NoEntry ->
                       ChatIs(AppendChatUpsert(d, e), NoEntry, Concat(d.chatUpsert, e.count), NoEntry)
                  [] d.historyChat = NoEntry /\ d.chatUpsert = NoEntry ->
                       ChatIs(AppendChatUpsert(d, e), NoEntry,
                              IF d.chatUpdate # NoEntry THEN Concat(d.chatUpdate, e.count)
                              ELSE e.count, NoEntry)
<1> DEFINE field == UpsertField(d)
           put == [d EXCEPT ![field] = IF @ = NoEntry THEN e.count ELSE Concat(@, e.count)]
           r == Absorb(put, field)
           s == AppendChatUpsert(d, e)
<1>1. DOMAIN d = DataFields /\ d.historyChat \in Counts /\ d.chatUpsert \in Counts /\ e.count \in Counts
  BY DEF SessionData, HandedEvents
<1>2. /\ field \in {"historyChat", "chatUpsert"}
      /\ field = "historyChat" <=> d.chatUpsert = NoEntry /\ d.historyChat # NoEntry
  BY DEF UpsertField
<1> HIDE DEF field
<1>3. /\ DOMAIN put = DataFields /\ SameMessages(d, put) /\ put.historySet = d.historySet
      /\ put.condition = d.condition /\ put.chatUpdate = d.chatUpdate
      /\ put[field] = IF d[field] = NoEntry THEN e.count ELSE Concat(d[field], e.count)
      /\ \A f \in {"historyChat", "chatUpsert"} : f # field => put[f] = d[f]
  BY <1>1, <1>2 DEF SameMessages, DataFields
<1>4. put[field] \in Counts /\ put[field] # NoEntry
  BY <1>1, <1>2, <1>3, ConcatTells
<1>5. s = [r EXCEPT !.chatDelete = FALSE]
  BY Zenon DEF AppendChatUpsert, field
<1> HIDE DEF put
<1>6. SessionData(put) /\ (put.historySet \/ field # "historyChat")
  BY <1>1, <1>2, <1>3, <1>4 DEF SessionData, SameMessages
<1>7. /\ SessionData(r) /\ SameMessages(put, r)
      /\ put.condition = "none" =>
           /\ r.condition = "none" /\ r.chatUpdate = NoEntry
           /\ \A f \in {"historyChat", "chatUpsert"} : r[f] =
                IF f = field /\ put.chatUpdate # NoEntry THEN Concat(put.chatUpdate, put[f]) ELSE put[f]
  BY <1>2, <1>4, <1>6, AbsorbFields
<1> HIDE DEF r, s
<1>8. /\ DOMAIN s = DataFields /\ s.historySet = r.historySet /\ SameMessages(r, s)
      /\ s.historyChat = r.historyChat /\ s.chatUpsert = r.chatUpsert
      /\ s.chatUpdate = r.chatUpdate /\ s.condition = r.condition /\ s.chatDelete = FALSE
  BY <1>5, <1>7 DEF SessionData, SameMessages, DataFields
<1>9. SessionData(s) /\ SameMessages(d, s)
  BY <1>3, <1>7, <1>8 DEF SessionData, SameMessages
<1>10. ASSUME NEW known, ChatApart(d, known), d.historyChat # NoEntry
       PROVE  ChatIs(s, Concat(d.historyChat, e.count), NoEntry, NoEntry)
  BY <1>2, <1>3, <1>7, <1>8, <1>10 DEF ChatApart, ChatIs
<1>11. ASSUME NEW known, ChatApart(d, known), d.historyChat = NoEntry
       PROVE  ChatIs(s, NoEntry,
                     IF d.chatUpsert # NoEntry THEN Concat(d.chatUpsert, e.count)
                     ELSE IF d.chatUpdate # NoEntry THEN Concat(d.chatUpdate, e.count)
                     ELSE e.count, NoEntry)
  BY <1>2, <1>3, <1>7, <1>8, <1>11 DEF ChatApart, ChatIs
<1> HIDE DEF s
<1> QED BY <1>9, <1>10, <1>11 DEF s

(* chats.update. *)
LEMMA ChatUpdateFields ==
    ASSUME NEW d, SessionData(d), NEW e \in HandedEvents, e.count # NoEntry
    PROVE  /\ SessionData(AppendChatUpdate(d, e)) /\ SameMessages(d, AppendChatUpdate(d, e))
           /\ \A known : ChatApart(d, known) /\ Condition(d, e.condition) = "true" =>
                CASE d.historyChat # NoEntry ->
                       ChatIs(AppendChatUpdate(d, e), Concat(d.historyChat, e.count), NoEntry, NoEntry)
                  [] d.historyChat = NoEntry /\ d.chatUpsert # NoEntry ->
                       ChatIs(AppendChatUpdate(d, e), NoEntry, Concat(d.chatUpsert, e.count), NoEntry)
                  [] d.historyChat = NoEntry /\ d.chatUpsert = NoEntry ->
                       ChatIs(AppendChatUpdate(d, e), NoEntry, NoEntry,
                              IF d.chatUpdate # NoEntry THEN Concat(d.chatUpdate, e.count)
                              ELSE e.count)
           /\ Condition(d, e.condition) = "false" =>
                /\ AppendChatUpdate(d, e).historyChat = d.historyChat
                /\ AppendChatUpdate(d, e).chatUpsert = d.chatUpsert
                /\ AppendChatUpdate(d, e).chatUpdate = d.chatUpdate
                /\ AppendChatUpdate(d, e).condition = d.condition
                /\ ~ AppendChatUpdate(d, e).chatDelete
<1> DEFINE field == UpdateField(d)
           decided == Condition(d, e.condition)
           put == [d EXCEPT ![field] = Concat(IF @ = NoEntry THEN NoField ELSE @, e.count)]
           taken == CASE decided = "true" -> put
                      [] decided = "undecided" ->
                           [d EXCEPT !.chatUpdate = e.count, !.condition = e.condition]
                      [] OTHER -> d
           s == AppendChatUpdate(d, e)
<1>1. /\ DOMAIN d = DataFields /\ d.historyChat \in Counts /\ d.chatUpsert \in Counts
      /\ d.chatUpdate \in Counts /\ e.count \in Counts /\ NoField \in Counts /\ NoField # NoEntry
  BY DEF SessionData, HandedEvents, Counts, NoField, NoEntry
<1>2. /\ field \in {"historyChat", "chatUpsert", "chatUpdate"}
      /\ field = "historyChat" <=> d.historyChat # NoEntry
      /\ field = "chatUpsert" <=> d.historyChat = NoEntry /\ d.chatUpsert # NoEntry
  BY DEF UpdateField
<1>3. s = [taken EXCEPT !.chatDelete = FALSE]
  BY Zenon DEF AppendChatUpdate
<1> HIDE DEF field
<1>4. /\ DOMAIN put = DataFields /\ SameMessages(d, put) /\ put.historySet = d.historySet
      /\ put.condition = d.condition
      /\ put[field] = Concat(IF d[field] = NoEntry THEN NoField ELSE d[field], e.count)
      /\ \A f \in {"historyChat", "chatUpsert", "chatUpdate"} : f # field => put[f] = d[f]
  BY <1>1, <1>2 DEF SameMessages, DataFields
<1>5. put[field] \in Counts /\ put[field] = IF d[field] = NoEntry THEN e.count
                                            ELSE Concat(d[field], e.count)
  BY <1>1, <1>2, <1>4, ConcatTells
<1>6. /\ taken = IF decided = "true" THEN put
                 ELSE IF decided = "undecided"
                 THEN [d EXCEPT !.chatUpdate = e.count, !.condition = e.condition] ELSE d
      /\ decided \in {"true", "undecided", "false"}
  <2>1. decided \in {"true", "undecided", "false"}
    BY DEF Condition
  <2> HIDE DEF put, decided
  <2> QED BY <2>1
<1> HIDE DEF put, decided
<1>7. /\ DOMAIN taken = DataFields /\ SameMessages(d, taken) /\ taken.historySet = d.historySet
      /\ taken.historyChat \in Counts /\ taken.chatUpsert \in Counts /\ taken.chatUpdate \in Counts
      /\ taken.historyChat # NoEntry => d.historyChat # NoEntry
  <2>1. CASE decided = "true"
    BY <1>1, <1>2, <1>4, <1>5, <1>6, <2>1 DEF SameMessages
  <2>2. CASE decided = "undecided"
    BY <1>1, <1>6, <2>2 DEF SameMessages, DataFields
  <2>3. CASE decided = "false"
    BY <1>1, <1>6, <2>3 DEF SameMessages
  <2> QED BY <1>6, <2>1, <2>2, <2>3
<1> HIDE DEF taken, s
<1>8. /\ DOMAIN s = DataFields /\ s.historySet = taken.historySet /\ SameMessages(taken, s)
      /\ s.historyChat = taken.historyChat /\ s.chatUpsert = taken.chatUpsert
      /\ s.chatUpdate = taken.chatUpdate /\ s.condition = taken.condition /\ s.chatDelete = FALSE
  BY <1>3, <1>7 DEF SameMessages, DataFields
<1>9. SessionData(s) /\ SameMessages(d, s)
  BY <1>7, <1>8 DEF SessionData, SameMessages
<1>10. ASSUME NEW known, ChatApart(d, known), decided = "true"
       PROVE  ChatIs(s, IF d.historyChat # NoEntry THEN Concat(d.historyChat, e.count) ELSE NoEntry,
                     IF d.historyChat = NoEntry /\ d.chatUpsert # NoEntry
                     THEN Concat(d.chatUpsert, e.count) ELSE NoEntry,
                     IF d.historyChat # NoEntry \/ d.chatUpsert # NoEntry THEN NoEntry
                     ELSE IF d.chatUpdate # NoEntry THEN Concat(d.chatUpdate, e.count) ELSE e.count)
  <2>1. taken = put
    BY <1>6, <1>10
  <2> QED BY <1>2, <1>4, <1>5, <1>8, <1>10, <2>1 DEF ChatApart, ChatIs
<1>11. ASSUME decided = "false"
       PROVE  /\ s.historyChat = d.historyChat /\ s.chatUpsert = d.chatUpsert
              /\ s.chatUpdate = d.chatUpdate /\ s.condition = d.condition /\ ~ s.chatDelete
  BY <1>6, <1>8, <1>11
<1> QED BY <1>9, <1>10, <1>11 DEF s, decided

(* chats.delete. *)
LEMMA ChatDeleteFields ==
    ASSUME NEW d, SessionData(d)
    PROVE  /\ SessionData(AppendChatDelete(d)) /\ SameMessages(d, AppendChatDelete(d))
           /\ AppendChatDelete(d).historyChat = NoEntry /\ AppendChatDelete(d).chatUpsert = NoEntry
           /\ AppendChatDelete(d).chatUpdate = NoEntry /\ AppendChatDelete(d).condition = "none"
           /\ AppendChatDelete(d).chatDelete
<1> DEFINE s == AppendChatDelete(d)
<1>1. DOMAIN d = DataFields /\ NoEntry \in Counts
  BY DEF SessionData, Counts
<1>2. /\ DOMAIN s = DataFields /\ SameMessages(d, s) /\ s.historySet = d.historySet
      /\ s.historyChat = NoEntry /\ s.chatUpsert = NoEntry /\ s.chatUpdate = NoEntry
      /\ s.condition = "none" /\ s.chatDelete = TRUE
  BY <1>1 DEF AppendChatDelete, DropChatUpdate, DataFields, SameMessages
<1> HIDE DEF s
<1>3. SessionData(s)
  BY <1>1, <1>2 DEF SessionData, SameMessages
<1> QED BY <1>2, <1>3 DEF s

(* messaging-history.set: m is told anew unless it is known. *)
LEMMA HistoryFields ==
    ASSUME NEW d, SessionData(d), NEW known, NEW e \in HandedEvents, e.count # NoEntry
    PROVE  /\ SessionData(AppendHistory(d, known, e))
           /\ \A m \in Messages : AppendHistory(d, known, e).history[m] =
                IF m \in e.messages /\ d.history[m] = NoEntry /\ m \notin known
                THEN 0 ELSE d.history[m]
           /\ AppendHistory(d, known, e).upserts = d.upserts
           /\ AppendHistory(d, known, e).updates = d.updates
           /\ AppendHistory(d, known, e).deletes = d.deletes
           /\ AppendHistory(d, known, e).chatDelete = d.chatDelete
           /\ d.historyChat = NoEntry /\ "chat" \notin known /\ d.condition = "none" =>
                /\ AppendHistory(d, known, e).historyChat =
                     IF d.chatUpdate # NoEntry THEN Concat(d.chatUpdate, e.count) ELSE e.count
                /\ AppendHistory(d, known, e).chatUpsert = d.chatUpsert
                /\ AppendHistory(d, known, e).chatUpdate = NoEntry
                /\ AppendHistory(d, known, e).condition = "none"
<1> DEFINE taken == {m \in e.messages : d.history[m] = NoEntry /\ m \notin known}
           set == [d EXCEPT !.historySet = TRUE,
                            !.history = [m \in Messages |-> IF m \in taken THEN 0 ELSE @[m]]]
           put == [set EXCEPT !.historyChat = e.count]
           s == AppendHistory(d, known, e)
<1>1. /\ DOMAIN d = DataFields /\ d.history \in [Messages -> Entry] /\ e.count \in Counts
      /\ d.historyChat \in Counts /\ d.chatUpsert \in Counts /\ d.chatUpdate \in Counts
  BY DEF SessionData, HandedEvents
<1>2. s = IF d.historyChat = NoEntry /\ "chat" \notin known THEN Absorb(put, "historyChat") ELSE set
  BY Zenon DEF AppendHistory
<1>3. /\ DOMAIN set = DataFields /\ set.historySet = TRUE
      /\ set.history = [m \in Messages |-> IF m \in taken THEN 0 ELSE d.history[m]]
      /\ set.upserts = d.upserts /\ set.updates = d.updates /\ set.deletes = d.deletes
      /\ SameChat(d, set)
  BY <1>1 DEF DataFields, SameChat
<1> HIDE DEF set
<1>4. /\ DOMAIN put = DataFields /\ put.historySet = TRUE /\ SameMessages(set, put)
      /\ put.historyChat = e.count /\ put.chatUpsert = d.chatUpsert
      /\ put.chatUpdate = d.chatUpdate /\ put.condition = d.condition
      /\ put.chatDelete = d.chatDelete
  BY <1>3 DEF DataFields, SameMessages, SameChat
<1> HIDE DEF put, s
<1>5. set.history \in [Messages -> Entry]
  BY <1>1, <1>3 DEF Entry
<1>6. SessionData(set)
  BY <1>1, <1>3, <1>5 DEF SessionData, SameChat
<1>7. SessionData(put)
  BY <1>1, <1>4, <1>6 DEF SessionData, SameMessages
<1>8. /\ SessionData(Absorb(put, "historyChat")) /\ SameMessages(put, Absorb(put, "historyChat"))
      /\ Absorb(put, "historyChat").chatDelete = put.chatDelete
      /\ put.condition = "none" =>
           /\ Absorb(put, "historyChat").condition = "none"
           /\ Absorb(put, "historyChat").chatUpdate = NoEntry
           /\ Absorb(put, "historyChat").historyChat =
                IF put.chatUpdate # NoEntry THEN Concat(put.chatUpdate, put.historyChat)
                ELSE put.historyChat
           /\ Absorb(put, "historyChat").chatUpsert = put.chatUpsert
  BY <1>4, <1>7, AbsorbFields
<1>9. SessionData(s) /\ SameMessages(set, s) /\ s.chatDelete = d.chatDelete
  BY <1>2, <1>3, <1>4, <1>6, <1>8 DEF SameMessages, SameChat
<1>10. \A m \in Messages : set.history[m] =
         IF m \in e.messages /\ d.history[m] = NoEntry /\ m \notin known THEN 0 ELSE d.history[m]
  BY <1>3
<1>11. d.historyChat = NoEntry /\ "chat" \notin known /\ d.condition = "none" =>
         /\ s.historyChat = IF d.chatUpdate # NoEntry THEN Concat(d.chatUpdate, e.count) ELSE e.count
         /\ s.chatUpsert = d.chatUpsert /\ s.chatUpdate = NoEntry /\ s.condition = "none"
  BY <1>2, <1>4, <1>8
<1> QED BY <1>3, <1>9, <1>10, <1>11 DEF s, SameMessages

(* messages.upsert. *)
LEMMA UpsertFields ==
    ASSUME NEW d, SessionData(d), NEW e \in HandedEvents
    PROVE  /\ SessionData(AppendUpsert(d, e)) /\ SameChat(d, AppendUpsert(d, e))
           /\ AppendUpsert(d, e).deletes = d.deletes
           /\ \A m \in Messages :
                /\ m \notin e.messages =>
                     /\ AppendUpsert(d, e).history[m] = d.history[m]
                     /\ AppendUpsert(d, e).upserts[m] = d.upserts[m]
                     /\ AppendUpsert(d, e).updates[m] = d.updates[m]
                /\ m \in e.messages =>
                     /\ AppendUpsert(d, e).updates[m] = NoEntry
                     /\ d.history[m] = NoEntry =>
                          /\ AppendUpsert(d, e).history[m] = NoEntry
                          /\ AppendUpsert(d, e).upserts[m] =
                               IF d.updates[m] = NoEntry THEN e.values[m] ELSE d.updates[m]
                     /\ d.history[m] # NoEntry =>
                          /\ AppendUpsert(d, e).upserts[m] = d.upserts[m]
                          /\ AppendUpsert(d, e).history[m] =
                               IF d.updates[m] = NoEntry THEN e.values[m] ELSE d.updates[m]
<1> DEFINE s == AppendUpsert(d, e)
           value(m) == IF d.updates[m] = NoEntry THEN e.values[m] ELSE d.updates[m]
           history == [m \in Messages |->
                         IF m \in e.messages /\ d.history[m] # NoEntry THEN value(m)
                         ELSE d.history[m]]
           upserts == [m \in Messages |->
                         IF m \in e.messages /\ d.history[m] = NoEntry THEN value(m)
                         ELSE d.upserts[m]]
           updates == [m \in Messages |-> IF m \in e.messages THEN NoEntry ELSE d.updates[m]]
<1>1. /\ DOMAIN d = DataFields /\ d.history \in [Messages -> Entry]
      /\ d.upserts \in [Messages -> Entry] /\ d.updates \in [Messages -> Entry]
      /\ e.values \in [Messages -> Entry] /\ NoEntry \in Entry
  BY DEF SessionData, HandedEvents, Entry
<1>2. /\ DOMAIN s = DataFields /\ s.history = history /\ s.upserts = upserts
      /\ s.updates = updates /\ s.deletes = d.deletes /\ s.historySet = d.historySet
      /\ SameChat(d, s)
  BY <1>1 DEF AppendUpsert, DataFields, SameChat
<1>3. /\ history \in [Messages -> Entry] /\ upserts \in [Messages -> Entry]
      /\ updates \in [Messages -> Entry]
  BY <1>1
<1>4. \A m \in Messages : history[m] # NoEntry => d.history[m] # NoEntry
  BY <1>1
<1>5. \A m \in Messages :
        /\ m \notin e.messages => /\ history[m] = d.history[m] /\ upserts[m] = d.upserts[m]
                                  /\ updates[m] = d.updates[m]
        /\ m \in e.messages =>
             /\ updates[m] = NoEntry
             /\ d.history[m] = NoEntry => history[m] = NoEntry /\ upserts[m] = value(m)
             /\ d.history[m] # NoEntry => upserts[m] = d.upserts[m] /\ history[m] = value(m)
  BY <1>1
<1> HIDE DEF s, history, upserts, updates
<1>6. SessionData(s)
  BY <1>2, <1>3, <1>4 DEF SessionData, SameChat
<1> QED BY <1>2, <1>5, <1>6 DEF s

(* An update that marks the last unread message as read leaves the chat    *)
(* without a count.                                                        *)
LEMMA DecrementFields ==
    ASSUME NEW d, SessionData(d)
    PROVE  /\ SessionData(Decrement(d)) /\ SameMessages(d, Decrement(d))
           /\ Decrement(d).historyChat = d.historyChat /\ Decrement(d).condition = d.condition
           /\ Decrement(d).chatDelete = d.chatDelete
           /\ d[CountedField(d)] # 1 =>
                /\ \A known : /\ UnreadBy(known, Decrement(d).chatUpsert) = UnreadBy(known, d.chatUpsert)
                              /\ UnreadBy(known, Decrement(d).chatUpdate) = UnreadBy(known, d.chatUpdate)
                /\ Decrement(d).chatUpsert # NoEntry <=> d.chatUpsert # NoEntry
                /\ Decrement(d).chatUpdate # NoEntry <=> d.chatUpdate # NoEntry
<1> DEFINE s == Decrement(d)
           field == CountedField(d)
           count == IF d[field] > 1 THEN d[field] - 1 ELSE IF d[field] = 1 THEN NoField ELSE d[field]
<1>1. /\ DOMAIN d = DataFields /\ field \in {"chatUpdate", "chatUpsert"}
      /\ d.chatUpdate \in Counts /\ d.chatUpsert \in Counts /\ d[field] \in Counts
  BY DEF SessionData, CountedField
<1> HIDE DEF field
<1>2. /\ DOMAIN s = DataFields /\ SameMessages(d, s) /\ s.historySet = d.historySet
      /\ s.historyChat = d.historyChat /\ s.condition = d.condition /\ s.chatDelete = d.chatDelete
      /\ s[field] = count
      /\ \A f \in {"chatUpdate", "chatUpsert"} : f # field => s[f] = d[f]
  BY <1>1 DEF Decrement, DataFields, SameMessages, field
<1>3. /\ count \in Counts
      /\ d[field] # 1 => /\ \A known : UnreadBy(known, count) = UnreadBy(known, d[field])
                         /\ count # NoEntry <=> d[field] # NoEntry
  BY <1>1 DEF Counts, NoEntry, NoField, Null, Marked, UnreadBy
<1> HIDE DEF s, count
<1>4. s.chatUpdate \in Counts /\ s.chatUpsert \in Counts
  BY <1>1, <1>2, <1>3
<1>5. SessionData(s)
  BY <1>2, <1>4 DEF SessionData, SameMessages
<1>6. ASSUME d[field] # 1, NEW f \in {"chatUpdate", "chatUpsert"}
      PROVE  /\ \A known : UnreadBy(known, s[f]) = UnreadBy(known, d[f])
             /\ s[f] # NoEntry <=> d[f] # NoEntry
  BY <1>2, <1>3, <1>6
<1> QED BY <1>2, <1>5, <1>6 DEF s, field

(* messages.update. *)
LEMMA UpdateFields ==
    ASSUME NEW d, SessionData(d), NEW e \in HandedEvents
    PROVE  /\ SessionData(AppendUpdate(d, e)) /\ AppendUpdate(d, e).deletes = d.deletes
           /\ \A m \in Messages :
                /\ m \notin e.messages \/ (d.history[m] = NoEntry /\ d.upserts[m] = NoEntry) =>
                     /\ AppendUpdate(d, e).history[m] = d.history[m]
                     /\ AppendUpdate(d, e).upserts[m] = d.upserts[m]
                     /\ AppendUpdate(d, e).updates[m] =
                          IF m \in e.messages THEN e.values[m] ELSE d.updates[m]
                /\ m \in e.messages /\ (d.history[m] # NoEntry \/ d.upserts[m] # NoEntry) =>
                     /\ AppendUpdate(d, e).history[m] =
                          IF d.history[m] # NoEntry THEN e.values[m] ELSE NoEntry
                     /\ AppendUpdate(d, e).upserts[m] =
                          IF d.history[m] # NoEntry THEN d.upserts[m] ELSE e.values[m]
                     /\ AppendUpdate(d, e).updates[m] = d.updates[m]
           /\ AppendUpdate(d, e).historyChat = d.historyChat
           /\ AppendUpdate(d, e).condition = d.condition
           /\ AppendUpdate(d, e).chatDelete = d.chatDelete
           /\ d[CountedField(d)] # 1 \/ e.type # "read" =>
                /\ \A known :
                     /\ UnreadBy(known, AppendUpdate(d, e).chatUpsert) = UnreadBy(known, d.chatUpsert)
                     /\ UnreadBy(known, AppendUpdate(d, e).chatUpdate) = UnreadBy(known, d.chatUpdate)
                /\ AppendUpdate(d, e).chatUpsert # NoEntry <=> d.chatUpsert # NoEntry
                /\ AppendUpdate(d, e).chatUpdate # NoEntry <=> d.chatUpdate # NoEntry
<1> DEFINE s == AppendUpdate(d, e)
           inHistory == {m \in e.messages : d.history[m] # NoEntry}
           inUpserts == {m \in e.messages : d.upserts[m] # NoEntry} \ inHistory
           merged(entries, ms) == [m \in Messages |-> IF m \in ms THEN e.values[m] ELSE entries[m]]
           history == merged(d.history, inHistory)
           upserts == merged(d.upserts, inUpserts)
           updates == merged(d.updates, e.messages \ (inHistory \cup inUpserts))
           updated == [d EXCEPT !.history = merged(@, inHistory),
                                !.upserts = merged(@, inUpserts),
                                !.updates = merged(@, e.messages \ (inHistory \cup inUpserts))]
<1>1. /\ DOMAIN d = DataFields /\ d.history \in [Messages -> Entry]
      /\ d.upserts \in [Messages -> Entry] /\ d.updates \in [Messages -> Entry]
      /\ e.values \in [Messages -> Entry] /\ NoEntry \in Entry
  BY DEF SessionData, HandedEvents, Entry
<1>2. s = IF e.type = "read" /\ inHistory \cup inUpserts # {} THEN Decrement(updated) ELSE updated
  BY Zenon DEF AppendUpdate
<1>3. /\ DOMAIN updated = DataFields /\ updated.history = history /\ updated.upserts = upserts
      /\ updated.updates = updates /\ updated.deletes = d.deletes
      /\ updated.historySet = d.historySet /\ SameChat(d, updated)
  BY <1>1 DEF DataFields, SameChat
<1>4. /\ history \in [Messages -> Entry] /\ upserts \in [Messages -> Entry]
      /\ updates \in [Messages -> Entry]
  BY <1>1
<1>5. \A m \in Messages :
        /\ history[m] # NoEntry => d.history[m] # NoEntry
        /\ m \notin e.messages \/ (d.history[m] = NoEntry /\ d.upserts[m] = NoEntry) =>
             /\ history[m] = d.history[m] /\ upserts[m] = d.upserts[m]
             /\ updates[m] = IF m \in e.messages THEN e.values[m] ELSE d.updates[m]
        /\ m \in e.messages /\ (d.history[m] # NoEntry \/ d.upserts[m] # NoEntry) =>
             /\ history[m] = IF d.history[m] # NoEntry THEN e.values[m] ELSE NoEntry
             /\ upserts[m] = IF d.history[m] # NoEntry THEN d.upserts[m] ELSE e.values[m]
             /\ updates[m] = d.updates[m]
  BY <1>1
<1> HIDE DEF history, upserts, updates, updated
<1>6. SessionData(updated)
  BY <1>3, <1>4, <1>5 DEF SessionData, SameChat
<1>7. CountedField(updated) = CountedField(d) /\ updated[CountedField(d)] = d[CountedField(d)]
  BY <1>3 DEF CountedField, SameChat
<1>8. /\ SessionData(Decrement(updated)) /\ SameMessages(updated, Decrement(updated))
      /\ Decrement(updated).historyChat = updated.historyChat
      /\ Decrement(updated).condition = updated.condition
      /\ Decrement(updated).chatDelete = updated.chatDelete
      /\ d[CountedField(d)] # 1 =>
           /\ \A known :
                /\ UnreadBy(known, Decrement(updated).chatUpsert) = UnreadBy(known, updated.chatUpsert)
                /\ UnreadBy(known, Decrement(updated).chatUpdate) = UnreadBy(known, updated.chatUpdate)
           /\ Decrement(updated).chatUpsert # NoEntry <=> updated.chatUpsert # NoEntry
           /\ Decrement(updated).chatUpdate # NoEntry <=> updated.chatUpdate # NoEntry
  BY <1>6, <1>7, DecrementFields
<1> HIDE DEF s, inHistory, inUpserts
<1>9. CASE s = updated
  BY <1>3, <1>5, <1>6, <1>9 DEF s, SameChat
<1>10. CASE s = Decrement(updated) /\ e.type = "read"
  <2>1. /\ s.history = history /\ s.upserts = upserts /\ s.updates = updates
        /\ s.deletes = d.deletes /\ SessionData(s)
    BY <1>3, <1>8, <1>10 DEF SameMessages
  <2>2. /\ s.historyChat = d.historyChat /\ s.condition = d.condition
        /\ s.chatDelete = d.chatDelete
        /\ d[CountedField(d)] # 1 =>
             /\ \A known : /\ UnreadBy(known, s.chatUpsert) = UnreadBy(known, d.chatUpsert)
                           /\ UnreadBy(known, s.chatUpdate) = UnreadBy(known, d.chatUpdate)
             /\ s.chatUpsert # NoEntry <=> d.chatUpsert # NoEntry
             /\ s.chatUpdate # NoEntry <=> d.chatUpdate # NoEntry
    BY <1>3, <1>8, <1>10 DEF SameChat
  <2> QED BY <1>5, <1>10, <2>1, <2>2 DEF s
<1> QED BY <1>2, <1>9, <1>10

(* messages.delete. *)
LEMMA DeleteFields ==
    ASSUME NEW d, SessionData(d), NEW e \in HandedEvents
    PROVE  /\ SessionData(AppendDelete(d, e)) /\ SameChat(d, AppendDelete(d, e))
           /\ AppendDelete(d, e).deletes = d.deletes \cup e.messages
           /\ AppendDelete(d, e).history = d.history
           /\ \A m \in Messages :
                /\ AppendDelete(d, e).upserts[m] =
                     IF m \in e.messages THEN NoEntry ELSE d.upserts[m]
                /\ AppendDelete(d, e).updates[m] =
                     IF m \in e.messages THEN NoEntry ELSE d.updates[m]
<1> DEFINE s == AppendDelete(d, e)
           without(entries) == [m \in Messages |-> IF m \in e.messages THEN NoEntry ELSE entries[m]]
<1>1. /\ DOMAIN d = DataFields /\ d.upserts \in [Messages -> Entry]
      /\ d.updates \in [Messages -> Entry] /\ NoEntry \in Entry /\ e.messages \subseteq Messages
  BY DEF SessionData, HandedEvents, Entry
<1>2. /\ DOMAIN s = DataFields /\ s.history = d.history /\ s.upserts = without(d.upserts)
      /\ s.updates = without(d.updates) /\ s.deletes = d.deletes \cup e.messages
      /\ s.historySet = d.historySet /\ SameChat(d, s)
  BY <1>1 DEF AppendDelete, DataFields, SameChat
<1>3. without(d.upserts) \in [Messages -> Entry] /\ without(d.updates) \in [Messages -> Entry]
  BY <1>1
<1> HIDE DEF s
<1>4. SessionData(s)
  BY <1>1, <1>2, <1>3 DEF SessionData, SameChat
<1> QED BY <1>2, <1>4 DEF s

-----------------------------------------------------------------------------
(* An event is buffered: of a message it is not excused for, the flush     *)
(* will tell what the event alone would have told, or a later update.      *)
LEMMA MessageAppended ==
    ASSUME NEW d, SessionData(d), NEW e, Emittable(e), NEW known, NEW m \in Messages,
           MessageApart(d, m), NEW v \in Entry, NEW told \in Entry,
           NotOlder(FlushedMessage(v, d, m), told),
           m \in e.messages /\ m \in d.deletes =>
               e.event \notin {"messages.upsert", "messaging-history.set"},
           m \in e.messages /\ e.event = "messaging-history.set" =>
               /\ ~ (m \in known /\ told = NoEntry)
               /\ d.upserts[m] = NoEntry /\ d.updates[m] = NoEntry
    PROVE  /\ MessageApart(AppendEvent(d, known, e), m)
           /\ NotOlder(FlushedMessage(v, AppendEvent(d, known, e), m),
                       IF e.condition = "older" THEN told ELSE ShownMessage(told, e, m))
<1> DEFINE r == AppendEvent(d, known, e)
           now == IF e.condition = "older" THEN told ELSE ShownMessage(told, e, m)
<1>1. /\ e \in HandedEvents /\ e.count # NoEntry /\ e.messages \subseteq Messages
      /\ e.event \in OfTheChat \cup OfMessages
  BY DEF Emittable, HandedEvents
<1>2. /\ d.history[m] \in Entry /\ d.upserts[m] \in Entry /\ d.updates[m] \in Entry
      /\ \A n \in Nat : n # NoEntry /\ n > NoEntry
  BY DEF SessionData, NoEntry
<1>3. m \notin e.messages => now = told
  BY DEF ShownMessage
<1>4. m \in e.messages => /\ e.condition = "none" \/ e.event = "chats.update"
                          /\ e.event \notin {"chats.update", "chats.upsert", "chats.delete"}
                          /\ e.condition # "older"
  BY DEF Emittable
<1>5. ASSUME SameMessages(d, r), m \notin e.messages
      PROVE  MessageApart(r, m) /\ NotOlder(FlushedMessage(v, r, m), now)
  BY <1>3, <1>5 DEF SameMessages, MessageApart, FlushedMessage
<1>6. CASE e.event = "chats.upsert"
  <2>1. r = AppendChatUpsert(d, e)
    BY <1>6 DEF AppendEvent
  <2>2. SameMessages(d, r)
    BY <1>1, <2>1, ChatUpsertFields
  <2> QED BY <1>4, <1>5, <1>6, <2>2
<1>7. CASE e.event = "chats.update"
  <2>1. r = AppendChatUpdate(d, e)
    BY <1>7 DEF AppendEvent
  <2>2. SameMessages(d, r)
    BY <1>1, <2>1, ChatUpdateFields
  <2> QED BY <1>4, <1>5, <1>7, <2>2
<1>8. CASE e.event = "chats.delete"
  <2>1. r = AppendChatDelete(d)
    BY <1>8 DEF AppendEvent
  <2>2. SameMessages(d, r)
    BY <2>1, ChatDeleteFields
  <2> QED BY <1>4, <1>5, <1>8, <2>2
<1>9. CASE e.event = "messaging-history.set"
  <2>1. r = AppendHistory(d, known, e)
    BY <1>9 DEF AppendEvent
  <2>2. /\ r.history[m] = IF m \in e.messages /\ d.history[m] = NoEntry /\ m \notin known
                          THEN 0 ELSE d.history[m]
        /\ r.upserts = d.upserts /\ r.updates = d.updates /\ r.deletes = d.deletes
    BY <1>1, <2>1, HistoryFields
  <2>3. CASE m \notin e.messages
    BY <1>3, <2>2, <2>3 DEF MessageApart, FlushedMessage
  <2>4. CASE m \in e.messages
    <3>1. now = 0 /\ m \notin d.deletes /\ d.upserts[m] = NoEntry /\ d.updates[m] = NoEntry
      BY <1>4, <1>9, <2>4 DEF Emittable, ShownMessage
    <3>2. FlushedMessage(v, d, m) = IF d.history[m] # NoEntry THEN d.history[m] ELSE v
      BY <3>1 DEF FlushedMessage
    <3>3. FlushedMessage(v, r, m) = IF r.history[m] # NoEntry THEN r.history[m] ELSE v
      BY <2>2, <3>1 DEF FlushedMessage
    <3>4. FlushedMessage(v, r, m) \in Nat
      BY <1>2, <1>9, <2>2, <2>4, <3>2, <3>3 DEF NotOlder, Entry, NoEntry
    <3> QED BY <1>2, <2>2, <3>1, <3>4 DEF MessageApart, NotOlder, NoEntry
  <2> QED BY <2>3, <2>4
<1>10. CASE e.event = "messages.upsert"
  <2>1. r = AppendUpsert(d, e)
    BY <1>10 DEF AppendEvent
  <2>2. /\ r.deletes = d.deletes
        /\ m \notin e.messages =>
             /\ r.history[m] = d.history[m] /\ r.upserts[m] = d.upserts[m]
             /\ r.updates[m] = d.updates[m]
        /\ m \in e.messages =>
             /\ r.updates[m] = NoEntry
             /\ d.history[m] = NoEntry =>
                  /\ r.history[m] = NoEntry
                  /\ r.upserts[m] = IF d.updates[m] = NoEntry THEN e.values[m] ELSE d.updates[m]
             /\ d.history[m] # NoEntry =>
                  /\ r.upserts[m] = d.upserts[m]
                  /\ r.history[m] = IF d.updates[m] = NoEntry THEN e.values[m] ELSE d.updates[m]
    BY <1>1, <2>1, UpsertFields
  <2>3. CASE m \notin e.messages
    BY <1>3, <2>2, <2>3 DEF MessageApart, FlushedMessage
  <2>4. CASE m \in e.messages
    <3>1. now = 0 /\ e.values[m] = 0 /\ m \notin d.deletes
      BY <1>4, <1>10, <2>4 DEF Emittable, ShownMessage
    <3>2. FlushedMessage(v, r, m) = IF d.updates[m] = NoEntry THEN 0 ELSE d.updates[m]
      BY <1>2, <2>2, <2>4, <3>1 DEF FlushedMessage, MessageApart, NoEntry
    <3>3. MessageApart(r, m)
      BY <2>2, <2>4, <3>1 DEF MessageApart
    <3> QED BY <1>2, <3>1, <3>2, <3>3 DEF NotOlder, Entry, NoEntry
  <2> QED BY <2>3, <2>4
<1>11. CASE e.event = "messages.update"
  <2>1. r = AppendUpdate(d, e)
    BY <1>11 DEF AppendEvent
  <2>2. /\ r.deletes = d.deletes
        /\ m \notin e.messages \/ (d.history[m] = NoEntry /\ d.upserts[m] = NoEntry) =>
             /\ r.history[m] = d.history[m] /\ r.upserts[m] = d.upserts[m]
             /\ r.updates[m] = IF m \in e.messages THEN e.values[m] ELSE d.updates[m]
        /\ m \in e.messages /\ (d.history[m] # NoEntry \/ d.upserts[m] # NoEntry) =>
             /\ r.history[m] = IF d.history[m] # NoEntry THEN e.values[m] ELSE NoEntry
             /\ r.upserts[m] = IF d.history[m] # NoEntry THEN d.upserts[m] ELSE e.values[m]
             /\ r.updates[m] = d.updates[m]
    BY <1>1, <2>1, UpdateFields
  <2>3. CASE m \notin e.messages
    BY <1>3, <2>2, <2>3 DEF MessageApart, FlushedMessage
  <2>4. CASE m \in e.messages
    <3>1. /\ now = IF told = NoEntry THEN NoEntry ELSE e.values[m]
          /\ e.values[m] \in Nat
      BY <1>4, <1>11, <2>4 DEF Emittable, ShownMessage
    <3>2. MessageApart(r, m)
      BY <1>2, <2>2, <2>4, <3>1 DEF MessageApart
    <3>3. CASE m \in d.deletes
      <4>1. FlushedMessage(v, d, m) = NoEntry /\ FlushedMessage(v, r, m) = NoEntry
        BY <2>2, <3>3 DEF FlushedMessage
      <4>2. told = NoEntry
        BY <4>1 DEF NotOlder, Entry, NoEntry
      <4> QED BY <3>1, <3>2, <4>1, <4>2 DEF NotOlder, NoEntry
    <3>4. CASE m \notin d.deletes
      <4>1. FlushedMessage(v, r, m) = IF FlushedMessage(v, d, m) = NoEntry THEN NoEntry ELSE e.values[m]
        BY <1>2, <2>2, <2>4, <3>1, <3>4 DEF FlushedMessage, MessageApart
      <4> QED BY <1>2, <3>1, <3>2, <4>1 DEF NotOlder, Entry, NoEntry
    <3> QED BY <3>3, <3>4
  <2> QED BY <2>3, <2>4
<1>12. CASE e.event = "messages.delete"
  <2>1. r = AppendDelete(d, e)
    BY <1>12 DEF AppendEvent
  <2>2. /\ r.deletes = d.deletes \cup e.messages /\ r.history = d.history
        /\ r.upserts[m] = IF m \in e.messages THEN NoEntry ELSE d.upserts[m]
        /\ r.updates[m] = IF m \in e.messages THEN NoEntry ELSE d.updates[m]
    BY <1>1, <2>1, DeleteFields
  <2>3. CASE m \notin e.messages
    BY <1>3, <2>2, <2>3 DEF MessageApart, FlushedMessage
  <2>4. CASE m \in e.messages
    <3>1. now = NoEntry /\ FlushedMessage(v, r, m) = NoEntry
      BY <1>4, <1>12, <2>2, <2>4 DEF Emittable, ShownMessage, FlushedMessage
    <3> QED BY <2>2, <2>4, <3>1 DEF MessageApart, NotOlder, NoEntry
  <2> QED BY <2>3, <2>4
<1>13. e.event \in {"messaging-history.set", "chats.upsert", "chats.update", "chats.delete",
                    "messages.upsert", "messages.update", "messages.delete"}
  BY <1>1 DEF OfTheChat, OfMessages
<1> QED BY <1>6, <1>7, <1>8, <1>9, <1>10, <1>11, <1>12, <1>13

(* The same of the chat. *)
LEMMA UnreadFollows ==
    ASSUME NEW e \in HandedEvents, NEW known, NEW unread \in BOOLEAN, known = 1 <=> unread
    PROVE  /\ ShownUnread(unread, e) \in BOOLEAN
           /\ UnreadAfter(known, e) = 1 <=> ShownUnread(unread, e)
           /\ e.event \notin OfTheChat => ShownUnread(unread, e) = unread
<1>1. e.count \in Counts /\ (e.event \notin OfTheChat => e.count = NoField /\ e.event # "chats.delete")
  BY DEF HandedEvents, OfTheChat
<1>2. CASE e.event = "chats.delete"
  <2>1. ShownUnread(unread, e) = FALSE /\ UnreadAfter(known, e) = 0
    BY <1>2, Zenon DEF ShownUnread, UnreadAfter
  <2>2. e.event \in OfTheChat
    BY <1>2 DEF OfTheChat
  <2>3. UnreadAfter(known, e) # 1
    BY <2>1
  <2> QED BY <2>1, <2>2, <2>3, Zenon
<1>3. CASE e.event # "chats.delete" /\ e.count \in {NoEntry, NoField}
  <2>1. ShownUnread(unread, e) = unread
    BY <1>3, Zenon DEF ShownUnread
  <2>2. UnreadAfter(known, e) = known
    BY <1>3, Zenon DEF UnreadAfter, UnreadBy
  <2> QED BY <2>1, <2>2, Zenon
<1>4. CASE e.event # "chats.delete" /\ e.count \notin {NoEntry, NoField}
  <2>1. ShownUnread(unread, e) = (e.count = Marked \/ e.count > 0)
    BY <1>4, Zenon DEF ShownUnread
  <2>2. UnreadAfter(known, e) = IF e.count = Marked \/ e.count > 0 THEN 1 ELSE 0
    BY <1>4, Zenon DEF UnreadAfter, UnreadBy
  <2>3. e.event \in OfTheChat
    BY <1>1, <1>4
  <2>4. UnreadAfter(known, e) = 1 <=> (e.count = Marked \/ e.count > 0)
    BY <2>2
  <2> QED BY <2>1, <2>3, <2>4, Zenon
<1> QED BY <1>2, <1>3, <1>4

LEMMA ChatAppended ==
    ASSUME NEW d, SessionData(d), NEW e, Emittable(e), ChatApart(d, cache), ~ ChatDiffers(d, e),
           NEW known, NEW unread \in BOOLEAN, FlushedChat(known, d) = 1 <=> unread
    PROVE  /\ ChatApart(AppendEvent(d, cache, e), CacheWith(cache, e))
           /\ FlushedChat(known, AppendEvent(d, cache, e)) = 1
                <=> (IF e.condition = "older" THEN unread ELSE ShownUnread(unread, e))
<1> DEFINE r == AppendEvent(d, cache, e)
           c == e.count
<1>1. /\ e \in HandedEvents /\ c # NoEntry /\ c \in Counts
      /\ e.event \in {"messaging-history.set", "chats.upsert", "chats.update", "chats.delete",
                      "messages.upsert", "messages.update", "messages.delete"}
      /\ e.event \in OfMessages => c = NoField
      /\ e.condition # "none" => e.event = "chats.update" /\ e.condition \in {"newer", "older"}
  BY DEF Emittable, HandedEvents, OfTheChat, OfMessages, Conditions
<1>2. /\ d.historyChat \in Counts /\ d.chatUpsert \in Counts /\ d.chatUpdate \in Counts
      /\ d.condition = "none"
  BY DEF SessionData, ChatApart
<1>3. /\ UnreadAfter(FlushedChat(known, d), e) = 1 <=> ShownUnread(unread, e)
  BY <1>1, UnreadFollows
<1>4. \A k : UnreadBy(k, NoEntry) = k
  BY DEF UnreadBy
<1>5. e.event # "messaging-history.set" => CacheWith(cache, e) = cache
  BY DEF CacheWith
<1> SUFFICES /\ ChatApart(r, CacheWith(cache, e))
             /\ FlushedChat(known, r) = IF e.condition = "older" THEN FlushedChat(known, d)
                                        ELSE UnreadAfter(FlushedChat(known, d), e)
  BY <1>3
<1> HIDE DEF c
(* What the events of messages leave: the chat says what it said. *)
<1>6. ASSUME r.historyChat = d.historyChat, r.condition = d.condition, r.chatDelete = d.chatDelete,
             \A k : /\ UnreadBy(k, r.chatUpsert) = UnreadBy(k, d.chatUpsert)
                    /\ UnreadBy(k, r.chatUpdate) = UnreadBy(k, d.chatUpdate),
             r.chatUpsert # NoEntry <=> d.chatUpsert # NoEntry,
             r.chatUpdate # NoEntry <=> d.chatUpdate # NoEntry,
             e.event \in OfMessages
      PROVE  /\ ChatApart(r, CacheWith(cache, e))
             /\ FlushedChat(known, r) = IF e.condition = "older" THEN FlushedChat(known, d)
                                        ELSE UnreadAfter(FlushedChat(known, d), e)
  <2>1. c = NoField /\ e.condition # "older" /\ e.event # "chats.delete" /\ CacheWith(cache, e) = cache
    BY <1>1, <1>5, <1>6 DEF OfMessages
  <2>2. UnreadAfter(FlushedChat(known, d), e) = FlushedChat(known, d)
    BY <2>1 DEF UnreadAfter, UnreadBy, c
  <2>3. FlushedChat(known, r) = FlushedChat(known, d)
    BY <1>6 DEF FlushedChat
  <2>4. ChatApart(r, cache)
    BY <1>6 DEF ChatApart
  <2> QED BY <2>1, <2>2, <2>3, <2>4
<1>7. CASE e.event = "messages.upsert"
  <2>1. r = AppendUpsert(d, e)
    BY <1>7 DEF AppendEvent
  <2>2. SameChat(d, r)
    BY <1>1, <2>1, UpsertFields
  <2> QED BY <1>6, <1>7, <2>2 DEF SameChat, OfMessages
<1>8. CASE e.event = "messages.delete"
  <2>1. r = AppendDelete(d, e)
    BY <1>8 DEF AppendEvent
  <2>2. SameChat(d, r)
    BY <1>1, <2>1, DeleteFields
  <2> QED BY <1>6, <1>8, <2>2 DEF SameChat, OfMessages
<1>9. CASE e.event = "messages.update"
  <2>1. r = AppendUpdate(d, e)
    BY <1>9 DEF AppendEvent
  <2>2. d[CountedField(d)] # 1 \/ e.type # "read"
    BY <1>9 DEF ChatDiffers
  <2>3. /\ r.historyChat = d.historyChat /\ r.condition = d.condition /\ r.chatDelete = d.chatDelete
        /\ \A k : /\ UnreadBy(k, r.chatUpsert) = UnreadBy(k, d.chatUpsert)
                  /\ UnreadBy(k, r.chatUpdate) = UnreadBy(k, d.chatUpdate)
        /\ r.chatUpsert # NoEntry <=> d.chatUpsert # NoEntry
        /\ r.chatUpdate # NoEntry <=> d.chatUpdate # NoEntry
    BY <1>1, <2>1, <2>2, UpdateFields
  <2> QED BY <1>6, <1>9, <2>3 DEF OfMessages
<1>10. CASE e.event = "chats.delete"
  <2>1. r = AppendChatDelete(d)
    BY <1>10 DEF AppendEvent
  <2>2. /\ r.historyChat = NoEntry /\ r.chatUpsert = NoEntry /\ r.chatUpdate = NoEntry
        /\ r.condition = "none" /\ r.chatDelete
    BY <2>1, ChatDeleteFields
  <2>3. FlushedChat(known, r) = 0 /\ UnreadAfter(FlushedChat(known, d), e) = 0
    BY <1>10, <2>2 DEF FlushedChat, UnreadAfter
  <2>4. ChatApart(r, CacheWith(cache, e)) /\ e.condition # "older"
    BY <1>1, <1>10, <2>2 DEF ChatApart
  <2> QED BY <2>3, <2>4
(* The counts of a chat that is not deleted, and of one that is. *)
<1>11. ASSUME ~ d.chatDelete
       PROVE  FlushedChat(known, d) =
                IF d.historyChat # NoEntry THEN UnreadBy(known, d.historyChat)
                ELSE IF d.chatUpsert # NoEntry THEN UnreadBy(known, d.chatUpsert)
                ELSE UnreadBy(known, d.chatUpdate)
  BY <1>4, <1>11 DEF FlushedChat, ChatApart
<1>12. ASSUME d.chatDelete, c # NoField
       PROVE  /\ d.historyChat = NoEntry /\ d.chatUpsert = NoEntry /\ d.chatUpdate = NoEntry
              /\ UnreadBy(known, c) = UnreadBy(FlushedChat(known, d), c)
  BY <1>1, <1>12 DEF FlushedChat, ChatApart, UnreadBy
<1>13. CASE e.event = "chats.upsert"
  <2>1. r = AppendChatUpsert(d, e)
    BY <1>13 DEF AppendEvent
  <2>2. CASE d.historyChat # NoEntry
    <3>1. ChatIs(r, Concat(d.historyChat, c), NoEntry, NoEntry)
      BY <1>1, <2>1, <2>2, ChatUpsertFields DEF c
    <3>2. ~ CountsDiffer(d.historyChat, c) /\ ~ d.chatDelete
      BY <1>13, <2>2 DEF ChatDiffers, Merged, UpsertField, ChatApart, c
    <3>3. UnreadBy(known, Concat(d.historyChat, c)) = UnreadBy(UnreadBy(known, d.historyChat), c)
      BY <1>1, <1>2, <2>2, <3>2, ConcatTells
    <3>4. FlushedChat(known, r) = UnreadBy(known, Concat(d.historyChat, c))
      BY <1>4, <3>1 DEF ChatIs, FlushedChat
    <3>5. ChatApart(r, CacheWith(cache, e))
      BY <1>5, <1>13, <2>2, <3>1 DEF ChatIs, ChatApart
    <3> QED BY <1>1, <1>11, <1>13, <2>2, <3>2, <3>3, <3>4, <3>5 DEF UnreadAfter, c
  <2>3. CASE d.historyChat = NoEntry /\ d.chatUpsert # NoEntry
    <3>1. ChatIs(r, NoEntry, Concat(d.chatUpsert, c), NoEntry)
      BY <1>1, <2>1, <2>3, ChatUpsertFields DEF c
    <3>2. ~ CountsDiffer(d.chatUpsert, c) /\ ~ d.chatDelete
      BY <1>13, <2>3 DEF ChatDiffers, Merged, UpsertField, ChatApart, c
    <3>3. UnreadBy(known, Concat(d.chatUpsert, c)) = UnreadBy(UnreadBy(known, d.chatUpsert), c)
      BY <1>1, <1>2, <2>3, <3>2, ConcatTells
    <3>4. FlushedChat(known, r) = UnreadBy(known, Concat(d.chatUpsert, c))
      BY <1>4, <3>1 DEF ChatIs, FlushedChat
    <3>5. ChatApart(r, CacheWith(cache, e))
      BY <3>1 DEF ChatIs, ChatApart
    <3> QED BY <1>1, <1>11, <1>13, <2>3, <3>2, <3>3, <3>4, <3>5 DEF UnreadAfter, c
  <2>4. CASE d.historyChat = NoEntry /\ d.chatUpsert = NoEntry
    <3> DEFINE n == IF d.chatUpdate # NoEntry THEN Concat(d.chatUpdate, c) ELSE c
    <3>1. ChatIs(r, NoEntry, n, NoEntry)
      BY <1>1, <2>1, <2>4, ChatUpsertFields DEF c
    <3>2. ~ CountsDiffer(d.chatUpdate, c) /\ (d.chatDelete => c # NoField)
      BY <1>13, <2>4 DEF ChatDiffers, Merged, c
    <3>3. UnreadBy(known, n) = UnreadBy(UnreadBy(known, d.chatUpdate), c)
      BY <1>1, <1>2, <1>4, <3>2, ConcatTells
    <3>4. FlushedChat(known, r) = UnreadBy(known, n)
      BY <1>4, <3>1 DEF ChatIs, FlushedChat
    <3>5. ChatApart(r, CacheWith(cache, e))
      BY <3>1 DEF ChatIs, ChatApart
    <3>6. CASE d.chatDelete
      BY <1>1, <1>12, <1>13, <3>2, <3>4, <3>5, <3>6 DEF UnreadAfter, c
    <3>7. CASE ~ d.chatDelete
      BY <1>1, <1>11, <1>13, <2>4, <3>3, <3>4, <3>5, <3>7 DEF UnreadAfter, c
    <3> QED BY <3>6, <3>7
  <2> QED BY <2>2, <2>3, <2>4
<1>14. CASE e.event = "chats.update"
  <2>1. r = AppendChatUpdate(d, e)
    BY <1>14 DEF AppendEvent
  <2>2. /\ Condition(d, e.condition) \in {"true", "false"}
        /\ Condition(d, e.condition) = "false" <=> e.condition = "older"
    BY <1>1, <1>14 DEF ChatDiffers, Condition
  <2>3. ~ CountsDiffer(d[UpdateField(d)], c) /\ (d.chatDelete => c # NoField)
    BY <1>14 DEF ChatDiffers, Merged, c
  <2>4. CASE Condition(d, e.condition) = "false"
    <3>1. /\ r.historyChat = d.historyChat /\ r.chatUpsert = d.chatUpsert
          /\ r.chatUpdate = d.chatUpdate /\ r.condition = d.condition /\ ~ r.chatDelete
      BY <1>1, <2>1, <2>4, ChatUpdateFields DEF c
    <3>2. ~ d.chatDelete
      BY <1>14, <2>4 DEF ChatDiffers
    <3>3. FlushedChat(known, r) = FlushedChat(known, d)
      BY <3>1, <3>2 DEF FlushedChat
    <3>4. ChatApart(r, cache)
      BY <3>1, <3>2 DEF ChatApart
    <3> QED BY <1>5, <1>14, <2>2, <2>4, <3>3, <3>4
  <2>5. CASE Condition(d, e.condition) = "true" /\ d.historyChat # NoEntry
    <3>1. ChatIs(r, Concat(d.historyChat, c), NoEntry, NoEntry)
      BY <1>1, <2>1, <2>5, ChatUpdateFields DEF c
    <3>2. ~ CountsDiffer(d.historyChat, c) /\ ~ d.chatDelete
      BY <2>3, <2>5 DEF UpdateField, ChatApart
    <3>3. UnreadBy(known, Concat(d.historyChat, c)) = UnreadBy(UnreadBy(known, d.historyChat), c)
      BY <1>1, <1>2, <2>5, <3>2, ConcatTells
    <3>4. FlushedChat(known, r) = UnreadBy(known, Concat(d.historyChat, c))
      BY <1>4, <3>1 DEF ChatIs, FlushedChat
    <3>5. ChatApart(r, CacheWith(cache, e))
      BY <1>5, <1>14, <2>5, <3>1 DEF ChatIs, ChatApart
    <3> QED BY <1>11, <1>14, <2>2, <2>5, <3>2, <3>3, <3>4, <3>5 DEF UnreadAfter, c
  <2>6. CASE /\ Condition(d, e.condition) = "true" /\ d.historyChat = NoEntry
             /\ d.chatUpsert # NoEntry
    <3>1. ChatIs(r, NoEntry, Concat(d.chatUpsert, c), NoEntry)
      BY <1>1, <2>1, <2>6, ChatUpdateFields DEF c
    <3>2. ~ CountsDiffer(d.chatUpsert, c) /\ ~ d.chatDelete
      BY <2>3, <2>6 DEF UpdateField, ChatApart
    <3>3. UnreadBy(known, Concat(d.chatUpsert, c)) = UnreadBy(UnreadBy(known, d.chatUpsert), c)
      BY <1>1, <1>2, <2>6, <3>2, ConcatTells
    <3>4. FlushedChat(known, r) = UnreadBy(known, Concat(d.chatUpsert, c))
      BY <1>4, <3>1 DEF ChatIs, FlushedChat
    <3>5. ChatApart(r, CacheWith(cache, e))
      BY <3>1 DEF ChatIs, ChatApart
    <3> QED BY <1>11, <1>14, <2>2, <2>6, <3>2, <3>3, <3>4, <3>5 DEF UnreadAfter, c
  <2>7. CASE /\ Condition(d, e.condition) = "true" /\ d.historyChat = NoEntry
             /\ d.chatUpsert = NoEntry
    <3> DEFINE n == IF d.chatUpdate # NoEntry THEN Concat(d.chatUpdate, c) ELSE c
    <3>1. ChatIs(r, NoEntry, NoEntry, n)
      BY <1>1, <2>1, <2>7, ChatUpdateFields DEF c
    <3>2. ~ CountsDiffer(d.chatUpdate, c)
      BY <2>3, <2>7 DEF UpdateField
    <3>3. UnreadBy(known, n) = UnreadBy(UnreadBy(known, d.chatUpdate), c)
      BY <1>1, <1>2, <1>4, <3>2, ConcatTells
    <3>4. FlushedChat(known, r) = UnreadBy(known, n)
      BY <1>4, <3>1 DEF ChatIs, FlushedChat
    <3>5. ChatApart(r, CacheWith(cache, e))
      BY <3>1 DEF ChatIs, ChatApart
    <3>6. CASE d.chatDelete
      <4>1. n = c /\ UnreadBy(known, c) = UnreadBy(FlushedChat(known, d), c)
        BY <1>12, <2>3, <3>6
      <4> QED BY <1>14, <2>2, <2>7, <3>4, <3>5, <4>1 DEF UnreadAfter, c
    <3>7. CASE ~ d.chatDelete
      BY <1>11, <1>14, <2>2, <2>7, <3>3, <3>4, <3>5, <3>7 DEF UnreadAfter, c
    <3> QED BY <3>6, <3>7
  <2> QED BY <2>2, <2>4, <2>5, <2>6, <2>7
<1>15. CASE e.event = "messaging-history.set"
  <2>1. r = AppendHistory(d, cache, e)
    BY <1>15 DEF AppendEvent
  <2>2. /\ "chat" \notin cache /\ d.historyChat = NoEntry /\ d.chatUpsert = NoEntry
        /\ ~ CountsDiffer(d.chatUpdate, c) /\ ~ d.chatDelete /\ e.condition # "older"
    BY <1>1, <1>15 DEF ChatDiffers, Merged, ChatApart, c
  <2> DEFINE n == IF d.chatUpdate # NoEntry THEN Concat(d.chatUpdate, c) ELSE c
  <2>3. ChatIs(r, n, NoEntry, NoEntry)
    BY <1>1, <1>2, <2>1, <2>2, HistoryFields DEF ChatIs, c
  <2>4. UnreadBy(known, n) = UnreadBy(UnreadBy(known, d.chatUpdate), c)
    BY <1>1, <1>2, <1>4, <2>2, ConcatTells
  <2>5. FlushedChat(known, r) = UnreadBy(known, n)
    BY <1>4, <2>3 DEF ChatIs, FlushedChat
  <2>6. "chat" \in CacheWith(cache, e)
    BY <1>15 DEF CacheWith
  <2>7. ChatApart(r, CacheWith(cache, e))
    BY <2>3, <2>6 DEF ChatIs, ChatApart
  <2> QED BY <1>11, <1>15, <2>2, <2>4, <2>5, <2>7 DEF UnreadAfter, c
<1> QED BY <1>1, <1>7, <1>8, <1>9, <1>10, <1>13, <1>14, <1>15

LEMMA AppendTyped ==
    ASSUME NEW d, SessionData(d), NEW e, Emittable(e), NEW known
    PROVE  SessionData(AppendEvent(d, known, e))
<1>1. /\ e \in HandedEvents /\ e.count # NoEntry
      /\ e.event \in {"messaging-history.set", "chats.upsert", "chats.update", "chats.delete",
                      "messages.upsert", "messages.update", "messages.delete"}
  BY DEF Emittable, HandedEvents, OfTheChat, OfMessages
<1>2. CASE e.event = "messaging-history.set"
  BY <1>1, <1>2, HistoryFields DEF AppendEvent
<1>3. CASE e.event = "chats.upsert"
  BY <1>1, <1>3, ChatUpsertFields DEF AppendEvent
<1>4. CASE e.event = "chats.update"
  BY <1>1, <1>4, ChatUpdateFields DEF AppendEvent
<1>5. CASE e.event = "chats.delete"
  BY <1>5, ChatDeleteFields DEF AppendEvent
<1>6. CASE e.event = "messages.upsert"
  BY <1>1, <1>6, UpsertFields DEF AppendEvent
<1>7. CASE e.event = "messages.update"
  BY <1>1, <1>7, UpdateFields DEF AppendEvent
<1>8. CASE e.event = "messages.delete"
  BY <1>1, <1>8, DeleteFields DEF AppendEvent
<1> QED BY <1>1, <1>2, <1>3, <1>4, <1>5, <1>6, <1>7, <1>8

LEMMA AppliedMessage ==
    ASSUME NEW v, NEW e
    PROVE  /\ \A m \in Messages : Apply(v, e).messages[m] = ShownMessage(v.messages[m], e, m)
           /\ Apply(v, e).unread = ShownUnread(v.unread, e)
BY DEF Apply

(* An event that is told at once. *)
LEMMA ShownType ==
    ASSUME NEW e \in HandedEvents, NEW m \in Messages, NEW known \in Entry
    PROVE  ShownMessage(known, e, m) \in Entry
BY DEF HandedEvents, ShownMessage

LEMMA ShownNotOlder ==
    ASSUME NEW e, Emittable(e), NEW m \in Messages, NEW shown \in Entry, NEW told \in Entry,
           NotOlder(shown, told)
    PROVE  NotOlder(ShownMessage(shown, e, m), ShownMessage(told, e, m))
<1>1. m \in e.messages => e.values[m] \in Entry
  BY DEF Emittable, HandedEvents
<1> QED BY <1>1 DEF NotOlder, ShownMessage, Entry, NoEntry

-----------------------------------------------------------------------------
(* The steps.  The buffer is flushed. *)
LEMMA FlushStep ==
    ASSUME SyncFollows, Flush, UNCHANGED <<cache, view, direct, excused>>
    PROVE  SyncFollows'
<1>1. /\ SyncTyped /\ \A m \in Messages \ excused : MessageFollows(m)
      /\ "chat" \notin excused => ChatFollows
  BY DEF SyncFollows
<1>2. CASE ~ buffering
  BY <1>2 DEF SyncFollows, SyncTyped, MessageFollows, ChatFollows, Flush, bufferVars
<1>3. CASE buffering
  <2>1. /\ buffering' = FALSE /\ deliveries' = deliveries \o Consolidate(data)
        /\ data' = KeptBack(data)
        /\ cache' = cache /\ view' = view /\ direct' = direct /\ excused' = excused
    BY <1>3 DEF Flush
  <2>2. PICK d, q, r, k : /\ d = data /\ q = deliveries /\ r = q \o Consolidate(d)
                          /\ k = KeptBack(d)
    OBVIOUS
  <2>3. SessionData(d) /\ q \in Seq(HandedEvents)
    BY <1>1, <2>2 DEF SyncTyped
  <2>4. /\ SessionData(k) /\ HandsNothing(k) /\ (d.condition = "none" => k.condition = "none")
    BY <2>2, <2>3, KeptBackHolds
  <2>5. r \in Seq(HandedEvents)
    BY <2>2, <2>3, FlushTells
  <2>6. SyncTyped'
    BY <1>1, <2>1, <2>2, <2>4, <2>5 DEF SyncTyped
  <2>7. ASSUME NEW m \in Messages \ excused
        PROVE  MessageFollows(m)'
    <3>1. PICK last \in Entry :
            /\ Leads("message", m, view.messages[m], q, last)
            /\ NotOlder(FlushedMessage(last, d, m), direct.messages[m])
      BY <1>1, <2>2 DEF MessageFollows
    <3>2. PICK first : first = view.messages[m]
      OBVIOUS
    <3>3. PICK next : next = FlushedMessage(last, d, m)
      OBVIOUS
    <3>4. Leads("message", m, first, r, next)
      BY <2>2, <2>3, <3>1, <3>2, <3>3, FlushTells
    <3>5. next \in Entry
      <4>1. /\ d.history[m] \in Entry /\ d.upserts[m] \in Entry /\ d.updates[m] \in Entry
            /\ NoEntry \in Entry
        BY <2>3 DEF SessionData, Entry
      <4> QED BY <3>3, <4>1 DEF FlushedMessage
    <3>6. MessageApart(k, m) /\ FlushedMessage(next, k, m) = next
      BY <2>4, NothingTold
    <3> QED BY <2>1, <2>2, <3>1, <3>2, <3>3, <3>4, <3>5, <3>6 DEF MessageFollows
  <2>8. ASSUME "chat" \notin excused
        PROVE  ChatFollows'
    <3>1. PICK first \in Entry, last \in Entry :
            /\ Leads("chat", NoEntry, first, q, last)
            /\ first = 1 <=> view.unread
            /\ FlushedChat(last, d) = 1 <=> direct.unread
      BY <1>1, <2>2, <2>8 DEF ChatFollows
    <3>2. d.condition = "none"
      BY <1>1, <2>2, <2>8 DEF ChatFollows, ChatApart
    <3>3. PICK next : next = FlushedChat(last, d)
      OBVIOUS
    <3>4. Leads("chat", NoEntry, first, r, next)
      BY <2>2, <2>3, <3>1, <3>2, <3>3, FlushTells
    <3>5. next \in Entry
      BY <3>3 DEF FlushedChat, UnreadBy, Entry
    <3>6. ChatApart(k, cache) /\ FlushedChat(next, k) = next
      BY <2>4, <3>2, NothingTold
    <3> QED BY <2>1, <2>2, <3>1, <3>3, <3>4, <3>5, <3>6 DEF ChatFollows
  <2> QED BY <2>1, <2>6, <2>7, <2>8 DEF SyncFollows
<1> QED BY <1>2, <1>3

(* The oldest event is told. *)
LEMMA DeliverStep ==
    ASSUME SyncFollows, Deliver
    PROVE  SyncFollows'
<1>1. /\ SyncTyped /\ \A m \in Messages \ excused : MessageFollows(m)
      /\ "chat" \notin excused => ChatFollows
  BY DEF SyncFollows
<1>2. /\ deliveries # <<>> /\ view' = Apply(view, Head(deliveries))
      /\ deliveries' = Tail(deliveries) /\ buffering' = buffering /\ data' = data
      /\ cache' = cache /\ direct' = direct /\ excused' = excused
  BY DEF Deliver
<1>3. PICK q, e, r, v : q = deliveries /\ e = Head(q) /\ r = Tail(q) /\ v = Apply(view, e)
  OBVIOUS
<1>4. q \in Seq(HandedEvents) /\ q # <<>> /\ e \in HandedEvents /\ r \in Seq(HandedEvents)
  BY <1>1, <1>2, <1>3, HeadTailProperties DEF SyncTyped
<1>5. /\ \A m \in Messages : v.messages[m] = ShownMessage(view.messages[m], e, m)
      /\ v.unread = ShownUnread(view.unread, e)
  BY <1>3, AppliedMessage
<1>6. SyncTyped'
  <2>1. \A m \in Messages : v.messages[m] \in Entry
    BY <1>1, <1>4, <1>5, ShownType DEF SyncTyped
  <2>2. v.unread \in BOOLEAN
    <3>1. view.unread \in BOOLEAN
      BY <1>1 DEF SyncTyped
    <3>2. PICK unread \in BOOLEAN : unread = view.unread
      BY <3>1
    <3>3. ShownUnread(unread, e) \in BOOLEAN
      <4>1. PICK known : known = 1 <=> unread
        <5>1. \E known : known = 1 <=> unread
          <6>1. CASE unread
            BY <6>1
          <6>2. CASE ~ unread
            <7>1. 0 # 1
              OBVIOUS
            <7> QED BY <6>2, <7>1
          <6> QED BY <6>1, <6>2
        <5> QED BY <5>1
      <4> QED BY <1>4, <4>1, UnreadFollows
    <3> QED BY <1>5, <3>2, <3>3, Zenon
  <2> QED BY <1>1, <1>2, <1>3, <1>4, <2>1, <2>2 DEF SyncTyped
<1>7. ASSUME NEW m \in Messages \ excused
      PROVE  MessageFollows(m)'
  <2>1. PICK last \in Entry :
          /\ Leads("message", m, view.messages[m], q, last)
          /\ NotOlder(FlushedMessage(last, data, m), direct.messages[m])
    BY <1>1, <1>3 DEF MessageFollows
  <2>2. Leads("message", m, ValueAfter("message", m, view.messages[m], e), r, last)
    BY <1>3, <1>4, <2>1, ChainTail
  <2>3. ValueAfter("message", m, view.messages[m], e) = v.messages[m]
    BY <1>5 DEF ValueAfter
  <2>4. MessageApart(data, m)
    BY <1>1 DEF MessageFollows
  <2> QED BY <1>2, <1>3, <2>1, <2>2, <2>3, <2>4 DEF MessageFollows
<1>8. ASSUME "chat" \notin excused
      PROVE  ChatFollows'
  <2>1. PICK first \in Entry, last \in Entry :
          /\ Leads("chat", NoEntry, first, q, last)
          /\ first = 1 <=> view.unread
          /\ FlushedChat(last, data) = 1 <=> direct.unread
    BY <1>1, <1>3, <1>8 DEF ChatFollows
  <2>2. PICK next : next = UnreadAfter(first, e)
    OBVIOUS
  <2>3. Leads("chat", NoEntry, next, r, last)
    <3>1. Leads("chat", NoEntry, ValueAfter("chat", NoEntry, first, e), r, last)
      BY <1>3, <1>4, <2>1, ChainTail
    <3> QED BY <2>2, <3>1 DEF ValueAfter
  <2>4. next \in Entry
    BY <2>2 DEF UnreadAfter, UnreadBy, Entry
  <2>5. next = 1 <=> v.unread
    <3>1. view.unread \in BOOLEAN
      BY <1>1 DEF SyncTyped
    <3>2. UnreadAfter(first, e) = 1 <=> ShownUnread(view.unread, e)
      BY <1>4, <2>1, <3>1, UnreadFollows
    <3> QED BY <1>5, <2>2, <3>2, Zenon
  <2>6. ChatApart(data, cache)
    BY <1>1, <1>8 DEF ChatFollows
  <2> QED BY <1>2, <1>3, <2>1, <2>3, <2>4, <2>5, <2>6 DEF ChatFollows
<1> QED BY <1>2, <1>6, <1>7, <1>8 DEF SyncFollows

(* Upserts that are handed out before an event of another type, and what   *)
(* remains.                                                                *)
Remaining(given) ==
    [data EXCEPT !.upserts = [m \in Messages |-> IF m \in given.messages THEN NoEntry ELSE @[m]]]

LEMMA HandedOutTells ==
    ASSUME SessionData(data), NEW e, NEW given, given = HandedOut(e),
           NEW left, left = Remaining(given)
    PROVE  /\ given \in HandedEvents /\ given.event = "messages.upsert"
           /\ \A m \in Messages : m \in given.messages =>
                /\ e.event = "messages.upsert" /\ data.upserts[m] # NoEntry
                /\ \A known : ShownMessage(known, given, m) = data.upserts[m]
           /\ SessionData(left) /\ SameChat(data, left)
           /\ left.history = data.history /\ left.updates = data.updates
           /\ left.deletes = data.deletes
           /\ \A m \in Messages : left.upserts[m] =
                IF m \in given.messages THEN NoEntry ELSE data.upserts[m]
<1>1. PICK d : d = data
  OBVIOUS
<1>2. /\ DOMAIN d = DataFields /\ d.upserts \in [Messages -> Entry] /\ NoEntry \in Entry
  BY <1>1 DEF SessionData, Entry
<1> DEFINE none == About("messages.upsert", {}, 0)
<1>3. none \in HandedEvents /\ none.event = "messages.upsert" /\ none.messages = {}
  <2>1. Blank = [event |-> "none", messages |-> {}, type |-> "none",
                 values |-> EmptyData.history, count |-> NoField, condition |-> "none"]
    BY DEF Blank
  <2>2. EmptyData.history \in [Messages -> Entry] /\ NoField \in Counts
    BY DEF EmptyData, Entry, Counts
  <2>3. [m \in Messages |-> IF m \in {} THEN 0 ELSE EmptyData.history[m]] \in [Messages -> Entry]
    BY <2>2
  <2>4. /\ none.event = "messages.upsert" /\ none.messages = {} /\ none.type = "none"
        /\ none.values = [m \in Messages |-> IF m \in {} THEN 0 ELSE EmptyData.history[m]]
        /\ none.count = NoField /\ none.condition = "none"
    BY <2>1 DEF About
  <2>5. none \in [event : OfTheChat \cup OfMessages, messages : SUBSET Messages, type : Types,
                  values : [Messages -> Entry], count : Counts, condition : Conditions]
    BY <2>1, <2>2, <2>3 DEF About, OfMessages, Types, Conditions
  <2> QED BY <2>4, <2>5 DEF HandedEvents
<1> HIDE DEF none
<1>4. given = IF e.event = "messages.upsert" /\ d.type # e.type
              THEN Entries("messages.upsert", d.upserts) ELSE none
  BY <1>1, Zenon DEF HandedOut, none
<1>5. Entries("messages.upsert", d.upserts) \in HandedEvents
  BY <1>1, HandedTypes
<1>6. /\ Entries("messages.upsert", d.upserts).messages = {k \in Messages : d.upserts[k] # NoEntry}
      /\ Entries("messages.upsert", d.upserts).event = "messages.upsert"
      /\ \A known : \A m \in Messages : ShownMessage(known, Entries("messages.upsert", d.upserts), m) =
           IF d.upserts[m] = NoEntry THEN known ELSE d.upserts[m]
  BY <1>2, EntriesTell
<1>7. given \in HandedEvents /\ given.event = "messages.upsert"
  BY <1>3, <1>4, <1>5, <1>6
<1>8. ASSUME NEW m \in Messages, m \in given.messages
      PROVE  /\ e.event = "messages.upsert" /\ d.upserts[m] # NoEntry
             /\ \A known : ShownMessage(known, given, m) = d.upserts[m]
  <2>1. given = Entries("messages.upsert", d.upserts) /\ e.event = "messages.upsert"
    BY <1>3, <1>4, <1>8
  <2>2. d.upserts[m] # NoEntry
    BY <1>6, <1>8, <2>1
  <2> QED BY <1>6, <2>1, <2>2
<1> DEFINE upserts == [m \in Messages |-> IF m \in given.messages THEN NoEntry ELSE d.upserts[m]]
<1>9. /\ DOMAIN left = DataFields /\ left.upserts = upserts /\ left.history = d.history
      /\ left.updates = d.updates /\ left.deletes = d.deletes /\ left.historySet = d.historySet
      /\ SameChat(d, left)
  BY <1>1, <1>2 DEF Remaining, DataFields, SameChat
<1>10. upserts \in [Messages -> Entry]
  BY <1>2
<1>11. SessionData(d)
  BY <1>1
<1>12. SessionData(left)
  BY <1>9, <1>10, <1>11 DEF SessionData, SameChat
<1> QED BY <1>1, <1>7, <1>8, <1>9, <1>12

LEMMA SameDiffers ==
    ASSUME NEW d, NEW r, SessionData(d), SessionData(r), SameChat(d, r), NEW e
    PROVE  ChatDiffers(d, e) = ChatDiffers(r, e)
<1>1. /\ UpdateField(d) = UpdateField(r) /\ UpsertField(d) = UpsertField(r)
      /\ CountedField(d) = CountedField(r)
      /\ Condition(d, e.condition) = Condition(r, e.condition)
  BY DEF SameChat, UpdateField, UpsertField, CountedField, Condition, ChatKnown
<1>2. /\ d[UpdateField(d)] = r[UpdateField(r)] /\ d[UpsertField(d)] = r[UpsertField(r)]
      /\ d[CountedField(d)] = r[CountedField(r)]
  BY <1>1 DEF SameChat, UpdateField, UpsertField, CountedField
<1>3. Merged(d, e) = Merged(r, e)
  BY <1>1, <1>2 DEF SameChat, Merged
<1> QED BY <1>1, <1>2, <1>3 DEF SameChat, ChatDiffers

(* An event is emitted. *)
LEMMA EmitStep ==
    ASSUME SyncFollows, NEW e, Emittable(e), Emit(e), UNCHANGED <<buffering, deliveries>>
    PROVE  SyncFollows'
<1>1. /\ SyncTyped /\ \A m \in Messages \ excused : MessageFollows(m)
      /\ "chat" \notin excused => ChatFollows
  BY DEF SyncFollows
<1>2. PICK given, left, d, q, v, x, r :
        /\ given = HandedOut(e) /\ d = data /\ q = deliveries
        /\ left = Remaining(given)
        /\ v = IF buffering THEN Apply(view, given) ELSE Apply(Apply(view, given), e)
        /\ x = IF e.condition = "older" THEN direct ELSE Apply(direct, e)
        /\ r = IF buffering THEN AppendEvent(left, cache, e) ELSE left
  OBVIOUS
<1>3. /\ buffering' = buffering /\ deliveries' = q /\ view' = v /\ direct' = x /\ data' = r
      /\ cache' = IF buffering THEN CacheWith(cache, e) ELSE cache
      /\ excused' = excused \cup ReappearsDeleted(e) \cup RepeatedHistory(e)
                       \cup HistoryAfter(e) \cup Overtaken(e, given)
                       \cup (IF ChatExcused(e) THEN {"chat"} ELSE {})
  BY <1>2, Zenon DEF Emit, Remaining
<1>4. SessionData(d) /\ q \in Seq(HandedEvents) /\ e \in HandedEvents
  BY <1>1, <1>2 DEF SyncTyped, Emittable
<1>5. /\ given \in HandedEvents /\ given.event = "messages.upsert"
      /\ \A m \in Messages : m \in given.messages =>
           /\ e.event = "messages.upsert" /\ d.upserts[m] # NoEntry
           /\ \A known : ShownMessage(known, given, m) = d.upserts[m]
      /\ SessionData(left) /\ SameChat(d, left)
      /\ left.history = d.history /\ left.updates = d.updates /\ left.deletes = d.deletes
      /\ \A m \in Messages : left.upserts[m] =
           IF m \in given.messages THEN NoEntry ELSE d.upserts[m]
  <2>1. SessionData(data) /\ given = HandedOut(e)
    BY <1>2, <1>4
  <2>2. left = Remaining(given)
    BY <1>2, Zenon
  <2>3. /\ given \in HandedEvents /\ given.event = "messages.upsert"
        /\ \A m \in Messages : m \in given.messages =>
             /\ e.event = "messages.upsert" /\ data.upserts[m] # NoEntry
             /\ \A known : ShownMessage(known, given, m) = data.upserts[m]
        /\ SessionData(left) /\ SameChat(data, left)
        /\ left.history = data.history /\ left.updates = data.updates
        /\ left.deletes = data.deletes
        /\ \A m \in Messages : left.upserts[m] =
             IF m \in given.messages THEN NoEntry ELSE data.upserts[m]
    BY <2>1, <2>2, HandedOutTells
  <2>4. data = d
    BY <1>2
  <2> QED BY <2>3, <2>4
<1>6. /\ \A m \in Messages : Apply(view, given).messages[m] = ShownMessage(view.messages[m], given, m)
      /\ Apply(view, given).unread = view.unread
  <2>1. given.count = NoField /\ given.event # "chats.delete"
    BY <1>5 DEF HandedEvents, OfTheChat
  <2>2. Apply(view, given).unread = view.unread
    BY <2>1, AppliedMessage DEF ShownUnread
  <2> QED BY <2>2, AppliedMessage
<1>7. /\ \A m \in Messages : v.messages[m] =
           IF buffering THEN ShownMessage(view.messages[m], given, m)
           ELSE ShownMessage(ShownMessage(view.messages[m], given, m), e, m)
      /\ buffering => v.unread = view.unread
      /\ ~ buffering => v.unread = ShownUnread(view.unread, e)
  <2>1. CASE buffering
    BY <1>2, <1>6, <2>1
  <2>2. CASE ~ buffering
    <3>1. v = Apply(Apply(view, given), e)
      BY <1>2, <2>2
    <3>2. /\ \A m \in Messages : v.messages[m] = ShownMessage(Apply(view, given).messages[m], e, m)
          /\ v.unread = ShownUnread(Apply(view, given).unread, e)
      BY <3>1, AppliedMessage
    <3>3. v.unread = ShownUnread(view.unread, e)
      BY <1>6, <3>2
    <3> QED BY <1>6, <2>2, <3>2, <3>3
  <2> QED BY <2>1, <2>2
<1>8. /\ \A m \in Messages : x.messages[m] =
           IF e.condition = "older" THEN direct.messages[m]
           ELSE ShownMessage(direct.messages[m], e, m)
      /\ e.condition = "older" => x.unread = direct.unread
      /\ e.condition # "older" => x.unread = ShownUnread(direct.unread, e)
  <2>1. CASE e.condition = "older"
    BY <1>2, <2>1
  <2>2. CASE e.condition # "older"
    <3>1. x = Apply(direct, e)
      BY <1>2, <2>2
    <3> QED BY <2>2, <3>1, AppliedMessage
  <2> QED BY <2>1, <2>2
<1>9. ~ buffering => /\ HandsNothing(d) /\ r = left /\ HandsNothing(left)
                     /\ \A m \in Messages : m \notin given.messages
  <2> SUFFICES ASSUME ~ buffering
               PROVE  /\ HandsNothing(d) /\ r = left /\ HandsNothing(left)
                      /\ \A m \in Messages : m \notin given.messages
    OBVIOUS
  <2>1. HandsNothing(d) /\ r = left
    BY <1>1, <1>2 DEF SyncTyped
  <2>2. \A m \in Messages : m \notin given.messages
    BY <1>5, <2>1 DEF HandsNothing
  <2>3. HandsNothing(left)
    BY <1>5, <2>1, <2>2 DEF HandsNothing, SameChat
  <2> QED BY <2>1, <2>2, <2>3
<1>10. SyncTyped'
  <2>1. \A m \in Messages : view.messages[m] \in Entry /\ direct.messages[m] \in Entry
    BY <1>1 DEF SyncTyped
  <2>2. \A m \in Messages : v.messages[m] \in Entry /\ x.messages[m] \in Entry
    BY <1>4, <1>5, <1>7, <1>8, <2>1, ShownType
  <2>3. ASSUME NEW unread \in BOOLEAN PROVE ShownUnread(unread, e) \in BOOLEAN
    BY Zenon DEF ShownUnread
  <2>4. v.unread \in BOOLEAN /\ x.unread \in BOOLEAN
    <3>1. view.unread \in BOOLEAN /\ direct.unread \in BOOLEAN
      BY <1>1 DEF SyncTyped
    <3>2. v.unread \in BOOLEAN
      BY <1>7, <2>3, <3>1, Zenon
    <3>3. x.unread \in BOOLEAN
      BY <1>8, <2>3, <3>1, Zenon
    <3> QED BY <3>2, <3>3
  <2>5. SessionData(r)
    BY <1>2, <1>5, AppendTyped
  <2> QED BY <1>1, <1>3, <1>4, <1>9, <2>2, <2>4, <2>5 DEF SyncTyped
<1>11. ASSUME NEW m \in Messages \ excused'
       PROVE  MessageFollows(m)'
  <2>1. /\ m \in Messages /\ m \notin excused /\ m \notin ReappearsDeleted(e)
        /\ m \notin RepeatedHistory(e) /\ m \notin HistoryAfter(e) /\ m \notin Overtaken(e, given)
    BY <1>3
  <2>2. PICK last \in Entry, first \in Entry, known \in Entry :
          /\ Leads("message", m, first, q, last) /\ first = view.messages[m]
          /\ known = direct.messages[m]
          /\ NotOlder(FlushedMessage(last, d, m), known)
    BY <1>1, <1>2, <2>1 DEF MessageFollows, SyncTyped
  <2>3. MessageApart(d, m)
    BY <1>1, <1>2, <2>1 DEF MessageFollows
  <2>4. ASSUME m \in given.messages \/ (~ buffering /\ m \in e.messages)
        PROVE  \A k \in 1 .. Len(q) : ~ Moves("message", m, q[k])
    <3>1. ~ \E k \in DOMAIN q : m \in q[k].messages
      BY <1>2, <2>1, <2>4 DEF Overtaken, Pending
    <3>2. DOMAIN q = 1 .. Len(q)
      BY <1>4
    <3> QED BY <3>1, <3>2 DEF Moves
  (* What is handed out first. *)
  <2>5. \E now, then \in Entry :
          /\ now = ShownMessage(first, given, m) /\ Leads("message", m, now, q, then)
          /\ NotOlder(FlushedMessage(then, left, m), known)
    <3>1. CASE m \notin given.messages
      <4>1. ShownMessage(first, given, m) = first
        BY <3>1 DEF ShownMessage
      <4>2. FlushedMessage(last, left, m) = FlushedMessage(last, d, m)
        BY <1>5, <3>1 DEF FlushedMessage
      <4> QED BY <2>2, <4>1, <4>2
    <3>2. CASE m \in given.messages
      <4>1. d.upserts[m] \in Entry
        BY <1>4 DEF SessionData
      <4>2. ShownMessage(first, given, m) = d.upserts[m] /\ d.upserts[m] # NoEntry
        BY <1>5, <3>2
      <4>3. PICK now \in Entry : now = d.upserts[m]
        BY <4>1
      <4>4. Leads("message", m, now, q, now)
        BY <1>4, <2>4, <3>2, ChainStays
      <4>5. /\ d.history[m] = NoEntry /\ d.updates[m] = NoEntry /\ m \notin d.deletes
        BY <2>3, <4>2 DEF MessageApart
      <4>6. FlushedMessage(last, d, m) = now /\ FlushedMessage(now, left, m) = now
        BY <1>5, <3>2, <4>2, <4>3, <4>5 DEF FlushedMessage
      <4> QED BY <2>2, <4>2, <4>3, <4>4, <4>6
    <3> QED BY <3>1, <3>2
  <2>6. PICK now \in Entry, then \in Entry :
          /\ now = ShownMessage(first, given, m) /\ Leads("message", m, now, q, then)
          /\ NotOlder(FlushedMessage(then, left, m), known)
    BY <2>5
  <2>7. MessageApart(left, m)
    BY <1>5, <2>1, <2>3 DEF MessageApart
  <2>8. CASE buffering
    <3>1. r = AppendEvent(left, cache, e)
      BY <1>2, <2>8
    <3>2. PICK c : c = cache
      OBVIOUS
    <3>3. m \in e.messages /\ m \in left.deletes =>
            e.event \notin {"messages.upsert", "messaging-history.set"}
      BY <1>2, <1>5, <2>1, <2>8 DEF ReappearsDeleted
    <3>4. m \in e.messages /\ e.event = "messaging-history.set" =>
            /\ ~ (m \in c /\ known = NoEntry)
            /\ left.upserts[m] = NoEntry /\ left.updates[m] = NoEntry
      <4> SUFFICES ASSUME m \in e.messages, e.event = "messaging-history.set"
                   PROVE  /\ ~ (m \in c /\ known = NoEntry)
                          /\ left.upserts[m] = NoEntry /\ left.updates[m] = NoEntry
        OBVIOUS
      <4>1. ~ (m \in c /\ known = NoEntry)
        BY <2>1, <2>2, <2>8, <3>2 DEF RepeatedHistory
      <4>2. d.upserts[m] = NoEntry /\ d.updates[m] = NoEntry
        BY <1>2, <2>1, <2>8 DEF HistoryAfter
      <4> QED BY <1>5, <2>1, <4>1, <4>2
    <3>5. /\ MessageApart(r, m)
          /\ NotOlder(FlushedMessage(then, r, m),
                      IF e.condition = "older" THEN known ELSE ShownMessage(known, e, m))
      BY <1>5, <2>1, <2>2, <2>6, <2>7, <3>1, <3>2, <3>3, <3>4, MessageAppended
    <3>6. v.messages[m] = now
      BY <1>7, <2>1, <2>2, <2>6, <2>8
    <3>7. x.messages[m] = IF e.condition = "older" THEN known ELSE ShownMessage(known, e, m)
      BY <1>8, <2>1, <2>2
    <3> QED BY <1>3, <2>6, <3>5, <3>6, <3>7 DEF MessageFollows
  <2>9. CASE ~ buffering
    <3>1. r = left /\ HandsNothing(left) /\ now = first
      BY <1>9, <2>1, <2>6, <2>9 DEF ShownMessage
    <3>2. NotOlder(then, known) /\ \A w : FlushedMessage(w, r, m) = w
      BY <2>1, <2>6, <3>1, NothingTold
    <3>3. v.messages[m] = ShownMessage(first, e, m)
      BY <1>7, <2>1, <2>2, <2>6, <2>9, <3>1
    <3>4. CASE m \notin e.messages
      <4>1. v.messages[m] = now /\ x.messages[m] = known
        BY <1>8, <2>1, <2>2, <3>1, <3>3, <3>4 DEF ShownMessage
      <4>2. NotOlder(FlushedMessage(then, r, m), known)
        BY <3>2
      <4> QED BY <1>3, <2>6, <2>7, <3>1, <4>1, <4>2 DEF MessageFollows
    <3>5. CASE m \in e.messages
      <4>1. then = first
        BY <2>4, <2>6, <2>9, <3>1, <3>5, ChainStayed
      <4>2. PICK next \in Entry : next = ShownMessage(first, e, m)
        BY <1>4, <2>1, <2>2, ShownType
      <4>3. Leads("message", m, next, q, next)
        BY <1>4, <2>1, <2>4, <2>9, <3>5, ChainStays
      <4>4. e.condition # "older"
        BY <3>5 DEF Emittable
      <4>5. x.messages[m] = ShownMessage(known, e, m)
        BY <1>8, <2>1, <2>2, <4>4
      <4>6. NotOlder(next, ShownMessage(known, e, m))
        BY <2>1, <2>2, <3>2, <4>1, <4>2, ShownNotOlder
      <4>7. NotOlder(FlushedMessage(next, r, m), x.messages[m])
        BY <3>2, <4>5, <4>6
      <4> QED BY <1>3, <2>7, <3>1, <3>3, <4>2, <4>3, <4>7 DEF MessageFollows
    <3> QED BY <3>4, <3>5
  <2> QED BY <2>8, <2>9
<1>12. ASSUME "chat" \notin excused'
       PROVE  ChatFollows'
  <2>1. "chat" \notin excused /\ ~ ChatExcused(e)
    BY <1>3, <1>12
  <2>2. PICK first \in Entry, last \in Entry :
          /\ Leads("chat", NoEntry, first, q, last)
          /\ first = 1 <=> view.unread
          /\ FlushedChat(last, d) = 1 <=> direct.unread
    BY <1>1, <1>2, <2>1 DEF ChatFollows
  <2>3. ChatApart(d, cache) /\ view.unread \in BOOLEAN /\ direct.unread \in BOOLEAN
    BY <1>1, <1>2, <2>1 DEF ChatFollows, SyncTyped
  <2>4. ChatApart(left, cache) /\ FlushedChat(last, left) = FlushedChat(last, d)
    BY <1>5, <2>3 DEF ChatApart, SameChat, FlushedChat
  <2>5. CASE buffering
    <3>1. r = AppendEvent(left, cache, e) /\ cache' = CacheWith(cache, e) /\ v.unread = view.unread
      BY <1>2, <1>3, <1>7, <2>5
    <3>2. ~ ChatDiffers(left, e)
      BY <1>2, <1>4, <1>5, <2>1, <2>5, SameDiffers DEF ChatExcused
    <3>3. FlushedChat(last, left) = 1 <=> direct.unread
      BY <2>2, <2>4
    <3>4. /\ ChatApart(r, CacheWith(cache, e))
          /\ FlushedChat(last, r) = 1
               <=> (IF e.condition = "older" THEN direct.unread ELSE ShownUnread(direct.unread, e))
      BY <1>5, <2>3, <2>4, <3>1, <3>2, <3>3, ChatAppended
    <3>5. FlushedChat(last, r) = 1 <=> x.unread
      BY <1>8, <3>4, Zenon
    <3> QED BY <1>3, <2>2, <3>1, <3>4, <3>5 DEF ChatFollows
  <2>6. CASE ~ buffering
    <3>1. r = left /\ HandsNothing(left) /\ cache' = cache /\ left.condition = "none"
      BY <1>3, <1>9, <2>4, <2>6 DEF ChatApart
    <3>2. ChatApart(r, cache') /\ \A w : FlushedChat(w, r) = w
      BY <3>1, NothingTold
    <3>3. e.condition # "older"
      BY <2>1, <2>6 DEF ChatExcused
    <3>4. v.unread = ShownUnread(view.unread, e) /\ x.unread = ShownUnread(direct.unread, e)
      BY <1>7, <1>8, <2>6, <3>3, Zenon
    <3>5. last = 1 <=> direct.unread
      BY <2>2, <2>4, <3>1, <3>2
    <3>6. CASE e.event \notin OfTheChat
      <4>1. ShownUnread(view.unread, e) = view.unread
        BY <1>4, <2>2, <2>3, <3>6, UnreadFollows
      <4>2. ShownUnread(direct.unread, e) = direct.unread
        BY <1>4, <2>3, <3>5, <3>6, UnreadFollows
      <4>3. first = 1 <=> v.unread
        BY <2>2, <3>4, <4>1, Zenon
      <4>4. FlushedChat(last, r) = 1 <=> x.unread
        <5>1. FlushedChat(last, r) = last
          BY <3>2
        <5> QED BY <3>4, <3>5, <4>2, <5>1, Zenon
      <4> QED BY <1>3, <2>2, <3>2, <4>3, <4>4 DEF ChatFollows
    <3>7. CASE e.event \in OfTheChat
      <4>1. \A k \in 1 .. Len(q) : ~ Moves("chat", NoEntry, q[k])
        <5>1. ~ \E k \in DOMAIN q : q[k].event \in OfTheChat
          BY <1>2, <2>1, <2>6, <3>7 DEF ChatExcused
        <5>2. DOMAIN q = 1 .. Len(q)
          BY <1>4
        <5> QED BY <5>1, <5>2 DEF Moves
      <4>2. last = first
        BY <2>2, <4>1, ChainStayed
      <4>3. PICK next : next = UnreadAfter(first, e)
        OBVIOUS
      <4>4. next \in Entry
        BY <4>3 DEF UnreadAfter, UnreadBy, Entry
      <4>5. Leads("chat", NoEntry, next, q, next)
        BY <1>4, <4>1, <4>4, ChainStays
      <4>6. UnreadAfter(first, e) = 1 <=> ShownUnread(view.unread, e)
        BY <1>4, <2>2, <2>3, UnreadFollows
      <4>7. UnreadAfter(first, e) = 1 <=> ShownUnread(direct.unread, e)
        <5>1. first = 1 <=> direct.unread
          BY <3>5, <4>2
        <5> QED BY <1>4, <2>3, <5>1, UnreadFollows
      <4>8. next = 1 <=> v.unread
        BY <3>4, <4>3, <4>6, Zenon
      <4>9. FlushedChat(next, r) = 1 <=> x.unread
        <5>1. FlushedChat(next, r) = next
          BY <3>2
        <5> QED BY <3>4, <4>3, <4>7, <5>1, Zenon
      <4> QED BY <1>3, <3>2, <4>4, <4>5, <4>8, <4>9 DEF ChatFollows
    <3> QED BY <3>6, <3>7
  <2> QED BY <2>5, <2>6
<1> QED BY <1>10, <1>11, <1>12 DEF SyncFollows

-----------------------------------------------------------------------------
(* What is emitted. *)
LEMMA AboutEmittable ==
    ASSUME NEW event \in OfMessages \cup {"messaging-history.set"}, NEW ms \in SUBSET Messages,
           NEW value \in Entry, NEW type \in Types, NEW count \in Counts \ {NoEntry},
           event \in OfMessages => count = NoField,
           event \in {"messaging-history.set", "messages.upsert"} => value = 0,
           event = "messages.update" => value \in Nat,
           event = "messages.delete" => value = NoEntry
    PROVE  /\ Emittable([About(event, ms, value) EXCEPT !.type = type])
           /\ Emittable([About(event, ms, value) EXCEPT !.count = count])
           /\ count = NoField => Emittable(About(event, ms, value))
<1> DEFINE none == EmptyData.history
           values == [m \in Messages |-> IF m \in ms THEN value ELSE none[m]]
<1>1. values \in [Messages -> Entry] /\ \A m \in ms : values[m] = value
  BY DEF EmptyData, Entry
<1>2. none \in [Messages -> Entry]
  BY DEF EmptyData, Entry
<1>3. Blank = [event |-> "none", messages |-> {}, type |-> "none",
               values |-> none, count |-> NoField, condition |-> "none"]
  BY DEF Blank
<1> HIDE DEF none
<1> DEFINE T == [event : OfTheChat \cup OfMessages \cup {"none"}, messages : SUBSET Messages,
                 type : Types, values : [Messages -> Entry], count : Counts,
                 condition : Conditions]
<1>4. /\ none \in [Messages -> Entry] /\ NoField \in Counts /\ NoField # NoEntry
      /\ {} \subseteq Messages
  BY <1>2 DEF Counts, NoField, NoEntry
<1>5. Blank \in T /\ Blank.values = none
  BY <1>3, <1>4 DEF Types, Conditions
<1>6. /\ About(event, ms, value) \in T
      /\ About(event, ms, value).event = event /\ About(event, ms, value).messages = ms
      /\ About(event, ms, value).values = values
      /\ About(event, ms, value).count = NoField
      /\ About(event, ms, value).condition = "none"
  BY <1>3, <1>1, <1>5 DEF About, OfTheChat
<1> HIDE DEF values
<1>7. ASSUME NEW e \in T, e.event = event, e.messages = ms, e.values = values,
             e.condition = "none", e.count # NoEntry,
             event \in OfMessages => e.count = NoField
      PROVE  Emittable(e)
  <2>1. e \in HandedEvents
    BY <1>7 DEF HandedEvents, OfTheChat, OfMessages
  <2> QED BY <1>1, <1>7, <2>1 DEF Emittable, OfMessages
<1> DEFINE a == About(event, ms, value)
<1> HIDE DEF a
<1>8. /\ a \in T /\ a.event = event /\ a.messages = ms /\ a.values = values
      /\ a.count = NoField /\ a.condition = "none"
  BY <1>6 DEF a
<1>9. Emittable(a)
  BY <1>4, <1>7, <1>8
<1>10. Emittable([a EXCEPT !.type = type])
  BY <1>4, <1>7, <1>8
<1>11. Emittable([a EXCEPT !.count = count])
  BY <1>4, <1>7, <1>8
<1> QED BY <1>9, <1>10, <1>11 DEF a

LEMMA ChatEmittable ==
    ASSUME NEW event \in {"chats.update", "chats.upsert", "chats.delete"},
           NEW count \in Counts \ {NoEntry}, NEW condition \in Conditions
    PROVE  /\ Emittable(OfChat(event, count))
           /\ event = "chats.update" =>
                Emittable([OfChat(event, count) EXCEPT !.condition = condition])
<1> DEFINE none == EmptyData.history
<1>1. none \in [Messages -> Entry]
  BY DEF EmptyData, Entry
<1>2. Blank = [event |-> "none", messages |-> {}, type |-> "none",
               values |-> none, count |-> NoField, condition |-> "none"]
  BY DEF Blank
<1> HIDE DEF none
<1>3. NoField \in Counts /\ {} \subseteq Messages
  BY DEF Counts
<1> DEFINE a == OfChat(event, count)
           T == [event : OfTheChat, messages : SUBSET Messages,
                 type : Types, values : [Messages -> Entry], count : Counts,
                 condition : Conditions]
<1>4. /\ a \in T /\ a.event = event /\ a.messages = {} /\ a.count = count
      /\ a.condition = "none"
  BY <1>2, <1>1, <1>3 DEF OfChat, OfTheChat, Types, Conditions
<1>5. ASSUME NEW e \in T, e.event = event, e.messages = {}, e.count = count,
             e.condition # "none" => event = "chats.update"
      PROVE  Emittable(e)
  <2>1. e \in HandedEvents
    BY <1>5 DEF HandedEvents
  <2> QED BY <1>5, <2>1 DEF Emittable
<1> HIDE DEF a
<1>6. Emittable(a)
  BY <1>4, <1>5
<1>7. event = "chats.update" => Emittable([a EXCEPT !.condition = condition])
  BY <1>4, <1>5
<1> QED BY <1>6, <1>7 DEF a

LEMMA EventsEmittable ==
    ASSUME emitted \in Nat
    PROVE  /\ \A e \in Events : Emittable(e)
           /\ \A e \in DecodedEvents : Emittable(e)
           /\ \A ms \in SUBSET Messages, c \in {0, 1} :
                Emittable([About("messaging-history.set", ms, 0) EXCEPT !.count = c])
<1>1. /\ {1, 0, Null, Marked, NoField} \subseteq Counts \ {NoEntry}
      /\ {NoEntry, 0, emitted + 1} \subseteq Entry /\ emitted + 1 \in Nat
      /\ {"notify", "append", "read", "other"} \subseteq Types
      /\ {"newer", "older", "none"} \subseteq Conditions
  BY DEF Counts, Entry, NoEntry, NoField, Null, Marked, Types, Conditions
<1>2. ASSUME NEW m \in Messages PROVE {m} \in SUBSET Messages
  OBVIOUS
<1>3. ASSUME NEW m \in Messages, NEW t \in {"notify", "append"}
      PROVE  Emittable(OfType("messages.upsert", m, 0, t))
  BY <1>1, <1>2, AboutEmittable DEF OfType, OfMessages
<1>4. ASSUME NEW m \in Messages, NEW t \in {"read", "other"}
      PROVE  Emittable(OfType("messages.update", m, emitted + 1, t))
  BY <1>1, <1>2, AboutEmittable DEF OfType, OfMessages
<1>5. ASSUME NEW m \in Messages PROVE Emittable(About("messages.delete", {m}, NoEntry))
  BY <1>1, <1>2, AboutEmittable DEF OfMessages
<1>6. /\ \A c \in {1, 0, Marked, NoField} : Emittable(OfChat("chats.update", c))
      /\ Emittable(OfChat("chats.upsert", NoField)) /\ Emittable(OfChat("chats.delete", NoField))
      /\ \A c \in {Null, Marked, NoField}, k \in {"newer", "older"} :
           Emittable(ReadIf(k, c))
  BY <1>1, ChatEmittable DEF ReadIf
<1>7. ASSUME NEW ms \in SUBSET Messages, NEW c \in {0, 1}
      PROVE  Emittable([About("messaging-history.set", ms, 0) EXCEPT !.count = c])
  BY <1>1, AboutEmittable DEF OfMessages
<1> DEFINE Upserts == {OfType("messages.upsert", m, 0, t) :
                         m \in Messages, t \in {"notify", "append"}}
           Updates == {OfType("messages.update", m, emitted + 1, t) :
                         m \in Messages, t \in {"read", "other"}}
           Deletes == {About("messages.delete", {m}, NoEntry) : m \in Messages}
           OnlyChat == {OfChat("chats.update", c) : c \in {1, 0, Marked, NoField}}
                     \cup {OfChat("chats.upsert", NoField), OfChat("chats.delete", NoField)}
           Conditional == {ReadIf(k, c) : k \in {"newer", "older"}, c \in {Null, Marked, NoField}}
<1>8. ASSUME NEW e \in Upserts PROVE Emittable(e)
  BY <1>3
<1>9. ASSUME NEW e \in Updates PROVE Emittable(e)
  BY <1>4
<1>10. \A e \in Deletes : Emittable(e)
  BY <1>5
<1>11. (\A e \in OnlyChat : Emittable(e)) /\ (\A e \in Conditional : Emittable(e))
  BY <1>6
<1>12. /\ Events = Upserts \cup Updates \cup Deletes \cup OnlyChat
       /\ DecodedEvents = Deletes \cup Conditional
  BY DEF Events, DecodedEvents
<1> HIDE DEF Upserts, Updates, Deletes, OnlyChat, Conditional
<1>13. (\A e \in Events : Emittable(e)) /\ (\A e \in DecodedEvents : Emittable(e))
  BY <1>8, <1>9, <1>10, <1>11, <1>12
<1> QED BY <1>7, <1>13

(* The events are numbered. *)
Numbered == emitted \in Nat

LEMMA InitFollows ==
    ASSUME SyncInit
    PROVE  SyncFollows /\ Numbered
<1>1. /\ buffering = FALSE /\ data = EmptyData /\ cache = {} /\ deliveries = <<>>
      /\ direct = view /\ excused = {} /\ emitted = 0
      /\ view \in [messages : [Messages -> Entry], unread : BOOLEAN]
  BY ViewsAssumption DEF SyncInit, Entry
<1>2. SessionData(data) /\ HandsNothing(data) /\ data.condition = "none"
  BY <1>1, EmptyHolds DEF EmptyData
<1>3. deliveries \in Seq(HandedEvents) /\ Len(deliveries) = 0
  BY <1>1
<1>4. ASSUME NEW kind, NEW m PROVE \A k \in 1 .. Len(deliveries) : ~ Moves(kind, m, deliveries[k])
  BY <1>3
<1>5. SyncTyped
  BY <1>1, <1>2, <1>3 DEF SyncTyped
<1>6. ASSUME NEW m \in Messages PROVE MessageFollows(m)
  <2>1. PICK known \in Entry : known = view.messages[m]
    BY <1>1
  <2>2. Leads("message", m, known, deliveries, known)
    BY <1>3, <1>4, ChainStays
  <2>3. MessageApart(data, m) /\ FlushedMessage(known, data, m) = known
    BY <1>2, NothingTold
  <2>4. NotOlder(known, known)
    BY DEF NotOlder, Entry, NoEntry
  <2> QED BY <1>1, <2>1, <2>2, <2>3, <2>4 DEF MessageFollows
<1>7. ChatFollows
  <2>1. PICK first \in Entry : first = 1 <=> view.unread
    <3>1. 1 \in Entry /\ 0 \in Entry /\ 0 # 1
      BY DEF Entry
    <3> QED BY <3>1, Zenon
  <2>2. Leads("chat", NoEntry, first, deliveries, first)
    BY <1>3, <1>4, ChainStays
  <2>3. ChatApart(data, cache) /\ FlushedChat(first, data) = first
    BY <1>2, NothingTold
  <2>4. direct.unread = view.unread
    BY <1>1
  <2>5. FlushedChat(first, data) = 1 <=> direct.unread
    BY <2>1, <2>3, <2>4, Zenon
  <2> QED BY <2>1, <2>2, <2>3, <2>5 DEF ChatFollows
<1> QED BY <1>1, <1>5, <1>6, <1>7 DEF SyncFollows, Numbered

(* Every step but those three leaves what the invariant is about. *)
LEMMA SyncStep ==
    ASSUME SyncFollows, Numbered, [SyncNext]_initialSyncVars
    PROVE  SyncFollows' /\ Numbered'
<1> DEFINE Left == UNCHANGED <<data, deliveries, cache, view, direct, excused, emitted>>
           Untouched == UNCHANGED <<cache, view, direct, excused, emitted>>
<1>1. ASSUME Left, buffering' = buffering \/ buffering' = TRUE
      PROVE  SyncFollows' /\ Numbered'
  BY <1>1 DEF SyncFollows, SyncTyped, MessageFollows, ChatFollows, Numbered
<1>2. ASSUME Untouched, Flush PROVE SyncFollows' /\ Numbered'
  BY <1>2, FlushStep DEF Numbered
<1>3. ASSUME NEW e, Emittable(e), Emit(e), UNCHANGED <<buffering, deliveries>>
      PROVE  SyncFollows' /\ Numbered'
  BY <1>3, EmitStep DEF Emit, Numbered
<1>4. /\ \A e \in Events : Emittable(e)
      /\ \A e \in DecodedEvents : Emittable(e)
      /\ \A ms \in SUBSET Messages, c \in {0, 1} :
           Emittable([About("messaging-history.set", ms, 0) EXCEPT !.count = c])
  BY EventsEmittable DEF Numbered
<1>5. CASE EmitEvent
  BY <1>3, <1>4, <1>5 DEF EmitEvent
<1>6. CASE CloseSession
  BY <1>2, <1>6 DEF CloseSession
<1>7. CASE Deliver
  BY <1>7, DeliverStep DEF Deliver, Numbered
<1>8. ASSUME NEW will \in BOOLEAN, ReceivedPendingNotifications(will)
      PROVE  SyncFollows' /\ Numbered'
  BY <1>1, <1>8 DEF ReceivedPendingNotifications
<1>9. CASE FlushSoon
  BY <1>2, <1>9 DEF FlushSoon
<1>10. CASE SyncTimeout
  BY <1>1, <1>2, <1>10 DEF SyncTimeout, bufferVars
<1>11. ASSUME NEW h \in Handlers, NEW wanted \in BOOLEAN, HistoryArrives(h, wanted)
       PROVE  SyncFollows' /\ Numbered'
  BY <1>1, <1>2, <1>11 DEF HistoryArrives, bufferVars
<1>12. ASSUME NEW h \in Handlers, HistoryProcessed(h)
       PROVE  SyncFollows' /\ Numbered'
  <2>1. UNCHANGED <<buffering, deliveries>>
    BY <1>12 DEF HistoryProcessed
  <2>2. CASE UNCHANGED emitVars
    BY <1>1, <2>1, <2>2 DEF emitVars
  <2>3. ASSUME NEW ms \in SUBSET Messages, NEW c \in {0, 1},
               Emit([About("messaging-history.set", ms, 0) EXCEPT !.count = c])
        PROVE  SyncFollows' /\ Numbered'
    BY <1>3, <1>4, <2>1, <2>3
  <2> QED BY <1>12, <2>2, <2>3 DEF HistoryProcessed
<1>13. ASSUME NEW h \in Handlers, StartAppSync(h) \/ AppSyncRaises(h) \/ KeyShareArrives(h)
                                    \/ KeyShareStored(h)
       PROVE  SyncFollows' /\ Numbered'
  BY <1>1, <1>13 DEF StartAppSync, AppSyncRaises, KeyShareArrives, KeyShareStored, bufferVars
<1>14. ASSUME NEW h \in Handlers, AppSyncTells(h)
       PROVE  SyncFollows' /\ Numbered'
  <2>1. UNCHANGED <<buffering, deliveries>>
    BY <1>14 DEF AppSyncTells
  <2>2. PICK e \in DecodedEvents : Emit(e)
    BY <1>14 DEF AppSyncTells
  <2> QED BY <1>3, <1>4, <2>1, <2>2
<1>15. ASSUME NEW h \in Handlers, EndAppSync(h)
       PROVE  SyncFollows' /\ Numbered'
  BY <1>2, <1>15 DEF EndAppSync
<1>16. CASE UNCHANGED initialSyncVars
  BY <1>1, <1>16 DEF initialSyncVars, bufferVars
<1> QED BY <1>5, <1>6, <1>7, <1>8, <1>9, <1>10, <1>11, <1>12, <1>13, <1>14, <1>15, <1>16
        DEF SyncNext

(* When all is told, the chains have ended. *)
LEMMA FollowsTold ==
    ASSUME SyncFollows
    PROVE  MessagesTold /\ UnreadTold
<1>1. /\ SyncTyped /\ \A m \in Messages \ excused : MessageFollows(m)
      /\ "chat" \notin excused => ChatFollows
  BY DEF SyncFollows
<1> SUFFICES ASSUME Settled
             PROVE  /\ \A m \in Messages \ excused :
                         NotOlder(view.messages[m], direct.messages[m])
                    /\ "chat" \notin excused => view.unread = direct.unread
  BY DEF MessagesTold, UnreadTold, NotOlder
<1>2. /\ HandsNothing(data) /\ data.condition = "none" /\ deliveries = <<>>
      /\ \A kind, m : \A k \in 1 .. Len(deliveries) : ~ Moves(kind, m, deliveries[k])
  BY EmptyHolds DEF Settled
<1>3. ASSUME NEW m \in Messages \ excused
      PROVE  NotOlder(view.messages[m], direct.messages[m])
  <2>1. PICK last \in Entry : /\ Leads("message", m, view.messages[m], deliveries, last)
                              /\ NotOlder(FlushedMessage(last, data, m), direct.messages[m])
    BY <1>1 DEF MessageFollows
  <2>2. last = view.messages[m]
    BY <1>2, <2>1, ChainStayed
  <2>3. FlushedMessage(last, data, m) = last
    BY <1>2, NothingTold
  <2> QED BY <2>1, <2>2, <2>3
<1>4. ASSUME "chat" \notin excused
      PROVE  view.unread = direct.unread
  <2>1. PICK first \in Entry, last \in Entry :
          /\ Leads("chat", NoEntry, first, deliveries, last)
          /\ first = 1 <=> view.unread
          /\ FlushedChat(last, data) = 1 <=> direct.unread
    BY <1>1, <1>4 DEF ChatFollows
  <2>2. last = first
    BY <1>2, <2>1, ChainStayed
  <2>3. FlushedChat(last, data) = last
    BY <1>2, NothingTold
  <2>4. view.unread \in BOOLEAN /\ direct.unread \in BOOLEAN
    BY <1>1 DEF SyncTyped
  <2>5. view.unread <=> direct.unread
    BY <2>1, <2>2, <2>3, Zenon
  <2> QED BY <2>4, <2>5
<1> QED BY <1>3, <1>4

(* The invariant of the initial sync is inductive. *)
LEMMA SyncInvariant == SyncSpec => [](SyncFollows /\ Numbered)
<1>1. SyncInit => SyncFollows /\ Numbered
  BY InitFollows
<1>2. (SyncFollows /\ Numbered) /\ [SyncNext]_initialSyncVars => (SyncFollows /\ Numbered)'
  BY SyncStep
<1> QED BY <1>1, <1>2, PTL DEF SyncSpec

(* Consolidation loses nothing about messages: whenever everything is      *)
(* told, the listeners know of every message what the events would have    *)
(* told one by one, or a later update, but for the cases that are excused. *)
THEOREM ListenersToldMessages == SyncSpec => []MessagesTold
<1>1. SyncFollows => MessagesTold
  BY FollowsTold
<1> QED BY <1>1, SyncInvariant, PTL

(* Nor about unread messages: whenever everything is told, the listeners   *)
(* know whether the chat has unread messages, but for the cases excused.   *)
THEOREM ListenersToldUnread == SyncSpec => []UnreadTold
<1>1. SyncFollows => UnreadTold
  BY FollowsTold
<1> QED BY <1>1, SyncInvariant, PTL
=============================================================================
