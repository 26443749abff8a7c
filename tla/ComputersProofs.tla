--------------------------- MODULE ComputersProofs ---------------------------
(* What holds of the computers a phone is paired with, for any number of    *)
(* computers and relays.                                                    *)
EXTENDS Computers, SequenceTheorems, TLAPS

\* No computer has two entries.
Single(list) == \A i, j \in DOMAIN list : list[i].device = list[j].device => i = j

\* A computer of the list is in use, if there is any.
Fits(list, device) == IF list = <<>> THEN device = None ELSE device \in Listed(list)

-----------------------------------------------------------------------------
(* The pure parts. *)

LEMMA ListFacts ==
    ASSUME NEW list \in Seq(Computer)
    PROVE  /\ Len(list) \in Nat /\ DOMAIN list = 1..Len(list)
           /\ \A i \in 1..Len(list) : list[i] \in Computer
           /\ list = <<>> <=> Len(list) = 0
           /\ list = <<>> <=> Listed(list) = {}
           /\ Listed(list) \subseteq Devices
<1>1. Len(list) \in Nat /\ DOMAIN list = 1..Len(list)
  BY LenProperties
<1>2. \A i \in 1..Len(list) : list[i] \in Computer
  BY ElementOfSeq
<1>3. list = <<>> <=> Len(list) = 0
  BY EmptySeq
<1>4. Listed(list) = {list[i].device : i \in 1..Len(list)}
  BY <1>1 DEF Listed
<1>5. list = <<>> <=> Listed(list) = {}
  <2>1. ASSUME list # <<>> PROVE Listed(list) # {}
    <3>1. 1 \in 1..Len(list)
      BY <1>1, <1>3, <2>1
    <3>2. list[1].device \in Listed(list)
      BY <1>4, <3>1
    <3> QED BY <3>2
  <2>2. ASSUME list = <<>> PROVE Listed(list) = {}
    <3>1. 1..Len(list) = {}
      BY <1>1, <1>3, <2>2
    <3> QED BY <1>4, <3>1
  <2> QED BY <2>1, <2>2
<1>6. Listed(list) \subseteq Devices
  BY <1>2, <1>4 DEF Computer
<1> QED BY <1>1, <1>2, <1>3, <1>5, <1>6

LEMMA EntryFacts ==
    ASSUME NEW list \in Seq(Computer), NEW device \in Listed(list)
    PROVE  /\ Place(list, device) \in 1..Len(list)
           /\ Entry(list, device) \in Computer
           /\ Entry(list, device).device = device
           /\ PairingOf(list, device) \in Pairing
           /\ PairingOf(list, device).device = device
<1>1. \E i \in DOMAIN list : list[i].device = device
  BY DEF Listed
<1>2. Place(list, device) \in DOMAIN list /\ list[Place(list, device)].device = device
  BY <1>1 DEF Place
<1>3. Entry(list, device) \in Computer /\ Entry(list, device).device = device
  BY <1>2, ListFacts DEF Entry
<1> QED BY <1>2, <1>3, ListFacts DEF PairingOf, Pairing, Computer

LEMMA PutFacts ==
    ASSUME NEW list \in Seq(Computer), NEW computer \in Computer, NEW new, new = Put(list, computer)
    PROVE  /\ new \in Seq(Computer)
           /\ Listed(new) = Listed(list)
           /\ new = <<>> <=> list = <<>>
           /\ Single(list) => Single(new)
<1>1. /\ Len(list) \in Nat /\ DOMAIN list = 1..Len(list)
      /\ \A i \in 1..Len(list) : list[i] \in Computer
  BY ListFacts
<1>2. new = [i \in 1..Len(list) |->
                IF list[i].device = computer.device THEN computer ELSE list[i]]
  BY <1>1 DEF Put
<1>3. new \in [1..Len(list) -> Computer]
  BY <1>1, <1>2
<1>4. new \in Seq(Computer)
  BY <1>1, <1>3, SeqDef
<1>5. DOMAIN new = DOMAIN list /\ \A i \in DOMAIN list : new[i].device = list[i].device
  BY <1>1, <1>2
<1>6. Listed(new) = Listed(list)
  BY <1>5 DEF Listed
<1>7. Single(list) => Single(new)
  BY <1>5 DEF Single
<1> QED BY <1>4, <1>6, <1>7, ListFacts

LEMMA MovedFacts ==
    ASSUME NEW list \in Seq(Computer), NEW device \in Listed(list), NEW relay \in Relays,
           NEW new, new = Moved(list, device, relay)
    PROVE  /\ new \in Seq(Computer)
           /\ Listed(new) = Listed(list)
           /\ new = <<>> <=> list = <<>>
           /\ Single(list) => Single(new)
<1>1. [Entry(list, device) EXCEPT !.relay = relay] \in Computer
  BY ZenonT(60), EntryFacts DEF Computer
<1> QED BY <1>1, PutFacts DEF Moved

LEMMA WithComputerFacts ==
    ASSUME NEW list \in Seq(Computer), NEW pairing \in Pairing,
           NEW new, new = WithComputer(list, pairing)
    PROVE  /\ new \in Seq(Computer)
           /\ Listed(new) = Listed(list) \cup {pairing.device}
           /\ new # <<>>
           /\ Single(list) => Single(new)
<1>1. pairing.device \in Devices /\ pairing.relay \in Relays
  BY DEF Pairing
<1>2. CASE pairing.device \in Listed(list)
  <2>1. new = Moved(list, pairing.device, pairing.relay)
    BY <1>2 DEF WithComputer
  <2> QED BY <1>1, <1>2, <2>1, MovedFacts, ListFacts
<1>3. CASE pairing.device \notin Listed(list)
  <2> DEFINE one == [device |-> pairing.device, relay |-> pairing.relay, named |-> FALSE]
  <2>1. one \in Computer /\ one.device = pairing.device
    BY <1>1 DEF Computer
  <2>2. new = Append(list, one)
    BY <1>3 DEF WithComputer
  <2> HIDE DEF one
  <2>3. Len(list) \in Nat /\ DOMAIN list = 1..Len(list)
    BY ListFacts
  <2>4. /\ new \in Seq(Computer) /\ Len(new) = Len(list) + 1
        /\ \A i \in 1..Len(list) : new[i] = list[i]
        /\ new[Len(list) + 1] = one
    BY <2>1, <2>2, AppendProperties
  <2>5. DOMAIN new = 1..Len(list) + 1 /\ new # <<>>
    BY <2>3, <2>4, ListFacts
  <2>6. Listed(new) = Listed(list) \cup {pairing.device}
    BY <2>1, <2>3, <2>4, <2>5 DEF Listed
  <2>7. ASSUME Single(list) PROVE Single(new)
    <3>1. \A i \in 1..Len(list) : list[i].device # pairing.device
      BY <1>3, <2>3 DEF Listed
    <3> QED BY <2>1, <2>3, <2>4, <2>5, <2>7, <3>1 DEF Single
  <2> QED BY <2>4, <2>5, <2>6, <2>7
<1> QED BY <1>2, <1>3

LEMMA RemoveFacts ==
    ASSUME NEW S, NEW q \in Seq(S), NEW i \in 1..Len(q)
    PROVE  /\ RemoveAt(q, i) \in Seq(S)
           /\ Len(RemoveAt(q, i)) = Len(q) - 1
           /\ \A j \in 1..Len(q) - 1 : RemoveAt(q, i)[j] = IF j < i THEN q[j] ELSE q[j + 1]
<1> DEFINE a == SubSeq(q, 1, i - 1)
           b == SubSeq(q, i + 1, Len(q))
<1>1. Len(q) \in Nat /\ \A j \in 1..Len(q) : q[j] \in S
  BY LenProperties, ElementOfSeq
<1>2. /\ a \in Seq(S) /\ Len(a) = i - 1
      /\ \A j \in 1..i - 1 : a[j] = q[j]
  BY <1>1, SubSeqProperties
<1>3. /\ b \in Seq(S) /\ Len(b) = Len(q) - i
      /\ \A j \in 1..Len(q) - i : b[j] = q[i + j]
  <2>1. \A j \in i + 1..Len(q) : q[j] \in S
    BY <1>1
  <2>2. /\ b \in Seq(S)
        /\ Len(b) = IF i + 1 <= Len(q) THEN Len(q) - (i + 1) + 1 ELSE 0
        /\ \A j \in 1..Len(q) - (i + 1) + 1 : b[j] = q[i + 1 + j - 1]
    BY <1>1, <2>1, SubSeqProperties
  <2> QED BY <1>1, <2>2
<1>4. RemoveAt(q, i) = a \o b
  BY DEF RemoveAt
<1> HIDE DEF a, b
<1>5. /\ a \o b \in Seq(S) /\ Len(a \o b) = Len(a) + Len(b)
      /\ \A j \in 1..Len(a) + Len(b) : (a \o b)[j] = IF j <= Len(a) THEN a[j] ELSE b[j - Len(a)]
  BY <1>2, <1>3, ConcatProperties
<1>6. Len(a) + Len(b) = Len(q) - 1
  BY <1>1, <1>2, <1>3
<1>7. ASSUME NEW j \in 1..Len(q) - 1
      PROVE  (a \o b)[j] = IF j < i THEN q[j] ELSE q[j + 1]
  <2>1. CASE j < i
    BY <1>1, <1>2, <1>5, <1>6, <2>1
  <2>2. CASE ~(j < i)
    <3>1. j - Len(a) \in 1..Len(q) - i /\ i + (j - Len(a)) = j + 1 /\ ~(j <= Len(a))
      BY <1>1, <1>2, <2>2
    <3> QED BY <1>3, <1>5, <1>6, <2>2, <3>1
  <2> QED BY <2>1, <2>2
<1> QED BY <1>4, <1>5, <1>6, <1>7

LEMMA WithoutFacts ==
    ASSUME NEW list \in Seq(Computer), NEW device, NEW new, new = Without(list, device)
    PROVE  /\ new \in Seq(Computer)
           /\ Single(list) => Single(new) /\ Listed(new) = Listed(list) \ {device}
<1>1. CASE device \notin Listed(list)
  BY <1>1 DEF Without
<1>2. CASE device \in Listed(list)
  <2>1. PICK at \in 1..Len(list) : at = Place(list, device) /\ list[at].device = device
    BY <1>2, EntryFacts DEF Entry
  <2>2. Len(list) \in Nat /\ DOMAIN list = 1..Len(list)
    BY ListFacts
  <2>3. /\ new \in Seq(Computer) /\ Len(new) = Len(list) - 1
        /\ \A j \in 1..Len(list) - 1 : new[j] = IF j < at THEN list[j] ELSE list[j + 1]
    BY <1>2, <2>1, RemoveFacts DEF Without
  <2>4. DOMAIN new = 1..Len(list) - 1
    BY <2>3, ListFacts
  <2>5. ASSUME Single(list) PROVE Single(new)
    <3> SUFFICES ASSUME NEW i \in 1..Len(list) - 1, NEW j \in 1..Len(list) - 1,
                        new[i].device = new[j].device
                 PROVE  i = j
      BY <2>4 DEF Single
    <3> DEFINE from(n) == IF n < at THEN n ELSE n + 1
    <3>1. /\ from(i) \in 1..Len(list) /\ from(j) \in 1..Len(list)
          /\ new[i] = list[from(i)] /\ new[j] = list[from(j)]
      BY <2>1, <2>2, <2>3
    <3>2. from(i) = from(j)
      BY <2>2, <2>5, <3>1 DEF Single
    <3> QED BY <2>1, <2>2, <3>2
  <2>6. ASSUME Single(list) PROVE Listed(new) = Listed(list) \ {device}
    <3>1. \A i \in 1..Len(list) - 1 :
            /\ new[i].device \in Listed(list) \ {device}
      <4> TAKE i \in 1..Len(list) - 1
      <4>1. PICK k \in 1..Len(list) : k # at /\ new[i] = list[k]
        BY <2>1, <2>2, <2>3
      <4> QED BY <2>1, <2>2, <2>6, <4>1 DEF Single, Listed
    <3>2. ASSUME NEW k \in 1..Len(list), k # at
          PROVE  list[k].device \in Listed(new)
      <4>1. PICK i \in 1..Len(list) - 1 : i = IF k < at THEN k ELSE k - 1
        BY <2>1, <2>2, <3>2
      <4>2. new[i] = list[k]
        BY <2>1, <2>2, <2>3, <3>2, <4>1
      <4> QED BY <2>4, <4>2 DEF Listed
    <3>3. Listed(new) \subseteq Listed(list) \ {device}
      BY <2>4, <3>1 DEF Listed
    <3>4. Listed(list) \ {device} \subseteq Listed(new)
      BY <2>1, <2>2, <3>2 DEF Listed
    <3> QED BY <3>3, <3>4
  <2> QED BY <2>3, <2>5, <2>6
<1> QED BY <1>1, <1>2

LEMMA FirstFacts ==
    ASSUME NEW list \in Seq(Computer)
    PROVE  Fits(list, First(list)) /\ First(list) \in Listed(list) \cup {None}
<1>1. CASE list = <<>>
  BY <1>1 DEF First, Fits
<1>2. CASE list # <<>>
  <2>1. 1 \in DOMAIN list
    BY <1>2, ListFacts
  <2> QED BY <1>2, <2>1 DEF First, Fits, Listed
<1> QED BY <1>1, <1>2

LEMMA ActiveFacts ==
    ASSUME NEW list \in Seq(Computer), NEW active
    PROVE  /\ Fits(list, GetActiveComputer(list, active))
           /\ Fits(list, active) => GetActiveComputer(list, active) = active
           /\ GetActiveComputer(list, active) \in Listed(list) \cup {None}
<1>1. list = <<>> => Listed(list) = {} /\ First(list) = None
  BY DEF Listed, First
<1> QED BY <1>1, FirstFacts, ListFacts DEF GetActiveComputer, Fits

LEMMA SingleEmpty == Single(<<>>)
BY DEF Single

LEMMA FitsFacts ==
    ASSUME NEW list \in Seq(Computer), NEW device, Fits(list, device),
           NEW current, current = IF device = None THEN None ELSE PairingOf(list, device)
    PROVE  /\ device \in Devices \cup {None}
           /\ device # None <=> device \in Listed(list)
           /\ device = None <=> list = <<>>
           /\ current \in Pairing \cup {None}
           /\ device = None <=> current = None
           /\ device # None => current = PairingOf(list, device) /\ current.device = device
           /\ device = IF current = None THEN None ELSE current.device
<1>1. None \notin Devices /\ None \notin Pairing
  BY ComputersAssumption DEF Pairing
<1>2. Listed(list) \subseteq Devices /\ (list = <<>> <=> Listed(list) = {})
  BY ListFacts
<1>3. CASE device = None
  BY <1>1, <1>2, <1>3 DEF Fits
<1>4. CASE device # None
  <2>1. device \in Listed(list) /\ list # <<>>
    BY <1>2, <1>4 DEF Fits
  <2>2. current \in Pairing /\ current.device = device /\ current = PairingOf(list, device)
    BY <1>4, <2>1, EntryFacts
  <2> QED BY <1>1, <1>2, <1>4, <2>1, <2>2
<1> QED BY <1>3, <1>4

-----------------------------------------------------------------------------
(* What is under way, and what each step makes of it. *)

Reads == {"readList", "readActive"}

\* A request that has what the rest of its operation needs.
AbleTask ==
    {t \in Task :
        /\ Single(t.list)
        /\ t.do \notin Reads => Fits(t.list, t.active)
        /\ t.do = "fetch" \/ t.then = "setPairing" => t.active # None
        /\ t.do = "dropRoutes" => t.then = "connectTo"}

Types ==
    /\ keychain \in [list : Seq(Computer), active : Devices \cup {None}]
    /\ Single(keychain.list)
    /\ store \in [current : Pairing \cup {None}, list : Seq(Computer), loaded : BOOLEAN]
    /\ Single(store.list) /\ Fits(store.list, Current)
    /\ link \in Pairing \cup {None}
    /\ shown \subseteq Devices
    /\ tasks \in Seq(AbleTask)
    /\ failed \in BOOLEAN
    /\ kept \subseteq Devices /\ gone \subseteq Devices
    /\ crossed \subseteq {"dials", "name"}

\* The keychain is read before there is anything else to do.
Booted ==
    IF store.loaded THEN \A i \in 1..Len(tasks) : tasks[i].do \notin Reads
    ELSE /\ Len(tasks) = 1 /\ tasks[1].do \in Reads
         /\ tasks[1].do = "readActive" => tasks[1].list = keychain.list
         /\ store = Unread /\ link = None /\ shown = {}

\* An operation starts.
Begins(t) ==
    /\ store.loaded /\ t.do \in {"dropRoutes", "saveList"}
    /\ tasks' = Append(tasks, t)
    /\ UNCHANGED <<keychain, link, failed>>
    /\ crossed \subseteq crossed'
    /\ \A i \in 1..Len(tasks) : Writes(tasks[i]) => Crosses(tasks[i], t) \subseteq crossed'
    /\ store'.loaded = store.loaded /\ store'.current = store.current
    /\ store'.list = IF Dials(t) THEN store.list ELSE t.list
    /\ Listed(store'.list) = Listed(store.list)
    /\ t.then # "connectTo" => t.active = Current
    /\ shown' = IF Dials(t) THEN shown ELSE shown \cup {link.device}
    /\ ~Dials(t) => link # None
    /\ kept' \subseteq kept /\ kept' \cap Listed(store.list) \subseteq Listed(t.list)
    /\ \A a \in gone' : a \notin Listed(t.list) /\ (a \in gone \/ t.do = "dropRoutes")

\* The first request, t, is answered, and u asks for more.
Turns(t, u) ==
    /\ tasks # <<>> /\ t = Head(tasks) /\ t.do \in {"dropRoutes", "saveList"}
    /\ u.do = IF t.do = "dropRoutes" THEN "saveList" ELSE "saveActive"
    /\ u.list = t.list /\ u.active = t.active /\ u.then = t.then
    /\ tasks' = Append(Tail(tasks), u)
    /\ keychain'.list = IF t.do = "saveList" THEN t.list ELSE keychain.list
    /\ keychain'.active = keychain.active
    /\ UNCHANGED <<store, link, shown, history>>

\* Nothing is left to ask, or the routes to the computer now in use.
Leaves(t) ==
    /\ t = Head(tasks)
    /\ \/ tasks' = Tail(tasks)
       \/ \E u \in AbleTask : /\ u.do = "fetch" /\ u.list = t.list /\ u.active = t.active
                              /\ tasks' = Append(Tail(tasks), u)

\* The last write of an operation.
Ends(t) ==
    /\ tasks # <<>> /\ t.do = "saveActive" /\ Leaves(t)
    /\ tasks' = Tail(tasks) => ~Dials(t) \/ t.active = None
    /\ tasks' # Tail(tasks) => Dials(t) /\ t.active # None
    /\ keychain'.list = keychain.list /\ keychain'.active = t.active
    /\ kept' = Promised(t)
    /\ UNCHANGED <<failed, gone, crossed>>
    /\ store'.loaded = store.loaded
    /\ IF Dials(t) THEN /\ store'.list = t.list /\ Current' = t.active
                        /\ store'.current =
                              IF t.active = None THEN None ELSE PairingOf(t.list, t.active)
       ELSE store' = store
    /\ IF t.then = "connectTo" THEN link' = None /\ shown' = {} ELSE UNCHANGED <<link, shown>>

Fetches(t) ==
    /\ tasks # <<>> /\ t = Head(tasks) /\ t.do = "fetch" /\ Fetch(t)
    /\ UNCHANGED history

Breaks(t) ==
    /\ tasks # <<>> /\ t = Head(tasks) /\ Writes(t)
    /\ failed' /\ Answered
    /\ UNCHANGED <<keychain, store, link, shown, kept, gone, crossed>>

\* What the keychain holds is read, or the reading has failed.
Loads ==
    /\ ~store.loaded /\ store'.loaded
    /\ UNCHANGED <<keychain, link, shown, kept, gone, crossed>>
    /\ \/ /\ store'.list = keychain.list /\ failed' = failed
          /\ Current' = GetActiveComputer(keychain.list, keychain.active)
       \/ failed' /\ Fallible \cap Reads # {}
    /\ IF store'.current = None THEN Len(tasks') = 0
       ELSE /\ Len(tasks') = 1 /\ tasks'[1].do = "fetch" /\ tasks'[1].active = Current'
            /\ PairingOf(tasks'[1].list, tasks'[1].active) = store'.current

ReadsOn ==
    /\ ~store.loaded /\ Len(tasks') = 1 /\ tasks'[1].do \in Reads
    /\ UNCHANGED <<keychain, store, link, shown, history>>

-----------------------------------------------------------------------------
(* The requests. *)

LEMMA ShortFacts ==
    ASSUME NEW q \in Seq(AbleTask), q # <<>>, NEW r, r = Tail(q)
    PROVE  /\ r \in Seq(AbleTask)
           /\ Len(q) \in Nat \ {0} /\ Len(r) = Len(q) - 1
           /\ \A i \in 1..Len(q) - 1 : r[i] = q[i + 1]
           /\ Head(q) = q[1] /\ q[1] \in AbleTask
<1>1. Len(q) \in Nat \ {0}
  BY EmptySeq
<1>2. r \in Seq(AbleTask) /\ Len(r) = Len(q) - 1 /\ \A i \in 1..Len(r) : r[i] = q[i + 1]
  BY HeadTailProperties
<1>3. 1 \in 1..Len(q)
  BY <1>1
<1>4. q[1] \in AbleTask
  BY <1>3, ElementOfSeq
<1> QED BY <1>1, <1>2, <1>4

LEMMA LongFacts ==
    ASSUME NEW q \in Seq(AbleTask), NEW u \in AbleTask, NEW r, r = Append(q, u)
    PROVE  /\ r \in Seq(AbleTask) /\ r # <<>>
           /\ Len(q) \in Nat /\ Len(r) = Len(q) + 1
           /\ \A i \in 1..Len(q) : r[i] = q[i] /\ q[i] \in AbleTask
           /\ r[Len(r)] = u
BY LenProperties, ElementOfSeq, AppendProperties

LEMMA TurnFacts ==
    ASSUME NEW q \in Seq(AbleTask), q # <<>>, NEW u \in AbleTask, NEW r, r = Append(Tail(q), u)
    PROVE  /\ r \in Seq(AbleTask) /\ r # <<>>
           /\ Len(q) \in Nat \ {0} /\ Len(r) = Len(q)
           /\ \A i \in 1..Len(q) - 1 : r[i] = q[i + 1]
           /\ r[Len(q)] = u
           /\ Head(q) = q[1] /\ q[1] \in AbleTask
<1>1. PICK s : s = Tail(q)
  OBVIOUS
<1>2. /\ s \in Seq(AbleTask)
      /\ Len(q) \in Nat \ {0} /\ Len(s) = Len(q) - 1
      /\ \A i \in 1..Len(q) - 1 : s[i] = q[i + 1]
      /\ Head(q) = q[1] /\ q[1] \in AbleTask
  BY <1>1, ShortFacts
<1>3. /\ r \in Seq(AbleTask) /\ r # <<>>
      /\ Len(r) = Len(s) + 1
      /\ \A i \in 1..Len(s) : r[i] = s[i]
      /\ r[Len(r)] = u
  BY <1>1, <1>2, LongFacts
<1> QED BY <1>2, <1>3

LEMMA TaskFacts ==
    ASSUME NEW t \in AbleTask
    PROVE  /\ t \in Task /\ t.list \in Seq(Computer) /\ Single(t.list)
           /\ t.active \in Devices \cup {None}
           /\ t.do \in {"readList", "readActive", "dropRoutes", "saveList", "saveActive", "fetch"}
           /\ t.then \in {"connectTo", "setPairing", "nothing"}
           /\ t.do \notin Reads => Fits(t.list, t.active)
           /\ t.do = "fetch" \/ t.then = "setPairing" => t.active # None
           /\ t.do = "dropRoutes" => t.then = "connectTo"
BY DEF AbleTask, Task

LEMMA RequestFacts ==
    ASSUME NEW do \in {"dropRoutes", "saveList", "saveActive", "fetch"}, NEW list \in Seq(Computer),
           NEW active, NEW then \in {"connectTo", "setPairing", "nothing"},
           Single(list), Fits(list, active),
           do = "fetch" \/ then = "setPairing" => active # None,
           do = "dropRoutes" => then = "connectTo",
           NEW t, t = Request(do, list, active, then)
    PROVE  /\ t \in AbleTask
           /\ t.do = do /\ t.list = list /\ t.active = active /\ t.then = then
<1>1. active \in Devices \cup {None}
  BY FitsFacts
<1>2. t.do = do /\ t.list = list /\ t.active = active /\ t.then = then
  BY DEF Request
<1>3. t \in Task
  BY <1>1 DEF Request, Task
<1> QED BY <1>2, <1>3 DEF AbleTask

\* What an operation goes on with.
LEMMA RedoneFacts ==
    ASSUME NEW t \in AbleTask, NEW do \in {"saveList", "saveActive", "fetch"},
           t.do \notin Reads, do = "fetch" => t.active # None,
           NEW u, u = [t EXCEPT !.do = do]
    PROVE  /\ u \in AbleTask
           /\ u.do = do /\ u.list = t.list /\ u.active = t.active /\ u.then = t.then
<1>1. /\ u \in Task
      /\ u.do = do /\ u.list = t.list /\ u.active = t.active /\ u.then = t.then
  BY TaskFacts DEF Task
<1> QED BY <1>1, TaskFacts DEF AbleTask, Reads

-----------------------------------------------------------------------------
(* What the steps are. *)

LEMMA CurrentFacts ==
    ASSUME Types
    PROVE  /\ store.list \in Seq(Computer) /\ Single(store.list)
           /\ Current \in Devices \cup {None}
           /\ Current = None <=> store.current = None
           /\ Current # None <=> Current \in Listed(store.list)
           /\ Current = None <=> store.list = <<>>
           /\ Listed(store.list) \subseteq Devices
<1>1. Listed(store.list) \subseteq Devices /\ (store.list = <<>> <=> Listed(store.list) = {})
  BY ListFacts DEF Types
<1> QED BY <1>1, ComputersAssumption DEF Types, Current, Pairing, Fits

LEMMA StartFacts ==
    ASSUME Types, NEW t \in AbleTask, Start(t)
    PROVE  /\ store.loaded
           /\ tasks' = Append(tasks, t) /\ tasks' \in Seq(AbleTask)
           /\ UNCHANGED <<keychain, link, failed>>
           /\ crossed \subseteq crossed' /\ crossed' \subseteq {"dials", "name"}
           /\ \A i \in 1..Len(tasks) : Writes(tasks[i]) => Crosses(tasks[i], t) \subseteq crossed'
<1>1. DOMAIN tasks = 1..Len(tasks)
  BY LenProperties DEF Types
<1>2. \A i \in 1..Len(tasks) : Crosses(tasks[i], t) \subseteq {"dials", "name"}
  BY DEF Crosses
<1>3. crossed' = crossed \cup
          UNION {Crosses(tasks[i], t) : i \in {j \in 1..Len(tasks) : Writes(tasks[j])}}
  BY <1>1 DEF Start
<1>4. crossed \subseteq {"dials", "name"}
  BY DEF Types
<1>5. crossed' \subseteq {"dials", "name"}
  BY <1>2, <1>3, <1>4
<1>6. \A i \in 1..Len(tasks) : Writes(tasks[i]) => Crosses(tasks[i], t) \subseteq crossed'
  BY <1>3
<1>7. tasks' = Append(tasks, t) /\ tasks' \in Seq(AbleTask)
  BY LongFacts DEF Start, Types
<1> QED BY <1>3, <1>5, <1>6, <1>7 DEF Start

LEMMA DialFacts ==
    ASSUME Types, NEW t \in AbleTask, Start(t), UNCHANGED <<store, shown>>,
           t.do \in {"dropRoutes", "saveList"}, t.then # "nothing",
           t.then # "connectTo" => t.active = Current,
           kept' \subseteq kept, kept' \cap Listed(store.list) \subseteq Listed(t.list),
           gone' \subseteq Devices,
           \A a \in gone' : a \notin Listed(t.list) /\ (a \in gone \/ t.do = "dropRoutes")
    PROVE  Types' /\ Begins(t)
<1>1. Types'
  BY StartFacts DEF Types, Current
<1>2. Dials(t)
  BY DEF Dials
<1> QED BY <1>1, <1>2, StartFacts DEF Begins

LEMMA UseFacts ==
    ASSUME Types, NEW device \in Devices, Use(device)
    PROVE  Types' /\ \E t \in AbleTask : Begins(t)
<1>1. PICK t : t = Request("saveList", store.list, device, "connectTo")
  OBVIOUS
<1>2. device \in Listed(store.list)
  BY DEF Use
<1>3. store.list \in Seq(Computer) /\ Single(store.list) /\ Fits(store.list, device)
  BY <1>2, CurrentFacts, ListFacts DEF Fits
<1>4. t \in AbleTask /\ t.do = "saveList" /\ t.list = store.list /\ t.then = "connectTo"
  BY <1>1, <1>3, RequestFacts
<1>5. Start(t) /\ UNCHANGED <<store, shown, kept>> /\ gone' = gone \ Listed(t.list)
  BY <1>1, <1>4 DEF Use, Knows
<1>6. gone' \subseteq Devices
  BY <1>5 DEF Types
<1> QED BY <1>4, <1>5, <1>6, DialFacts

LEMMA AddFacts ==
    ASSUME Types, NEW pairing \in Pairing, Add(pairing)
    PROVE  Types' /\ \E t \in AbleTask : Begins(t)
<1>1. PICK list : list = WithComputer(store.list, pairing)
  OBVIOUS
<1>2. PICK t : t = Request("saveList", list, pairing.device, "connectTo")
  OBVIOUS
<1>3. /\ list \in Seq(Computer) /\ Single(list) /\ list # <<>>
      /\ Listed(list) = Listed(store.list) \cup {pairing.device}
  BY <1>1, CurrentFacts, WithComputerFacts
<1>4. Fits(list, pairing.device)
  BY <1>3 DEF Fits
<1>5. t \in AbleTask /\ t.do = "saveList" /\ t.list = list /\ t.then = "connectTo"
  BY <1>2, <1>3, <1>4, RequestFacts
<1>6. Start(t) /\ UNCHANGED <<store, shown, kept>> /\ gone' = gone \ Listed(t.list)
  BY <1>1, <1>2, <1>5 DEF Add, Knows
<1>7. gone' \subseteq Devices /\ Listed(store.list) \subseteq Listed(t.list)
  BY <1>3, <1>5, <1>6 DEF Types
<1> QED BY <1>5, <1>6, <1>7, DialFacts

LEMMA ForgetFacts ==
    ASSUME Types, ForgetCurrent
    PROVE  Types' /\ \E t \in AbleTask : Begins(t)
<1>1. PICK list : list = Without(store.list, Current)
  OBVIOUS
<1>2. PICK first : first = First(list)
  OBVIOUS
<1>3. PICK t : t = Request("dropRoutes", list, first, "connectTo")
  OBVIOUS
<1>4. /\ list \in Seq(Computer) /\ Single(list)
      /\ Listed(list) = Listed(store.list) \ {Current}
  BY <1>1, CurrentFacts, WithoutFacts
<1>5. Fits(list, first)
  BY <1>2, <1>4, FirstFacts
<1>6. t \in AbleTask /\ t.do = "dropRoutes" /\ t.list = list /\ t.then = "connectTo"
  BY <1>3, <1>4, <1>5, RequestFacts
<1>7. /\ Start(t) /\ UNCHANGED <<store, shown>>
      /\ kept' = kept \ {Current} /\ gone' = (gone \ Listed(t.list)) \cup {Current}
      /\ store.current # None
  BY <1>1, <1>2, <1>3, <1>6 DEF ForgetCurrent
<1>8. Current \in Devices
  BY <1>7, CurrentFacts
<1>9. gone' \subseteq Devices
  BY <1>7, <1>8 DEF Types
<1>10. kept' \subseteq kept /\ kept' \cap Listed(store.list) \subseteq Listed(t.list)
  BY <1>4, <1>6, <1>7
<1>11. \A a \in gone' : a \notin Listed(t.list)
  BY <1>4, <1>6, <1>7
<1> QED BY <1>6, <1>7, <1>9, <1>10, <1>11, DialFacts

LEMMA SetRelayFacts ==
    ASSUME Types, NEW relay \in Relays, SetRelay(relay)
    PROVE  Types' /\ \E t \in AbleTask : Begins(t)
<1>1. PICK list : list = Moved(store.list, Current, relay)
  OBVIOUS
<1>2. PICK t : t = Request("saveList", list, Current, "setPairing")
  OBVIOUS
<1>3. Current \in Listed(store.list) /\ store.list \in Seq(Computer) /\ Single(store.list)
  BY CurrentFacts DEF SetRelay
<1>4. /\ list \in Seq(Computer) /\ Single(list)
      /\ Listed(list) = Listed(store.list) /\ (list = <<>> <=> store.list = <<>>)
  BY <1>1, <1>3, MovedFacts
<1>5. Fits(list, Current) /\ Current # None
  BY <1>3, <1>4, CurrentFacts DEF Fits
<1>6. /\ t \in AbleTask /\ t.do = "saveList" /\ t.list = list /\ t.then = "setPairing"
      /\ t.active = Current
  BY <1>2, <1>4, <1>5, RequestFacts
<1>7. Start(t) /\ UNCHANGED <<store, shown, kept>> /\ gone' = gone \ Listed(t.list)
  BY <1>1, <1>2, <1>4, <1>6 DEF SetRelay, Knows
<1>8. gone' \subseteq Devices
  BY <1>7 DEF Types
<1> QED BY <1>4, <1>6, <1>7, <1>8, DialFacts

LEMMA NamedFacts ==
    ASSUME Types, Named
    PROVE  Types' /\ \E t \in AbleTask : Begins(t)
<1>1. PICK one : one = [Entry(store.list, Current) EXCEPT !.named = TRUE]
  OBVIOUS
<1>2. PICK list : list = Put(store.list, one)
  OBVIOUS
<1>3. PICK t : t = Request("saveList", list, Current, "nothing")
  OBVIOUS
<1>4. Current \in Listed(store.list) /\ store.list \in Seq(Computer) /\ Single(store.list)
  BY CurrentFacts DEF Named
<1>5. one \in Computer
  <2>1. PICK old \in Computer : old = Entry(store.list, Current)
    BY <1>4, EntryFacts
  <2> QED BY <1>1, <2>1 DEF Computer
<1>6. /\ list \in Seq(Computer) /\ Single(list)
      /\ Listed(list) = Listed(store.list) /\ (list = <<>> <=> store.list = <<>>)
  BY <1>2, <1>4, <1>5, PutFacts
<1>7. Fits(list, Current)
  BY <1>4, <1>6, CurrentFacts DEF Fits
<1>8. /\ t \in AbleTask /\ t.do = "saveList" /\ t.list = list /\ t.then = "nothing"
      /\ t.active = Current
  BY <1>3, <1>6, <1>7, RequestFacts
<1>9. /\ Start(t) /\ kept' = kept /\ gone' = gone \ Listed(t.list)
      /\ link # None /\ shown' = shown \cup {link.device}
      /\ store' = [store EXCEPT !.list = list]
  BY <1>1, <1>2, <1>3, <1>8 DEF Named, Knows
<1>10. /\ store' \in [current : Pairing \cup {None}, list : Seq(Computer), loaded : BOOLEAN]
       /\ store'.list = list /\ store'.current = store.current /\ store'.loaded = store.loaded
  BY <1>6, <1>9 DEF Types
<1>11. Current' = Current
  BY <1>10 DEF Current
<1>12. Fits(store'.list, Current')
  BY <1>7, <1>10, <1>11
<1>13. link.device \in Devices
  BY <1>9 DEF Types, Pairing
<1>14. Types'
  BY <1>6, <1>8, <1>9, <1>10, <1>12, <1>13, StartFacts DEF Types
<1>15. ~Dials(t)
  BY <1>8 DEF Dials
<1> QED BY <1>6, <1>8, <1>9, <1>10, <1>14, <1>15, StartFacts DEF Begins

LEMMA HeadFacts ==
    ASSUME Types, Booted, tasks # <<>>, NEW t, t = Head(tasks)
    PROVE  /\ t \in AbleTask /\ t = tasks[1] /\ 1 \in 1..Len(tasks)
           /\ t.do \in Reads <=> ~store.loaded
           /\ Tail(tasks) \in Seq(AbleTask)
<1>1. /\ Tail(tasks) \in Seq(AbleTask) /\ Len(tasks) \in Nat \ {0}
      /\ Head(tasks) = tasks[1] /\ tasks[1] \in AbleTask
  BY ShortFacts DEF Types
<1> QED BY <1>1 DEF Booted

\* With one request under way, what is left of it is all there is.
LEMMA OnlyFacts ==
    ASSUME Types, Len(tasks) = 1, NEW u \in AbleTask, NEW r
    PROVE  /\ tasks # <<>>
           /\ r = Tail(tasks) => r \in Seq(AbleTask) /\ Len(r) = 0
           /\ r = Append(Tail(tasks), u) => r \in Seq(AbleTask) /\ Len(r) = 1 /\ r[1] = u
<1>1. tasks \in Seq(AbleTask) /\ tasks # <<>>
  <2>1. Len(<<>>) = 0
    OBVIOUS
  <2>2. tasks # <<>>
    BY <2>1
  <2> QED BY <2>2 DEF Types
<1> QED BY <1>1, ShortFacts, TurnFacts

LEMMA LoadFacts ==
    ASSUME Types, Booted, tasks # <<>>, ~store.loaded,
           NEW list \in Seq(Computer), Single(list), NEW active, Load(list, active),
           failed' \in BOOLEAN, UNCHANGED <<kept, gone, crossed>>,
           \/ /\ list = keychain.list /\ failed' = failed
              /\ GetActiveComputer(list, active)
                   = GetActiveComputer(keychain.list, keychain.active)
           \/ failed' /\ Fallible \cap Reads # {}
    PROVE  Types' /\ Booted' /\ Loads
<1>1. PICK current : current = GetActiveComputer(list, active)
  OBVIOUS
<1>2. PICK pairing : pairing = IF current = None THEN None ELSE PairingOf(list, current)
  OBVIOUS
<1>3. Fits(list, current)
  BY <1>1, ActiveFacts
<1>4. /\ pairing \in Pairing \cup {None}
      /\ current = None <=> pairing = None
      /\ current = IF pairing = None THEN None ELSE pairing.device
  BY <1>2, <1>3, FitsFacts
<1>5. /\ store' = [current |-> pairing, list |-> list, loaded |-> TRUE]
      /\ UNCHANGED <<keychain, link, shown>>
      /\ IF current = None THEN Answered
         ELSE Then("fetch", Request("fetch", list, current, "nothing"))
  BY <1>1, <1>2 DEF Load
<1>6. /\ store' \in [current : Pairing \cup {None}, list : Seq(Computer), loaded : BOOLEAN]
      /\ store'.list = list /\ store'.current = pairing /\ store'.loaded
      /\ Current' = current
  BY <1>4, <1>5 DEF Current
<1>7. Len(tasks) = 1
  BY DEF Booted
<1>8. CASE current = None
  <2>1. tasks' = Tail(tasks)
    BY <1>5, <1>8 DEF Answered
  <2>2. tasks' \in Seq(AbleTask) /\ Len(tasks') = 0
    BY <1>7, <2>1, ShortFacts DEF Types
  <2>3. Types'
    BY <1>3, <1>5, <1>6, <2>2 DEF Types
  <2>4. Booted'
    BY <1>6, <2>2 DEF Booted
  <2>5. Loads
    BY <1>1, <1>4, <1>5, <1>6, <1>8, <2>2 DEF Loads
  <2> QED BY <2>3, <2>4, <2>5
<1>9. CASE current # None
  <2>1. PICK r : r = Request("fetch", list, current, "nothing")
    OBVIOUS
  <2>2. PICK u : u = [r EXCEPT !.do = "fetch"]
    OBVIOUS
  <2>3. r \in AbleTask /\ r.do = "fetch" /\ r.list = list /\ r.active = current
    BY <1>3, <1>9, <2>1, RequestFacts
  <2>4. u \in AbleTask /\ u.do = "fetch" /\ u.list = list /\ u.active = current
    BY <1>9, <2>2, <2>3, RedoneFacts DEF Reads
  <2>5. tasks' = Append(Tail(tasks), u)
    BY <1>5, <1>9, <2>1, <2>2 DEF Then
  <2>6. tasks' \in Seq(AbleTask) /\ Len(tasks') = 1 /\ tasks'[1] = u
    BY <1>7, <2>4, <2>5, OnlyFacts
  <2>7. Types'
    BY <1>3, <1>5, <1>6, <2>6 DEF Types
  <2>8. Booted'
    BY <1>6, <2>4, <2>6 DEF Booted, Reads
  <2>9. PairingOf(list, current) = pairing /\ pairing # None
    BY <1>2, <1>4, <1>9
  <2>10. Loads
    BY <1>1, <1>5, <1>6, <2>4, <2>6, <2>9 DEF Loads
  <2> QED BY <2>7, <2>8, <2>10
<1> QED BY <1>8, <1>9

LEMMA ReadFacts ==
    ASSUME Types, Booted, Serve, NEW t, t = Head(tasks), t.do \in Reads
    PROVE  Types' /\ Booted' /\ (Loads \/ ReadsOn)
<1>1. tasks # <<>> /\ UNCHANGED <<failed, gone, crossed>>
  BY DEF Serve
<1>2. /\ t \in AbleTask /\ t = tasks[1] /\ ~store.loaded
      /\ t.do = "readActive" => t.list = keychain.list
  BY <1>1, HeadFacts DEF Booted
<1>3. kept' = kept
  BY DEF Serve, Promised, Reads
<1>4. keychain.list \in Seq(Computer) /\ Single(keychain.list) /\ failed' \in BOOLEAN
  BY <1>1 DEF Types
<1>5. CASE t.do = "readActive"
  <2>1. Load(keychain.list, keychain.active)
    BY <1>2, <1>5 DEF Serve, ReadActive
  <2> QED BY <1>1, <1>2, <1>3, <1>4, <2>1, LoadFacts
<1>6. CASE t.do = "readList" /\ keychain.list = <<>>
  <2>1. Load(keychain.list, None)
    BY <1>6 DEF Serve, ReadList
  <2>2. \A active : GetActiveComputer(<<>>, active) = None
    BY <1>4, <1>6, ActiveFacts DEF Fits
  <2>3. GetActiveComputer(keychain.list, None)
          = GetActiveComputer(keychain.list, keychain.active)
    BY <1>6, <2>2
  <2> QED BY <1>1, <1>2, <1>3, <1>4, <2>1, <2>3, LoadFacts
<1>7. CASE t.do = "readList" /\ keychain.list # <<>>
  <2>1. PICK s : s = [t EXCEPT !.list = keychain.list]
    OBVIOUS
  <2>2. PICK u : u = [s EXCEPT !.do = "readActive"]
    OBVIOUS
  <2>3. Then("readActive", s) /\ UNCHANGED <<keychain, store, link, shown>>
    BY <1>7, <2>1 DEF Serve, ReadList
  <2>4. u \in AbleTask /\ u.do = "readActive" /\ u.list = keychain.list
    <3>1. u \in Task /\ u.do = "readActive" /\ u.list = keychain.list /\ u.then = t.then
          /\ u.active = t.active
      BY <1>2, <1>4, <2>1, <2>2, TaskFacts DEF Task
    <3> QED BY <1>2, <1>4, <3>1, TaskFacts DEF AbleTask, Reads
  <2>5. tasks' \in Seq(AbleTask) /\ Len(tasks') = 1 /\ tasks'[1] = u
    <3>1. Len(tasks) = 1 /\ tasks' = Append(Tail(tasks), u)
      BY <1>2, <2>2, <2>3 DEF Booted, Then
    <3> QED BY <2>4, <3>1, OnlyFacts
  <2>6. Types'
    BY <1>1, <1>3, <2>3, <2>5 DEF Types, Current
  <2>7. Booted'
    BY <1>2, <2>3, <2>4, <2>5 DEF Booted, Reads
  <2>8. ReadsOn
    BY <1>1, <1>2, <1>3, <2>3, <2>4, <2>5 DEF ReadsOn, Reads, history
  <2> QED BY <2>6, <2>7, <2>8
<1> QED BY <1>5, <1>6, <1>7 DEF Reads

LEMMA TurnsFacts ==
    ASSUME Types, Booted, Serve, NEW t, t = Head(tasks), t.do \in {"dropRoutes", "saveList"}
    PROVE  Types' /\ Booted' /\ \E u \in AbleTask : Turns(t, u)
<1>1. tasks # <<>> /\ UNCHANGED <<failed, gone, crossed>>
  BY DEF Serve
<1>2. /\ t \in AbleTask /\ t = tasks[1] /\ 1 \in 1..Len(tasks) /\ store.loaded
      /\ t.list \in Seq(Computer) /\ Single(t.list) /\ t.do \notin Reads
  BY <1>1, HeadFacts, TaskFacts DEF Reads
<1>3. kept' = kept
  BY DEF Serve, Promised
<1>4. PICK do \in {"saveList", "saveActive"} :
          do = IF t.do = "dropRoutes" THEN "saveList" ELSE "saveActive"
  OBVIOUS
<1>5. PICK u : u = [t EXCEPT !.do = do]
  OBVIOUS
<1>6. /\ u \in AbleTask /\ u.do = do
      /\ u.list = t.list /\ u.active = t.active /\ u.then = t.then
  BY <1>2, <1>5, RedoneFacts
<1>7. tasks' = Append(Tail(tasks), u) /\ UNCHANGED <<store, link, shown>>
  BY <1>4, <1>5 DEF Serve, DropRoutes, SaveList, Then
<1>8. /\ keychain' \in [list : Seq(Computer), active : Devices \cup {None}]
      /\ keychain'.list = IF t.do = "saveList" THEN t.list ELSE keychain.list
      /\ keychain'.active = keychain.active
  <2>1. CASE t.do = "dropRoutes"
    BY <2>1 DEF Serve, DropRoutes, Types
  <2>2. CASE t.do = "saveList"
    <3>1. keychain' = [keychain EXCEPT !.list = t.list]
      BY <2>2 DEF Serve, SaveList
    <3> QED BY <1>2, <2>2, <3>1 DEF Types
  <2> QED BY <2>1, <2>2
<1>9. /\ tasks' \in Seq(AbleTask) /\ Len(tasks) \in Nat \ {0} /\ Len(tasks') = Len(tasks)
      /\ \A i \in 1..Len(tasks) - 1 : tasks'[i] = tasks[i + 1]
      /\ tasks'[Len(tasks)] = u
  BY <1>1, <1>6, <1>7, TurnFacts DEF Types
<1>10. Types'
  BY <1>1, <1>2, <1>3, <1>7, <1>8, <1>9 DEF Types, Current
<1>11. Booted'
  <2>1. \A i \in 1..Len(tasks') : tasks'[i].do \notin Reads
    BY <1>2, <1>4, <1>6, <1>9 DEF Booted, Reads
  <2> QED BY <1>2, <1>7, <2>1 DEF Booted
<1>12. Turns(t, u)
  BY <1>1, <1>3, <1>4, <1>6, <1>7, <1>8 DEF Turns, history
<1> QED BY <1>6, <1>10, <1>11, <1>12

\* What the requests are once one has left.
LEMMA LeaveFacts ==
    ASSUME Types, Booted, tasks # <<>>, store.loaded, NEW t, Leaves(t)
    PROVE  /\ tasks' \in Seq(AbleTask) /\ Len(tasks) \in Nat \ {0}
           /\ Len(tasks') \in {Len(tasks) - 1, Len(tasks)}
           /\ t = tasks[1]
           /\ \A i \in 1..Len(tasks) - 1 : tasks'[i] = tasks[i + 1]
           /\ tasks' # Tail(tasks) =>
                 /\ Len(tasks') = Len(tasks)
                 /\ tasks'[Len(tasks)].do = "fetch"
                 /\ tasks'[Len(tasks)].list = t.list /\ tasks'[Len(tasks)].active = t.active
           /\ tasks' = Tail(tasks) => Len(tasks') = Len(tasks) - 1
           /\ \A i \in 1..Len(tasks') : tasks'[i].do \notin Reads
<1>1. CASE tasks' = Tail(tasks)
  <2>1. /\ tasks' \in Seq(AbleTask) /\ Len(tasks) \in Nat \ {0}
        /\ Len(tasks') = Len(tasks) - 1 /\ t = tasks[1]
        /\ \A i \in 1..Len(tasks) - 1 : tasks'[i] = tasks[i + 1]
    BY <1>1, ShortFacts DEF Types, Leaves
  <2> QED BY <1>1, <2>1 DEF Booted
<1>2. CASE tasks' # Tail(tasks)
  <2>1. PICK u \in AbleTask : /\ u.do = "fetch" /\ u.list = t.list /\ u.active = t.active
                              /\ tasks' = Append(Tail(tasks), u)
    BY <1>2 DEF Leaves
  <2>2. /\ tasks' \in Seq(AbleTask) /\ Len(tasks) \in Nat \ {0} /\ Len(tasks') = Len(tasks)
        /\ \A i \in 1..Len(tasks) - 1 : tasks'[i] = tasks[i + 1]
        /\ tasks'[Len(tasks)] = u /\ t = tasks[1]
    BY <2>1, TurnFacts DEF Types, Leaves
  <2>3. ASSUME NEW i \in 1..Len(tasks') PROVE tasks'[i].do \notin Reads
    <3>1. CASE i = Len(tasks)
      BY <2>1, <2>2, <3>1 DEF Reads
    <3>2. CASE i # Len(tasks)
      <4>1. i \in 1..Len(tasks) - 1 /\ i + 1 \in 1..Len(tasks)
        BY <2>2, <3>2
      <4> QED BY <2>2, <4>1 DEF Booted
    <3> QED BY <3>1, <3>2
  <2> QED BY <1>2, <2>1, <2>2, <2>3
<1> QED BY <1>1, <1>2

\* Asking for the routes, or for nothing more, an operation leaves.
LEMMA ThenFacts ==
    ASSUME Types, tasks # <<>>, NEW t \in AbleTask, t = Head(tasks), t.do = "saveActive",
           IF t.active = None THEN Answered ELSE Then("fetch", t)
    PROVE  /\ Leaves(t)
           /\ tasks' = Tail(tasks) <=> t.active = None
<1>1. CASE t.active = None
  BY <1>1 DEF Answered, Leaves
<1>2. CASE t.active # None
  <2>1. PICK u : u = [t EXCEPT !.do = "fetch"]
    OBVIOUS
  <2>2. u \in AbleTask /\ u.do = "fetch" /\ u.list = t.list /\ u.active = t.active
    BY <1>2, <2>1, RedoneFacts DEF Reads
  <2>3. tasks' = Append(Tail(tasks), u)
    BY <1>2, <2>1 DEF Then
  <2>4. Len(tasks') = Len(tasks) /\ Len(Tail(tasks)) = Len(tasks) - 1 /\ Len(tasks) \in Nat
    BY <2>2, <2>3, TurnFacts, ShortFacts DEF Types
  <2>5. tasks' # Tail(tasks)
    BY <2>4
  <2> QED BY <1>2, <2>2, <2>3, <2>5 DEF Leaves
<1> QED BY <1>1, <1>2

LEMMA EndsFacts ==
    ASSUME Types, Booted, Serve, NEW t, t = Head(tasks), t.do = "saveActive"
    PROVE  Types' /\ Booted' /\ Ends(t)
<1>1. tasks # <<>> /\ UNCHANGED <<failed, gone, crossed>> /\ kept' = Promised(t)
  BY DEF Serve
<1>2. /\ t \in AbleTask /\ t = tasks[1] /\ store.loaded
      /\ t.list \in Seq(Computer) /\ Single(t.list) /\ Fits(t.list, t.active)
      /\ t.active \in Devices \cup {None}
      /\ t.then \in {"connectTo", "setPairing", "nothing"}
      /\ t.then = "setPairing" => t.active # None
  BY <1>1, HeadFacts, TaskFacts DEF Reads
<1>3. SaveActive(t)
  BY DEF Serve
<1>4. /\ keychain' \in [list : Seq(Computer), active : Devices \cup {None}]
      /\ keychain'.list = keychain.list /\ keychain'.active = t.active
  <2>1. keychain' = [keychain EXCEPT !.active = t.active]
    BY <1>3 DEF SaveActive
  <2> QED BY <1>2, <2>1 DEF Types
<1>5. kept' \subseteq Devices
  BY <1>1, <1>2 DEF Promised, Types
<1>6. PICK pairing : pairing = IF t.active = None THEN None ELSE PairingOf(t.list, t.active)
  OBVIOUS
<1>7. /\ pairing \in Pairing \cup {None}
      /\ t.active = IF pairing = None THEN None ELSE pairing.device
  BY <1>2, <1>6, FitsFacts
<1>8. ASSUME store' \in [current : Pairing \cup {None}, list : Seq(Computer), loaded : BOOLEAN],
             store'.loaded = store.loaded,
             IF Dials(t) THEN store'.list = t.list /\ store'.current = pairing
             ELSE store' = store,
             IF t.then = "connectTo" THEN link' = None /\ shown' = {} ELSE UNCHANGED <<link, shown>>,
             Leaves(t),
             tasks' = Tail(tasks) => ~Dials(t) \/ t.active = None,
             tasks' # Tail(tasks) => Dials(t) /\ t.active # None
      PROVE  Types' /\ Booted' /\ Ends(t)
  <2>1. Dials(t) => Current' = t.active
    BY <1>7, <1>8 DEF Current
  <2>2. Single(store'.list) /\ Fits(store'.list, Current')
    <3>1. CASE Dials(t)
      BY <1>2, <1>8, <2>1, <3>1
    <3>2. CASE ~Dials(t)
      BY <1>8, <3>2 DEF Types, Current
    <3> QED BY <3>1, <3>2
  <2>3. tasks' \in Seq(AbleTask) /\ \A i \in 1..Len(tasks') : tasks'[i].do \notin Reads
    BY <1>1, <1>2, <1>8, LeaveFacts
  <2>4. link' \in Pairing \cup {None} /\ shown' \subseteq Devices
    BY <1>8 DEF Types
  <2>5. Types'
    BY <1>1, <1>4, <1>5, <1>8, <2>2, <2>3, <2>4 DEF Types
  <2>6. Booted'
    BY <1>2, <1>8, <2>3 DEF Booted
  <2>7. Ends(t)
    BY <1>1, <1>4, <1>6, <1>8, <2>1 DEF Ends
  <2> QED BY <2>5, <2>6, <2>7
<1>9. CASE t.then = "connectTo" /\ ConnectTo(t)
  <2>1. Dials(t)
    BY <1>9 DEF Dials
  <2>2. /\ store' = [current |-> pairing, list |-> t.list, loaded |-> TRUE]
        /\ link' = None /\ shown' = {}
        /\ IF t.active = None THEN Answered ELSE Then("fetch", t)
    BY <1>6, <1>9 DEF ConnectTo
  <2>3. Leaves(t) /\ (tasks' = Tail(tasks) <=> t.active = None)
    BY <1>1, <1>2, <2>2, ThenFacts
  <2>4. /\ store' \in [current : Pairing \cup {None}, list : Seq(Computer), loaded : BOOLEAN]
        /\ store'.list = t.list /\ store'.current = pairing /\ store'.loaded
    BY <1>2, <1>7, <2>2
  <2>5. store'.loaded = store.loaded
    BY <1>2, <2>4 DEF Types
  <2> QED BY <1>8, <1>9, <2>1, <2>2, <2>3, <2>4, <2>5
<1>10. CASE t.then = "setPairing" /\ SetPairing(t)
  <2>1. Dials(t)
    BY <1>10 DEF Dials
  <2>2. /\ store' = [store EXCEPT !.list = t.list, !.current = pairing]
        /\ UNCHANGED <<link, shown>> /\ Then("fetch", t)
    BY <1>2, <1>6, <1>10 DEF SetPairing
  <2>3. Leaves(t) /\ (tasks' = Tail(tasks) <=> t.active = None)
    BY <1>1, <1>2, <1>10, <2>2, ThenFacts
  <2>4. /\ store' \in [current : Pairing \cup {None}, list : Seq(Computer), loaded : BOOLEAN]
        /\ store'.list = t.list /\ store'.current = pairing /\ store'.loaded = store.loaded
    BY <1>2, <1>7, <2>2 DEF Types
  <2> QED BY <1>8, <1>10, <2>1, <2>2, <2>3, <2>4
<1>11. CASE t.then = "nothing" /\ Answered /\ UNCHANGED <<store, link, shown>>
  <2>1. ~Dials(t)
    BY <1>11 DEF Dials
  <2>2. tasks' = Tail(tasks) /\ Leaves(t)
    BY <1>11 DEF Answered, Leaves
  <2>3. store' \in [current : Pairing \cup {None}, list : Seq(Computer), loaded : BOOLEAN]
    BY <1>11 DEF Types
  <2> QED BY <1>8, <1>11, <2>1, <2>2, <2>3
<1> QED BY <1>3, <1>9, <1>10, <1>11 DEF SaveActive

LEMMA FetchesFacts ==
    ASSUME Types, Booted, Serve, NEW t, t = Head(tasks), t.do = "fetch"
    PROVE  Types' /\ Booted' /\ Fetches(t)
<1>1. tasks # <<>> /\ UNCHANGED <<failed, gone, crossed>>
  BY DEF Serve
<1>2. /\ t \in AbleTask /\ t = tasks[1] /\ store.loaded
      /\ t.list \in Seq(Computer) /\ Fits(t.list, t.active) /\ t.active # None
  BY <1>1, HeadFacts, TaskFacts DEF Reads
<1>3. kept' = kept
  BY DEF Serve, Promised
<1>4. Fetch(t)
  BY DEF Serve
<1>5. PICK pairing : pairing = IF t.active = None THEN None ELSE PairingOf(t.list, t.active)
  OBVIOUS
<1>6. link' = pairing /\ pairing \in Pairing \cup {None}
  BY <1>2, <1>4, <1>5, FitsFacts DEF Fetch
<1>7. Leaves(t) /\ UNCHANGED <<keychain, store, shown>>
  BY <1>4 DEF Leaves, Fetch, Answered
<1>8. tasks' \in Seq(AbleTask) /\ \A i \in 1..Len(tasks') : tasks'[i].do \notin Reads
  BY <1>1, <1>2, <1>7, LeaveFacts
<1>9. Types'
  BY <1>1, <1>3, <1>6, <1>7, <1>8 DEF Types, Current
<1>10. Booted'
  BY <1>2, <1>7, <1>8 DEF Booted
<1> QED BY <1>1, <1>3, <1>4, <1>9, <1>10 DEF Fetches, history

LEMMA FailFacts ==
    ASSUME Types, Booted, Fail
    PROVE  Types' /\ Booted' /\ (Loads \/ \E t \in AbleTask : Breaks(t))
<1>1. PICK t : t = Head(tasks)
  OBVIOUS
<1>2. /\ tasks # <<>> /\ t.do \in Fallible /\ failed' = TRUE
      /\ UNCHANGED <<kept, gone, crossed>>
      /\ IF t.do \in Reads THEN Load(<<>>, None)
         ELSE Answered /\ UNCHANGED <<keychain, store, link, shown>>
  BY <1>1 DEF Fail, Reads
<1>3. t \in AbleTask /\ (t.do \in Reads <=> ~store.loaded)
  BY <1>1, <1>2, HeadFacts
<1>4. CASE t.do \in Reads
  <2>1. <<>> \in Seq(Computer) /\ Single(<<>>)
    BY EmptySeq, SingleEmpty
  <2>2. Fallible \cap Reads # {}
    BY <1>2, <1>4
  <2> QED BY <1>2, <1>3, <1>4, <2>1, <2>2, LoadFacts
<1>5. CASE t.do \notin Reads
  <2>1. Writes(t)
    BY <1>2, <1>5, ComputersAssumption DEF Writes, Reads
  <2>2. Leaves(t)
    BY <1>1, <1>2, <1>5 DEF Answered, Leaves
  <2>3. tasks' \in Seq(AbleTask) /\ \A i \in 1..Len(tasks') : tasks'[i].do \notin Reads
    BY <1>2, <1>3, <1>5, <2>2, LeaveFacts
  <2>4. Types'
    BY <1>2, <1>5, <2>3 DEF Types, Current
  <2>5. Booted'
    BY <1>2, <1>3, <1>5, <2>3 DEF Booted
  <2>6. Breaks(t)
    BY <1>1, <1>2, <1>5, <2>1 DEF Breaks
  <2> QED BY <1>3, <2>4, <2>5, <2>6
<1> QED BY <1>4, <1>5

\* The app as it starts: it asks what was kept.
LEMMA UnreadFacts ==
    ASSUME NEW q, q = <<Request("readList", <<>>, None, "nothing")>>
    PROVE  /\ q \in Seq(AbleTask) /\ Len(q) = 1 /\ q[1].do = "readList"
           /\ Unread \in [current : Pairing \cup {None}, list : Seq(Computer), loaded : BOOLEAN]
           /\ Unread.list = <<>> /\ Unread.current = None /\ ~Unread.loaded
           /\ Single(<<>>) /\ Fits(<<>>, None)
<1>1. <<>> \in Seq(Computer) /\ Single(<<>>)
  BY EmptySeq, SingleEmpty
<1>2. PICK t : t = Request("readList", <<>>, None, "nothing")
  OBVIOUS
<1>3. t \in Task /\ t.do = "readList" /\ t.list = <<>> /\ t.then = "nothing"
  BY <1>1, <1>2 DEF Request, Task
<1>4. t \in AbleTask
  BY <1>1, <1>3 DEF AbleTask, Reads
<1>5. q = <<t>>
  BY <1>2
<1>6. q \in Seq(AbleTask) /\ Len(q) = 1 /\ q[1] = t
  BY <1>4, <1>5
<1> QED BY <1>1, <1>3, <1>6 DEF Unread, Fits

LEMMA RestartFacts ==
    ASSUME Types, Restart
    PROVE  Types' /\ Booted'
<1>1. /\ tasks' \in Seq(AbleTask) /\ Len(tasks') = 1 /\ tasks'[1].do = "readList"
      /\ Unread \in [current : Pairing \cup {None}, list : Seq(Computer), loaded : BOOLEAN]
      /\ Unread.list = <<>> /\ Unread.current = None /\ ~Unread.loaded
      /\ Single(<<>>) /\ Fits(<<>>, None)
  BY UnreadFacts DEF Restart
<1>2. /\ store' = Unread /\ link' = None /\ shown' = {} /\ keychain' = keychain
      /\ failed' = FALSE /\ crossed' = {}
      /\ kept' = kept \cup Listed(keychain.list) /\ gone' \subseteq gone
  BY DEF Restart
<1>3. Listed(keychain.list) \subseteq Devices
  BY ListFacts DEF Types
<1>4. Current' = None
  BY <1>1, <1>2 DEF Current
<1>5. Types'
  BY <1>1, <1>2, <1>3, <1>4 DEF Types
<1>6. Booted'
  BY <1>1, <1>2 DEF Booted, Reads
<1> QED BY <1>5, <1>6

LEMMA BeginBooted ==
    ASSUME Types, Booted, NEW t \in AbleTask, Begins(t)
    PROVE  Booted'
<1>1. /\ Len(tasks) \in Nat /\ Len(tasks') = Len(tasks) + 1
      /\ \A i \in 1..Len(tasks) : tasks'[i] = tasks[i]
      /\ tasks'[Len(tasks')] = t
  BY LongFacts DEF Begins, Types
<1>2. store.loaded /\ store'.loaded = store.loaded /\ t.do \notin Reads
  BY DEF Begins, Reads
<1> QED BY <1>1, <1>2 DEF Booted

\* Every step is one of these.
LEMMA StepFacts ==
    ASSUME Types, Booted, Next
    PROVE  /\ Types' /\ Booted'
           /\ \/ \E t \in AbleTask : \/ Begins(t) \/ Ends(t) \/ Fetches(t) \/ Breaks(t)
                                     \/ \E u \in AbleTask : Turns(t, u)
              \/ Loads \/ ReadsOn \/ Streamed \/ Restart
<1>1. CASE \/ \E device \in Devices : Use(device)
           \/ \E pairing \in Pairing : Add(pairing)
           \/ ForgetCurrent
           \/ \E relay \in Relays : SetRelay(relay)
           \/ Named
  <2>1. Types' /\ \E t \in AbleTask : Begins(t)
    BY <1>1, UseFacts, AddFacts, ForgetFacts, SetRelayFacts, NamedFacts
  <2> QED BY <2>1, BeginBooted
<1>2. CASE Streamed
  <2>1. shown' \subseteq Devices
    BY <1>2 DEF Streamed, Types, Pairing
  <2>2. UNCHANGED <<keychain, store, link, tasks, failed, kept, gone, crossed>>
    BY <1>2 DEF Streamed, history
  <2>3. Types'
    BY <2>1, <2>2 DEF Types, Current
  <2>4. store.loaded
    BY <1>2 DEF Streamed, Booted
  <2>5. Booted'
    BY <2>2, <2>4 DEF Booted
  <2> QED BY <1>2, <2>3, <2>5
<1>3. CASE Serve
  <2>1. PICK t : t = Head(tasks)
    OBVIOUS
  <2>2. tasks # <<>>
    BY <1>3 DEF Serve
  <2>3. t \in AbleTask
    BY <2>1, <2>2, HeadFacts
  <2>4. t.do \in Reads \/ t.do \in {"dropRoutes", "saveList"} \/ t.do = "saveActive" \/ t.do = "fetch"
    BY <2>3, TaskFacts DEF Reads
  <2> QED BY <1>3, <2>1, <2>3, <2>4, ReadFacts, TurnsFacts, EndsFacts, FetchesFacts
<1>4. CASE Fail
  BY <1>4, FailFacts
<1>5. CASE Restart
  BY <1>5, RestartFacts
<1> QED BY <1>1, <1>2, <1>3, <1>4, <1>5 DEF Next

LEMMA StutterFacts ==
    ASSUME Types, Booted, UNCHANGED vars
    PROVE  Types' /\ Booted' /\ UNCHANGED <<keychain, store, link, shown, tasks, failed, kept, gone, crossed>>
<1>1. UNCHANGED <<keychain, store, link, shown, tasks, failed, kept, gone, crossed>>
  BY DEF vars, history
<1> QED BY <1>1 DEF Types, Booted, Current

LEMMA InitFacts ==
    ASSUME Init
    PROVE  /\ Types /\ Booted
           /\ kept = {} /\ gone = {} /\ link = None /\ shown = {} /\ Current = None
           /\ Len(tasks) = 1 /\ tasks[1].do = "readList" /\ ~store.loaded
<1>1. /\ keychain.list = <<>> /\ keychain \in [list : Seq(Computer), active : Devices \cup {None}]
      /\ store = Unread /\ link = None /\ shown = {} /\ failed = FALSE
      /\ kept = {} /\ gone = {} /\ crossed = {}
  BY EmptySeq DEF Init
<1>2. tasks = <<Request("readList", <<>>, None, "nothing")>>
  BY DEF Init, Request
<1>3. /\ tasks \in Seq(AbleTask) /\ Len(tasks) = 1 /\ tasks[1].do = "readList"
      /\ Unread \in [current : Pairing \cup {None}, list : Seq(Computer), loaded : BOOLEAN]
      /\ Unread.list = <<>> /\ Unread.current = None /\ ~Unread.loaded
      /\ Single(<<>>) /\ Fits(<<>>, None)
  BY <1>2, UnreadFacts
<1>4. Current = None
  BY <1>1, <1>3 DEF Current
<1> QED BY <1>1, <1>3, <1>4 DEF Types, Booted, Reads

Formed == Types /\ Booted

LEMMA FormedAlways == Spec => []Formed
<1>1. Init => Formed
  BY InitFacts DEF Formed
<1>2. Formed /\ [Next]_vars => Formed'
  BY StepFacts, StutterFacts DEF Formed
<1> QED BY <1>1, <1>2, PTL DEF Spec

\* The lists, the requests and what is in use keep to their types, whatever operations cross and
\* whichever requests fail (computers.ts, keychain.ts).
THEOREM TypeCorrect == Spec => []TypeOK
<1>1. Formed => TypeOK
  <2>1. AbleTask \subseteq Task
    BY DEF AbleTask
  <2> QED BY <2>1, SeqMonotonic DEF Formed, Types, TypeOK
<1> QED BY <1>1, FormedAlways, PTL

-----------------------------------------------------------------------------
(* The order of what is under way.  Each operation writes its list, and     *)
(* then what is in use, in the order in which they were started; one that   *)
(* forgets a computer writes a turn after those started with it.            *)

Writer(q, i) == i \in 1..Len(q) /\ Writes(q[i])

Dialer(q, i) == Writer(q, i) /\ Dials(q[i])

Fetcher(q, i) == i \in 1..Len(q) /\ q[i].do = "fetch"

Stage(t) == IF t.do = "dropRoutes" THEN 0 ELSE IF t.do = "saveList" THEN 1 ELSE 2

\* The writes of i are over before those of j.
Before(q, i, j) == Stage(q[i]) > Stage(q[j]) \/ (Stage(q[i]) = Stage(q[j]) /\ i < j)

\* Where a request was before the first was answered and asked for more, and where it goes.
From(q, i) == IF i = Len(q) THEN 1 ELSE i + 1
Into(q, k) == IF k = 1 THEN Len(q) ELSE k - 1

LEMMA TurnOrder ==
    ASSUME Types, NEW t \in AbleTask, NEW u \in AbleTask, Turns(t, u)
    PROVE  /\ Len(tasks) \in Nat \ {0} /\ Len(tasks') = Len(tasks)
           /\ t = tasks[1] /\ tasks'[Len(tasks)] = u
           /\ \A i \in 1..Len(tasks) - 1 : tasks'[i] = tasks[i + 1]
           /\ \A i \in 1..Len(tasks) :
                 /\ From(tasks, i) \in 1..Len(tasks)
                 /\ tasks'[i].list = tasks[From(tasks, i)].list
                 /\ tasks'[i].active = tasks[From(tasks, i)].active
                 /\ tasks'[i].then = tasks[From(tasks, i)].then
                 /\ Writes(tasks'[i]) <=> Writes(tasks[From(tasks, i)])
                 /\ Dials(tasks'[i]) <=> Dials(tasks[From(tasks, i)])
                 /\ tasks'[i].do = "fetch" <=> tasks[From(tasks, i)].do = "fetch"
           /\ \A k \in 1..Len(tasks) : Into(tasks, k) \in 1..Len(tasks) /\ From(tasks, Into(tasks, k)) = k
<1>1. /\ Len(tasks) \in Nat \ {0} /\ Len(tasks') = Len(tasks)
      /\ t = tasks[1] /\ tasks'[Len(tasks)] = u
      /\ \A i \in 1..Len(tasks) - 1 : tasks'[i] = tasks[i + 1]
  BY TurnFacts DEF Turns, Types
<1>2. /\ u.list = t.list /\ u.active = t.active /\ u.then = t.then
      /\ Writes(t) /\ Writes(u) /\ (Dials(u) <=> Dials(t))
      /\ t.do # "fetch" /\ u.do # "fetch"
  BY DEF Turns, Writes, Dials
<1>3. ASSUME NEW i \in 1..Len(tasks)
      PROVE  /\ From(tasks, i) \in 1..Len(tasks)
             /\ tasks'[i].list = tasks[From(tasks, i)].list
             /\ tasks'[i].active = tasks[From(tasks, i)].active
             /\ tasks'[i].then = tasks[From(tasks, i)].then
             /\ Writes(tasks'[i]) <=> Writes(tasks[From(tasks, i)])
             /\ Dials(tasks'[i]) <=> Dials(tasks[From(tasks, i)])
             /\ tasks'[i].do = "fetch" <=> tasks[From(tasks, i)].do = "fetch"
  <2>1. CASE i = Len(tasks)
    <3>1. From(tasks, i) = 1 /\ 1 \in 1..Len(tasks)
      BY <1>1, <2>1 DEF From
    <3> QED BY <1>1, <1>2, <2>1, <3>1
  <2>2. CASE i # Len(tasks)
    <3>1. i \in 1..Len(tasks) - 1 /\ From(tasks, i) = i + 1 /\ i + 1 \in 1..Len(tasks)
      BY <1>1, <2>2 DEF From
    <3>2. tasks'[i] = tasks[From(tasks, i)]
      BY <1>1, <3>1
    <3> QED BY <3>1, <3>2
  <2> QED BY <2>1, <2>2
<1>4. \A k \in 1..Len(tasks) : Into(tasks, k) \in 1..Len(tasks) /\ From(tasks, Into(tasks, k)) = k
  BY <1>1 DEF From, Into
<1> QED BY <1>1, <1>3, <1>4

LEMMA StageFacts == \A t \in AbleTask : Stage(t) \in 0..2
BY DEF Stage

LEMMA TurnBefore ==
    ASSUME Types, NEW t \in AbleTask, NEW u \in AbleTask, Turns(t, u),
           NEW i \in 1..Len(tasks), NEW j \in 1..Len(tasks), i # j,
           Writes(tasks'[i]), Writes(tasks'[j])
    PROVE  /\ Before(tasks', i, j) <=> Before(tasks, From(tasks, i), From(tasks, j))
           /\ From(tasks, i) # From(tasks, j)
<1>1. /\ Len(tasks) \in Nat \ {0}
      /\ t = tasks[1] /\ tasks'[Len(tasks)] = u
      /\ \A k \in 1..Len(tasks) - 1 : tasks'[k] = tasks[k + 1]
  BY TurnOrder
<1>2. Stage(u) = Stage(t) + 1 /\ Stage(t) \in 0..2
  BY DEF Turns, Stage
<1>3. CASE i = Len(tasks)
  <2>1. j \in 1..Len(tasks) - 1 /\ From(tasks, i) = 1 /\ From(tasks, j) = j + 1
    BY <1>1, <1>3 DEF From
  <2>2. tasks'[j] = tasks[j + 1] /\ tasks[j + 1] \in AbleTask
    <3>1. j + 1 \in 1..Len(tasks)
      BY <1>1, <2>1
    <3> QED BY <1>1, <2>1, <3>1, ElementOfSeq DEF Types
  <2>3. Stage(tasks[j + 1]) \in 0..2
    BY <2>2, StageFacts
  <2> QED BY <1>1, <1>2, <1>3, <2>1, <2>2, <2>3 DEF Before
<1>4. CASE j = Len(tasks)
  <2>1. i \in 1..Len(tasks) - 1 /\ From(tasks, j) = 1 /\ From(tasks, i) = i + 1
    BY <1>1, <1>4 DEF From
  <2>2. tasks'[i] = tasks[i + 1] /\ tasks[i + 1] \in AbleTask
    <3>1. i + 1 \in 1..Len(tasks)
      BY <1>1, <2>1
    <3> QED BY <1>1, <2>1, <3>1, ElementOfSeq DEF Types
  <2>3. Stage(tasks[i + 1]) \in 0..2
    BY <2>2, StageFacts
  <2> QED BY <1>1, <1>2, <1>4, <2>1, <2>2, <2>3 DEF Before
<1>5. CASE i # Len(tasks) /\ j # Len(tasks)
  <2>1. /\ i \in 1..Len(tasks) - 1 /\ From(tasks, i) = i + 1
        /\ j \in 1..Len(tasks) - 1 /\ From(tasks, j) = j + 1
    BY <1>1, <1>5 DEF From
  <2>2. tasks'[i] = tasks[i + 1] /\ tasks'[j] = tasks[j + 1]
    BY <1>1, <2>1
  <2> QED BY <2>1, <2>2 DEF Before
<1> QED BY <1>3, <1>4, <1>5

\* What is left once the first request has left.
LEMMA LeaveOrder ==
    ASSUME Types, Booted, tasks # <<>>, store.loaded, NEW t, Leaves(t)
    PROVE  /\ Len(tasks) \in Nat \ {0} /\ t = tasks[1]
           /\ Len(tasks') \in {Len(tasks) - 1, Len(tasks)}
           /\ \A i : Writer(tasks', i) => /\ i \in 1..Len(tasks) - 1 /\ tasks'[i] = tasks[i + 1]
                                          /\ Writer(tasks, i + 1)
           /\ \A k \in 2..Len(tasks) : k - 1 \in 1..Len(tasks') /\ tasks'[k - 1] = tasks[k]
           /\ \A i, j : Writer(tasks', i) /\ Writer(tasks', j) =>
                 (Before(tasks', i, j) <=> Before(tasks, i + 1, j + 1))
<1>1. /\ Len(tasks) \in Nat \ {0}
      /\ Len(tasks') \in {Len(tasks) - 1, Len(tasks)}
      /\ t = tasks[1]
      /\ \A i \in 1..Len(tasks) - 1 : tasks'[i] = tasks[i + 1]
      /\ Len(tasks') = Len(tasks) => tasks'[Len(tasks)].do = "fetch"
  <2>1. /\ Len(tasks) \in Nat \ {0}
        /\ Len(tasks') \in {Len(tasks) - 1, Len(tasks)}
        /\ t = tasks[1]
        /\ \A i \in 1..Len(tasks) - 1 : tasks'[i] = tasks[i + 1]
        /\ tasks' # Tail(tasks) => tasks'[Len(tasks)].do = "fetch"
        /\ tasks' = Tail(tasks) => Len(tasks') = Len(tasks) - 1
    BY LeaveFacts
  <2> QED BY <2>1
<1>2. ASSUME NEW i, Writer(tasks', i)
      PROVE  i \in 1..Len(tasks) - 1 /\ tasks'[i] = tasks[i + 1] /\ Writer(tasks, i + 1)
  <2>1. i \in 1..Len(tasks') /\ tasks'[i].do # "fetch"
    BY <1>2 DEF Writer, Writes
  <2>2. i \in 1..Len(tasks) - 1
    BY <1>1, <2>1
  <2>3. tasks'[i] = tasks[i + 1] /\ i + 1 \in 1..Len(tasks)
    BY <1>1, <2>2
  <2> QED BY <1>2, <2>2, <2>3 DEF Writer
<1>3. \A k \in 2..Len(tasks) : k - 1 \in 1..Len(tasks') /\ tasks'[k - 1] = tasks[k]
  <2> TAKE k \in 2..Len(tasks)
  <2>1. k - 1 \in 1..Len(tasks) - 1 /\ k - 1 \in 1..Len(tasks') /\ (k - 1) + 1 = k
    BY <1>1
  <2> QED BY <1>1, <2>1
<1>4. ASSUME NEW i, NEW j, Writer(tasks', i), Writer(tasks', j)
      PROVE  Before(tasks', i, j) <=> Before(tasks, i + 1, j + 1)
  <2>1. /\ i \in 1..Len(tasks) - 1 /\ tasks'[i] = tasks[i + 1]
        /\ j \in 1..Len(tasks) - 1 /\ tasks'[j] = tasks[j + 1]
    BY <1>2, <1>4
  <2> QED BY <1>1, <2>1 DEF Before
<1> QED BY <1>1, <1>2, <1>3, <1>4

LEMMA BeginOrder ==
    ASSUME Types, NEW t \in AbleTask, Begins(t)
    PROVE  /\ Len(tasks) \in Nat /\ Len(tasks') = Len(tasks) + 1
           /\ \A i \in 1..Len(tasks) : tasks'[i] = tasks[i] /\ tasks[i] \in AbleTask
           /\ tasks'[Len(tasks) + 1] = t
           /\ \A i, j \in 1..Len(tasks) : Before(tasks', i, j) <=> Before(tasks, i, j)
<1>1. /\ Len(tasks) \in Nat /\ Len(tasks') = Len(tasks) + 1
      /\ \A i \in 1..Len(tasks) : tasks'[i] = tasks[i] /\ tasks[i] \in AbleTask
      /\ tasks'[Len(tasks) + 1] = t
  BY LongFacts DEF Begins, Types
<1> QED BY <1>1 DEF Before

-----------------------------------------------------------------------------
(* What is kept. *)

\* What was promised to be kept is in every list there is, or that will be written; and what an
\* operation is about to show is kept, unless another has been told to write a list without it.
Retained ==
    /\ \A i \in 1..Len(tasks) : Writes(tasks[i]) => kept \subseteq Listed(tasks[i].list)
    /\ kept \subseteq Listed(keychain.list)
    /\ store.loaded => kept \subseteq Listed(store.list)
    /\ \A i \in 1..Len(tasks) : tasks[i].do = "saveActive" /\ tasks[i].active # None =>
          \/ tasks[i].active \in Listed(keychain.list)
          \/ \E j \in i + 1..Len(tasks) : /\ tasks[j].do = "saveActive"
                                          /\ tasks[i].active \notin Listed(tasks[j].list)

LEMMA BeginRetained ==
    ASSUME Types, Retained, NEW t \in AbleTask, Begins(t)
    PROVE  Retained'
<1>1. /\ Len(tasks) \in Nat /\ Len(tasks') = Len(tasks) + 1
      /\ \A i \in 1..Len(tasks) : tasks'[i] = tasks[i]
      /\ tasks'[Len(tasks) + 1] = t
  BY BeginOrder
<1>2. /\ keychain' = keychain /\ Listed(store'.list) = Listed(store.list)
      /\ kept' \subseteq kept /\ kept' \subseteq Listed(t.list) /\ kept \subseteq Listed(store.list)
      /\ t.do # "saveActive" /\ store.loaded
  BY DEF Begins, Retained
<1>3. ASSUME NEW i \in 1..Len(tasks'), Writes(tasks'[i])
      PROVE  kept' \subseteq Listed(tasks'[i].list)
  BY <1>1, <1>2, <1>3 DEF Retained
<1>4. ASSUME NEW i \in 1..Len(tasks'), tasks'[i].do = "saveActive", tasks'[i].active # None,
             tasks'[i].active \notin Listed(keychain'.list)
      PROVE  \E j \in i + 1..Len(tasks') : /\ tasks'[j].do = "saveActive"
                                           /\ tasks'[i].active \notin Listed(tasks'[j].list)
  <2>1. i \in 1..Len(tasks) /\ tasks'[i] = tasks[i]
    BY <1>1, <1>2, <1>4
  <2>2. PICK j \in i + 1..Len(tasks) : /\ tasks[j].do = "saveActive"
                                       /\ tasks[i].active \notin Listed(tasks[j].list)
    BY <1>2, <1>4, <2>1 DEF Retained
  <2>3. j \in i + 1..Len(tasks') /\ tasks'[j] = tasks[j]
    BY <1>1, <2>1, <2>2
  <2> QED BY <2>1, <2>2, <2>3
<1> QED BY <1>2, <1>3, <1>4 DEF Retained

LEMMA TurnRetained ==
    ASSUME Types, Retained, NEW t \in AbleTask, NEW u \in AbleTask, Turns(t, u)
    PROVE  Retained'
<1>1. /\ Len(tasks) \in Nat \ {0} /\ Len(tasks') = Len(tasks)
      /\ t = tasks[1] /\ tasks'[Len(tasks)] = u /\ 1 \in 1..Len(tasks)
      /\ \A i \in 1..Len(tasks) - 1 : tasks'[i] = tasks[i + 1]
  BY TurnOrder
<1>2. /\ kept' = kept /\ store' = store
      /\ u.list = t.list /\ u.active = t.active /\ Writes(t)
      /\ keychain'.list = IF t.do = "saveList" THEN t.list ELSE keychain.list
      /\ u.do = IF t.do = "dropRoutes" THEN "saveList" ELSE "saveActive"
      /\ t.do \in {"dropRoutes", "saveList"}
  BY DEF Turns, history, Writes
<1>3. ASSUME NEW i \in 1..Len(tasks'), Writes(tasks'[i])
      PROVE  kept' \subseteq Listed(tasks'[i].list)
  <2>1. PICK k : k = From(tasks, i)
    OBVIOUS
  <2>2. k \in 1..Len(tasks) /\ Writes(tasks[k]) /\ tasks'[i].list = tasks[k].list
    BY <1>1, <1>3, <2>1, TurnOrder
  <2> QED BY <1>2, <2>2 DEF Retained
<1>4. kept' \subseteq Listed(keychain'.list)
  BY <1>1, <1>2 DEF Retained
<1>5. ASSUME NEW i \in 1..Len(tasks'), tasks'[i].do = "saveActive", tasks'[i].active # None,
             tasks'[i].active \notin Listed(keychain'.list)
      PROVE  \E j \in i + 1..Len(tasks') : /\ tasks'[j].do = "saveActive"
                                           /\ tasks'[i].active \notin Listed(tasks'[j].list)
  <2>1. u.do = "saveActive" /\ u.active # None => u.active \in Listed(u.list)
    BY TaskFacts, FitsFacts DEF Reads
  <2>2. i # Len(tasks)
    BY <1>1, <1>2, <1>5, <2>1
  <2>3. i \in 1..Len(tasks) - 1 /\ i + 1 \in 1..Len(tasks) /\ tasks'[i] = tasks[i + 1]
    BY <1>1, <2>2
  <2>4. CASE t.do = "saveList"
    <3>1. Len(tasks) \in i + 1..Len(tasks')
      BY <1>1, <2>3
    <3> QED BY <1>1, <1>2, <1>5, <2>4, <3>1
  <2>5. CASE t.do = "dropRoutes"
    <3>1. PICK k \in i + 1 + 1..Len(tasks) : /\ tasks[k].do = "saveActive"
                                             /\ tasks[i + 1].active \notin Listed(tasks[k].list)
      BY <1>2, <1>5, <2>3, <2>5 DEF Retained
    <3>2. /\ k - 1 \in i + 1..Len(tasks') /\ k - 1 \in 1..Len(tasks) - 1 /\ (k - 1) + 1 = k
      BY <1>1, <2>3, <3>1
    <3>3. tasks'[k - 1] = tasks[k]
      BY <1>1, <3>2
    <3> QED BY <2>3, <3>1, <3>2, <3>3
  <2> QED BY <1>2, <2>4, <2>5
<1> QED BY <1>2, <1>3, <1>4, <1>5 DEF Retained

\* What the first request leaves when nothing more is kept than what was, or shown.
LEMMA LeaveRetained ==
    ASSUME Types, Booted, tasks # <<>>, store.loaded, NEW t, Leaves(t), Retained,
           keychain'.list = keychain.list,
           kept' \subseteq Listed(keychain.list), kept' \subseteq Listed(store'.list),
           \A i \in 1..Len(tasks) : Writes(tasks[i]) => kept' \subseteq Listed(tasks[i].list)
    PROVE  Retained'
<1>1. /\ Len(tasks) \in Nat \ {0}
      /\ \A i : Writer(tasks', i) => /\ i \in 1..Len(tasks) - 1 /\ tasks'[i] = tasks[i + 1]
                                     /\ Writer(tasks, i + 1)
      /\ \A k \in 2..Len(tasks) : k - 1 \in 1..Len(tasks') /\ tasks'[k - 1] = tasks[k]
  BY LeaveOrder
<1>2. ASSUME NEW i \in 1..Len(tasks'), Writes(tasks'[i])
      PROVE  kept' \subseteq Listed(tasks'[i].list)
  BY <1>1, <1>2 DEF Writer
<1>3. ASSUME NEW i \in 1..Len(tasks'), tasks'[i].do = "saveActive", tasks'[i].active # None,
             tasks'[i].active \notin Listed(keychain'.list)
      PROVE  \E j \in i + 1..Len(tasks') : /\ tasks'[j].do = "saveActive"
                                           /\ tasks'[i].active \notin Listed(tasks'[j].list)
  <2>1. Writer(tasks', i)
    BY <1>3 DEF Writer, Writes
  <2>2. i \in 1..Len(tasks) - 1 /\ tasks'[i] = tasks[i + 1] /\ i + 1 \in 1..Len(tasks)
    BY <1>1, <2>1
  <2>3. PICK k \in i + 1 + 1..Len(tasks) : /\ tasks[k].do = "saveActive"
                                           /\ tasks[i + 1].active \notin Listed(tasks[k].list)
    BY <1>3, <2>2 DEF Retained
  <2>4. k \in 2..Len(tasks) /\ k - 1 >= i + 1
    BY <1>1, <2>2, <2>3
  <2>5. k - 1 \in 1..Len(tasks') /\ tasks'[k - 1] = tasks[k]
    BY <1>1, <2>4
  <2>6. Len(tasks') \in Nat
    BY <1>1, LeaveOrder
  <2>7. k - 1 \in i + 1..Len(tasks')
    BY <2>2, <2>4, <2>5, <2>6
  <2> QED BY <2>2, <2>3, <2>5, <2>7
<1> QED BY <1>2, <1>3 DEF Retained

LEMMA EndRetained ==
    ASSUME Types, Booted, Retained, NEW t \in AbleTask, Ends(t)
    PROVE  Retained'
<1>1. /\ tasks # <<>> /\ t = Head(tasks) /\ Leaves(t) /\ t.do = "saveActive"
      /\ keychain'.list = keychain.list /\ kept' = Promised(t)
      /\ IF Dials(t) THEN store'.list = t.list ELSE store' = store
  BY DEF Ends, Leaves
<1>2. /\ t = tasks[1] /\ 1 \in 1..Len(tasks) /\ store.loaded
      /\ Fits(t.list, t.active) /\ t.list \in Seq(Computer)
  BY <1>1, HeadFacts, TaskFacts DEF Reads
<1>3. kept \subseteq Listed(t.list)
  BY <1>1, <1>2 DEF Retained, Writes
<1>4. CASE kept' = kept
  <2>1. kept' \subseteq Listed(store'.list)
    BY <1>1, <1>2, <1>3, <1>4 DEF Retained
  <2> QED BY <1>1, <1>2, <1>4, <2>1, LeaveRetained DEF Retained
<1>5. CASE kept' # kept
  <2>1. DOMAIN tasks = 1..Len(tasks)
    BY LenProperties DEF Types
  <2>2. /\ t.then = "connectTo" /\ t.active # None /\ kept' = kept \cup {t.active}
        /\ \A i \in 1..Len(tasks) : Writes(tasks[i]) => t.active \in Listed(tasks[i].list)
    BY <1>1, <1>5, <2>1 DEF Promised
  <2>3. t.active \in Listed(keychain.list)
    <3>1. ASSUME NEW j \in 1 + 1..Len(tasks), tasks[j].do = "saveActive",
                 t.active \notin Listed(tasks[j].list)
          PROVE  FALSE
      <4>1. j \in 1..Len(tasks) /\ Writes(tasks[j])
        BY <1>2, <3>1 DEF Writes
      <4> QED BY <2>2, <3>1, <4>1
    <3> QED BY <1>1, <1>2, <2>2, <3>1 DEF Retained
  <2>4. t.active \in Listed(t.list) /\ Dials(t)
    BY <1>2, <2>2, FitsFacts DEF Dials
  <2>5. kept' \subseteq Listed(store'.list) /\ kept' \subseteq Listed(keychain.list)
    BY <1>1, <1>3, <2>2, <2>3, <2>4 DEF Retained
  <2>6. \A i \in 1..Len(tasks) : Writes(tasks[i]) => kept' \subseteq Listed(tasks[i].list)
    BY <2>2 DEF Retained
  <2> QED BY <1>1, <1>2, <2>5, <2>6, LeaveRetained
<1> QED BY <1>4, <1>5

LEMMA OtherRetained ==
    ASSUME Types, Booted, Retained, Fallible \cap Reads = {},
           \/ \E t \in AbleTask : Fetches(t) \/ Breaks(t)
           \/ Loads \/ ReadsOn \/ Streamed \/ Restart
    PROVE  Retained'
<1>1. ASSUME NEW t \in AbleTask, Fetches(t) \/ Breaks(t) PROVE Retained'
  <2>1. /\ tasks # <<>> /\ t = Head(tasks) /\ UNCHANGED <<keychain, store, kept>>
        /\ tasks' = Tail(tasks)
    BY <1>1 DEF Fetches, Fetch, Breaks, Answered, history
  <2>2. Leaves(t) /\ t.do \notin Reads
    BY <1>1, <2>1 DEF Leaves, Fetches, Breaks, Reads, Writes
  <2>3. store.loaded
    BY <2>1, <2>2, HeadFacts
  <2> QED BY <2>1, <2>2, <2>3, LeaveRetained DEF Retained
<1>2. CASE Loads
  <2>1. \A i \in 1..Len(tasks') : tasks'[i].do = "fetch"
    BY <1>2 DEF Loads
  <2>2. keychain' = keychain /\ kept' = kept /\ store'.list = keychain.list
    BY <1>2 DEF Loads
  <2> QED BY <2>1, <2>2 DEF Retained, Writes
<1>3. CASE ReadsOn
  <2>1. \A i \in 1..Len(tasks') : tasks'[i].do \in Reads
    BY <1>3 DEF ReadsOn
  <2>2. UNCHANGED <<keychain, store, kept>>
    BY <1>3 DEF ReadsOn, history
  <2> QED BY <2>1, <2>2 DEF Retained, Writes, Reads
<1>4. CASE Streamed
  BY <1>4 DEF Streamed, history, Retained
<1>5. CASE Restart
  <2>1. /\ Len(tasks') = 1 /\ tasks'[1].do = "readList" /\ ~store'.loaded
        /\ keychain' = keychain /\ kept' = kept \cup Listed(keychain.list)
    BY <1>5, UnreadFacts DEF Restart
  <2>2. \A i \in 1..Len(tasks') : tasks'[i].do = "readList"
    BY <2>1
  <2> QED BY <2>1, <2>2 DEF Retained, Writes
<1> QED BY <1>1, <1>2, <1>3, <1>4, <1>5

\* No computer is lost from the keychain until the person asks for it to be forgotten, whichever
\* operations cross, whichever writes fail and wherever the app is killed (saveComputers,
\* withComputer), if what the keychain holds can be read.
THEOREM NoneLost ==
    ASSUME Fallible \cap {"readList", "readActive"} = {}
    PROVE  Spec => []NothingLost
<1>1. Init => Retained
  <2> SUFFICES ASSUME Init PROVE Retained
    OBVIOUS
  <2>1. kept = {} /\ ~store.loaded
    BY InitFacts
  <2>2. \A i \in 1..Len(tasks) : tasks[i].do \in Reads
    <3>1. Len(tasks) = 1 /\ tasks[1].do \in Reads
      BY InitFacts DEF Reads
    <3> QED BY <3>1
  <2> QED BY <2>1, <2>2 DEF Retained, Reads, Writes
<1>2. Formed /\ Retained /\ [Next]_vars => Retained'
  <2> SUFFICES ASSUME Types, Booted, Retained, [Next]_vars PROVE Retained'
    BY DEF Formed
  <2>1. CASE UNCHANGED vars
    BY <2>1, StutterFacts DEF Retained
  <2>2. CASE Next
    BY <2>2, StepFacts, BeginRetained, TurnRetained, EndRetained, OtherRetained DEF Reads
  <2> QED BY <2>1, <2>2
<1>3. Retained => NothingLost
  BY DEF Retained, NothingLost
<1> QED BY <1>1, <1>2, <1>3, FormedAlways, PTL DEF Spec

-----------------------------------------------------------------------------
(* What is forgotten. *)

Drops(q, f, a) == Dialer(q, f) /\ a \notin Listed(q[f].list)

\* Wherever a computer asked to be forgotten is still listed, an operation without it is under
\* way that writes, and shows, its list later.
Dropped(a) ==
    /\ \A j \in 1..Len(tasks) : Writes(tasks[j]) /\ a \in Listed(tasks[j].list) =>
          \E f \in 1..Len(tasks) : Drops(tasks, f, a) /\ Before(tasks, j, f)
    /\ a \in Listed(keychain.list) =>
          \E f \in 1..Len(tasks) : Drops(tasks, f, a) /\ tasks[f].do # "saveActive"
    /\ a \in Listed(store.list) => \E f \in 1..Len(tasks) : Drops(tasks, f, a)

Forgotten == ~failed => \A a \in gone : Dropped(a)

LEMMA BeginForgotten ==
    ASSUME Types, Forgotten, NEW t \in AbleTask, Begins(t)
    PROVE  Forgotten'
<1> SUFFICES ASSUME ~failed', NEW a \in gone' PROVE Dropped(a)'
  BY DEF Forgotten
<1>1. /\ Len(tasks) \in Nat /\ Len(tasks') = Len(tasks) + 1
      /\ \A i \in 1..Len(tasks) : tasks'[i] = tasks[i] /\ tasks[i] \in AbleTask
      /\ tasks'[Len(tasks) + 1] = t
      /\ \A i, j \in 1..Len(tasks) : Before(tasks', i, j) <=> Before(tasks, i, j)
  BY BeginOrder
<1>2. /\ keychain' = keychain /\ Listed(store'.list) = Listed(store.list) /\ failed' = failed
      /\ a \notin Listed(t.list) /\ (a \in gone \/ t.do = "dropRoutes")
  BY DEF Begins
<1>3. CASE a \in gone
  <2>1. Dropped(a)
    BY <1>2, <1>3 DEF Forgotten
  <2>2. ASSUME NEW f \in 1..Len(tasks), Drops(tasks, f, a)
        PROVE  f \in 1..Len(tasks') /\ Drops(tasks', f, a) /\ tasks'[f] = tasks[f]
    BY <1>1, <2>2 DEF Drops, Dialer, Writer
  <2>3. ASSUME NEW j \in 1..Len(tasks'), Writes(tasks'[j]), a \in Listed(tasks'[j].list)
        PROVE  \E f \in 1..Len(tasks') : Drops(tasks', f, a) /\ Before(tasks', j, f)
    <3>1. j \in 1..Len(tasks) /\ tasks'[j] = tasks[j]
      BY <1>1, <1>2, <2>3
    <3>2. PICK f \in 1..Len(tasks) : Drops(tasks, f, a) /\ Before(tasks, j, f)
      BY <2>1, <2>3, <3>1 DEF Dropped
    <3> QED BY <1>1, <2>2, <3>1, <3>2
  <2>4. a \in Listed(keychain'.list) =>
          \E f \in 1..Len(tasks') : Drops(tasks', f, a) /\ tasks'[f].do # "saveActive"
    BY <1>2, <2>1, <2>2 DEF Dropped
  <2>5. a \in Listed(store'.list) => \E f \in 1..Len(tasks') : Drops(tasks', f, a)
    BY <1>2, <2>1, <2>2 DEF Dropped
  <2> QED BY <2>3, <2>4, <2>5 DEF Dropped
<1>4. CASE t.do = "dropRoutes"
  <2>1. PICK f \in 1..Len(tasks') : f = Len(tasks) + 1
    BY <1>1
  <2>2. Drops(tasks', f, a) /\ tasks'[f] = t /\ t.do # "saveActive"
    BY <1>1, <1>2, <1>4, <2>1, TaskFacts DEF Drops, Dialer, Writer, Writes, Dials
  <2>3. ASSUME NEW j \in 1..Len(tasks'), Writes(tasks'[j]), a \in Listed(tasks'[j].list)
        PROVE  Before(tasks', j, f)
    <3>1. j \in 1..Len(tasks) /\ tasks'[j] = tasks[j] /\ tasks[j] \in AbleTask /\ j < f
      BY <1>1, <1>2, <2>1, <2>3
    <3>2. Stage(tasks'[j]) \in 0..2 /\ Stage(tasks'[f]) = 0
      BY <1>4, <2>2, <3>1, StageFacts DEF Stage
    <3> QED BY <3>1, <3>2 DEF Before
  <2> QED BY <2>2, <2>3 DEF Dropped
<1> QED BY <1>2, <1>3, <1>4

LEMMA TurnForgotten ==
    ASSUME Types, Forgotten, NEW t \in AbleTask, NEW u \in AbleTask, Turns(t, u)
    PROVE  Forgotten'
<1> SUFFICES ASSUME ~failed', NEW a \in gone' PROVE Dropped(a)'
  BY DEF Forgotten
<1>1. /\ Len(tasks) \in Nat \ {0} /\ Len(tasks') = Len(tasks)
      /\ t = tasks[1] /\ tasks'[Len(tasks)] = u /\ 1 \in 1..Len(tasks)
      /\ \A i \in 1..Len(tasks) - 1 : tasks'[i] = tasks[i + 1]
  BY TurnOrder
<1>2. /\ store' = store /\ failed' = failed /\ gone' = gone /\ Writes(t)
      /\ keychain'.list = IF t.do = "saveList" THEN t.list ELSE keychain.list
      /\ t.do \in {"dropRoutes", "saveList"}
      /\ u.do = IF t.do = "dropRoutes" THEN "saveList" ELSE "saveActive"
  BY DEF Turns, history, Writes
<1>3. Dropped(a)
  BY <1>2 DEF Forgotten
\* Where the one that drops it has gone.
<1>4. ASSUME NEW f \in 1..Len(tasks), Drops(tasks, f, a), NEW g, g = Into(tasks, f)
      PROVE  /\ g \in 1..Len(tasks) /\ From(tasks, g) = f /\ Drops(tasks', g, a)
             /\ f # 1 => tasks'[g] = tasks[f]
  <2>1. g \in 1..Len(tasks) /\ From(tasks, g) = f
    BY <1>4, TurnOrder
  <2>2. /\ tasks'[g].list = tasks[f].list
        /\ Writes(tasks'[g]) <=> Writes(tasks[f])
        /\ Dials(tasks'[g]) <=> Dials(tasks[f])
    BY <2>1, TurnOrder
  <2>3. f # 1 => tasks'[g] = tasks[f]
    <3>1. f # 1 => g = f - 1 /\ f - 1 \in 1..Len(tasks) - 1 /\ (f - 1) + 1 = f
      BY <1>1, <1>4 DEF Into
    <3> QED BY <1>1, <3>1
  <2> QED BY <1>1, <1>4, <2>1, <2>2, <2>3 DEF Drops, Dialer, Writer
<1>5. ASSUME NEW j \in 1..Len(tasks'), Writes(tasks'[j]), a \in Listed(tasks'[j].list)
      PROVE  \E f \in 1..Len(tasks') : Drops(tasks', f, a) /\ Before(tasks', j, f)
  <2>1. PICK k : k = From(tasks, j)
    OBVIOUS
  <2>2. k \in 1..Len(tasks) /\ Writes(tasks[k]) /\ a \in Listed(tasks[k].list)
    BY <1>1, <1>5, <2>1, TurnOrder
  <2>3. PICK f \in 1..Len(tasks) : Drops(tasks, f, a) /\ Before(tasks, k, f)
    BY <1>3, <2>2 DEF Dropped
  <2>4. PICK g : g = Into(tasks, f)
    OBVIOUS
  <2>5. g \in 1..Len(tasks) /\ From(tasks, g) = f /\ Drops(tasks', g, a)
    BY <1>4, <2>3, <2>4
  <2>6. g # j /\ Writes(tasks'[g])
    BY <1>5, <2>5 DEF Drops, Dialer, Writer
  <2>7. Before(tasks', j, g) <=> Before(tasks, k, f)
    BY <1>1, <1>5, <2>1, <2>5, <2>6, TurnBefore
  <2> QED BY <1>1, <2>3, <2>5, <2>7
<1>6. ASSUME a \in Listed(keychain'.list)
      PROVE  \E f \in 1..Len(tasks') : Drops(tasks', f, a) /\ tasks'[f].do # "saveActive"
  <2>1. CASE t.do = "dropRoutes"
    <3>1. PICK f \in 1..Len(tasks) : Drops(tasks, f, a) /\ tasks[f].do # "saveActive"
      BY <1>2, <1>3, <1>6, <2>1 DEF Dropped
    <3>2. PICK g : g = Into(tasks, f)
      OBVIOUS
    <3>3. /\ g \in 1..Len(tasks) /\ Drops(tasks', g, a)
          /\ f # 1 => tasks'[g] = tasks[f]
      BY <1>4, <3>1, <3>2
    <3>4. f = 1 => tasks'[g] = u
      BY <1>1, <3>2 DEF Into
    <3> QED BY <1>1, <1>2, <2>1, <3>1, <3>3, <3>4
  <2>2. CASE t.do = "saveList"
    <3>1. PICK f \in 1..Len(tasks) : Drops(tasks, f, a) /\ Before(tasks, 1, f)
      BY <1>1, <1>2, <1>3, <1>6, <2>2 DEF Dropped
    <3>2. PICK g : g = Into(tasks, f)
      OBVIOUS
    <3>3. f # 1 /\ tasks[f].do # "saveActive"
      <4>1. Stage(tasks[1]) = 1
        BY <1>1, <2>2 DEF Stage
      <4>2. f # 1
        BY <3>1, <4>1 DEF Before
      <4>3. tasks[f].do = "saveActive" => Stage(tasks[f]) = 2
        BY DEF Stage
      <4> QED BY <3>1, <4>1, <4>2, <4>3 DEF Before
    <3>4. g \in 1..Len(tasks) /\ Drops(tasks', g, a) /\ tasks'[g] = tasks[f]
      BY <1>4, <3>1, <3>2, <3>3
    <3> QED BY <1>1, <3>3, <3>4
  <2> QED BY <1>2, <2>1, <2>2
<1>7. ASSUME a \in Listed(store'.list) PROVE \E f \in 1..Len(tasks') : Drops(tasks', f, a)
  <2>1. PICK f \in 1..Len(tasks) : Drops(tasks, f, a)
    BY <1>2, <1>3, <1>7 DEF Dropped
  <2> QED BY <1>1, <1>4, <2>1
<1> QED BY <1>5, <1>6, <1>7 DEF Dropped

\* What holds while the first request leaves without having written what the others are to.
LEMMA LeaveForgotten ==
    ASSUME Types, Booted, tasks # <<>>, store.loaded, NEW t, Leaves(t), NEW a, Dropped(a),
           keychain'.list = keychain.list,
           Drops(tasks, 1, a) => t.do = "saveActive" /\ store'.list = t.list,
           store'.list = store.list \/ (store'.list = t.list /\ Writes(t) /\ t.do = "saveActive")
    PROVE  Dropped(a)'
<1>1. /\ Len(tasks) \in Nat \ {0} /\ t = tasks[1] /\ 1 \in 1..Len(tasks)
      /\ \A i : Writer(tasks', i) => /\ i \in 1..Len(tasks) - 1 /\ tasks'[i] = tasks[i + 1]
                                     /\ Writer(tasks, i + 1)
      /\ \A k \in 2..Len(tasks) : k - 1 \in 1..Len(tasks') /\ tasks'[k - 1] = tasks[k]
      /\ \A i, j : Writer(tasks', i) /\ Writer(tasks', j) =>
            (Before(tasks', i, j) <=> Before(tasks, i + 1, j + 1))
  BY LeaveOrder
<1>2. ASSUME NEW f \in 1..Len(tasks), Drops(tasks, f, a), f # 1
      PROVE  /\ f - 1 \in 1..Len(tasks') /\ tasks'[f - 1] = tasks[f]
             /\ Drops(tasks', f - 1, a) /\ (f - 1) + 1 = f
  <2>1. f \in 2..Len(tasks) /\ (f - 1) + 1 = f
    BY <1>1, <1>2
  <2> QED BY <1>1, <1>2, <2>1 DEF Drops, Dialer, Writer
\* An operation still to write comes before the one that drops it, so that one is not over.
<1>3. ASSUME NEW f \in 1..Len(tasks), NEW k \in 1..Len(tasks), Writes(tasks[k]),
             Drops(tasks, f, a), Before(tasks, k, f)
      PROVE  f # 1
  <2>1. ASSUME f = 1 PROVE FALSE
    <3>1. Stage(tasks[1]) = 2
      BY <1>1, <1>3, <2>1 DEF Stage
    <3>2. Stage(tasks[k]) \in 0..2
      BY StageFacts, ElementOfSeq DEF Types
    <3> QED BY <1>3, <2>1, <3>1, <3>2 DEF Before
  <2> QED BY <2>1
<1>4. ASSUME NEW j \in 1..Len(tasks'), Writes(tasks'[j]), a \in Listed(tasks'[j].list)
      PROVE  \E f \in 1..Len(tasks') : Drops(tasks', f, a) /\ Before(tasks', j, f)
  <2>1. Writer(tasks', j)
    BY <1>4 DEF Writer
  <2>2. /\ j \in 1..Len(tasks) - 1 /\ tasks'[j] = tasks[j + 1] /\ Writer(tasks, j + 1)
        /\ j + 1 \in 1..Len(tasks)
    BY <1>1, <2>1
  <2>3. PICK f \in 1..Len(tasks) : Drops(tasks, f, a) /\ Before(tasks, j + 1, f)
    BY <1>4, <2>2 DEF Dropped
  <2>4. f # 1
    BY <1>3, <1>4, <2>2, <2>3
  <2>5. f - 1 \in 1..Len(tasks') /\ Drops(tasks', f - 1, a) /\ (f - 1) + 1 = f
    BY <1>2, <2>3, <2>4
  <2>6. Writer(tasks', f - 1)
    BY <2>5 DEF Drops, Dialer
  <2>7. Before(tasks', j, f - 1)
    BY <1>1, <2>1, <2>3, <2>5, <2>6
  <2> QED BY <2>5, <2>7
<1>5. ASSUME a \in Listed(keychain'.list)
      PROVE  \E f \in 1..Len(tasks') : Drops(tasks', f, a) /\ tasks'[f].do # "saveActive"
  <2>1. PICK f \in 1..Len(tasks) : Drops(tasks, f, a) /\ tasks[f].do # "saveActive"
    BY <1>5 DEF Dropped
  <2>2. f # 1
    BY <1>1, <2>1
  <2> QED BY <1>2, <2>1, <2>2
<1>6. ASSUME a \in Listed(store'.list) PROVE \E f \in 1..Len(tasks') : Drops(tasks', f, a)
  <2>1. CASE store'.list = store.list
    <3>1. PICK f \in 1..Len(tasks) : Drops(tasks, f, a)
      BY <1>6, <2>1 DEF Dropped
    <3>2. f # 1
      BY <1>1, <1>6, <3>1 DEF Drops
    <3> QED BY <1>2, <3>1, <3>2
  <2>2. CASE store'.list = t.list /\ Writes(t)
    <3>1. PICK f \in 1..Len(tasks) : Drops(tasks, f, a) /\ Before(tasks, 1, f)
      BY <1>1, <1>6, <2>2 DEF Dropped
    <3>2. f # 1
      BY <1>1, <1>3, <2>2, <3>1
    <3> QED BY <1>2, <3>1, <3>2
  <2> QED BY <2>1, <2>2
<1> QED BY <1>4, <1>5, <1>6 DEF Dropped

LEMMA OtherForgotten ==
    ASSUME Types, Booted, Forgotten,
           \/ \E t \in AbleTask : Ends(t) \/ Fetches(t) \/ Breaks(t)
           \/ Loads \/ ReadsOn \/ Streamed \/ Restart
    PROVE  Forgotten'
<1> SUFFICES ASSUME ~failed', NEW a \in gone' PROVE Dropped(a)'
  BY DEF Forgotten
<1>1. CASE \E t \in AbleTask : Breaks(t)
  BY <1>1 DEF Breaks
<1>2. ASSUME NEW t \in AbleTask, Ends(t) PROVE Dropped(a)'
  <2>1. /\ tasks # <<>> /\ t = Head(tasks) /\ Leaves(t) /\ t.do = "saveActive" /\ Writes(t)
        /\ keychain'.list = keychain.list /\ failed' = failed /\ gone' = gone
        /\ IF Dials(t) THEN store'.list = t.list ELSE store' = store
    BY <1>2 DEF Ends, Leaves, Writes
  <2>2. t = tasks[1] /\ store.loaded
    BY <2>1, HeadFacts DEF Reads
  <2>3. Drops(tasks, 1, a) => store'.list = t.list
    BY <2>1, <2>2 DEF Drops, Dialer
  <2>4. Dropped(a)
    BY <2>1 DEF Forgotten
  <2> QED BY <2>1, <2>2, <2>3, <2>4, LeaveForgotten
<1>3. ASSUME NEW t \in AbleTask, Fetches(t) PROVE Dropped(a)'
  <2>1. /\ tasks # <<>> /\ t = Head(tasks) /\ Leaves(t) /\ t.do = "fetch"
        /\ UNCHANGED <<keychain, store, failed, gone>>
    BY <1>3 DEF Fetches, Fetch, Leaves, Answered, history
  <2>2. t = tasks[1] /\ store.loaded
    BY <2>1, HeadFacts DEF Reads
  <2>3. ~Drops(tasks, 1, a)
    BY <2>1, <2>2 DEF Drops, Dialer, Writer, Writes
  <2>4. Dropped(a)
    BY <2>1 DEF Forgotten
  <2> QED BY <2>1, <2>2, <2>3, <2>4, LeaveForgotten
<1>4. CASE Loads \/ ReadsOn
  <2>1. /\ keychain' = keychain /\ failed' = failed /\ gone' = gone
        /\ store'.list = keychain.list \/ store' = store
    BY <1>4 DEF Loads, ReadsOn, history
  <2>2. Dropped(a)
    BY <2>1 DEF Forgotten
  <2>3. /\ Len(tasks) = 1 /\ tasks[1].do \in Reads /\ ~store.loaded
        /\ Listed(store.list) = {}
    <3>1. ~store.loaded
      BY <1>4 DEF Loads, ReadsOn
    <3>2. store.list = <<>> /\ store.list \in Seq(Computer)
      BY <3>1 DEF Booted, Unread, Types
    <3> QED BY <3>1, <3>2, ListFacts DEF Booted
  <2>4. \A f \in 1..Len(tasks) : ~Drops(tasks, f, a)
    BY <2>3 DEF Drops, Dialer, Writer, Writes, Reads
  <2>5. a \notin Listed(keychain'.list) /\ a \notin Listed(store'.list)
    BY <2>1, <2>2, <2>3, <2>4 DEF Dropped
  <2>6. \A j \in 1..Len(tasks') : ~Writes(tasks'[j])
    BY <1>4 DEF Loads, ReadsOn, Writes, Reads
  <2> QED BY <2>5, <2>6 DEF Dropped
<1>5. CASE Streamed
  <2>1. UNCHANGED <<keychain, store, tasks, failed, gone>>
    BY <1>5 DEF Streamed, history
  <2> QED BY <2>1 DEF Forgotten, Dropped
<1>6. CASE Restart
  <2>1. /\ Len(tasks') = 1 /\ tasks'[1].do = "readList" /\ store'.list = <<>>
        /\ keychain' = keychain /\ gone' = gone \ Listed(keychain.list)
    BY <1>6, UnreadFacts DEF Restart
  <2>2. a \notin Listed(keychain'.list)
    BY <2>1
  <2>3. Listed(store'.list) = {}
    <3>1. <<>> \in Seq(Computer)
      BY EmptySeq
    <3> QED BY <2>1, <3>1, ListFacts
  <2>4. \A j \in 1..Len(tasks') : ~Writes(tasks'[j])
    BY <2>1 DEF Writes
  <2> QED BY <2>2, <2>3, <2>4 DEF Dropped
<1> QED BY <1>1, <1>2, <1>3, <1>4, <1>5, <1>6

\* A computer the person asked to be forgotten is neither kept nor in use once nothing is under
\* way, whatever crossed, unless a write failed or another operation was started since with a list
\* that still had it (forgetCurrent).
THEOREM ForgottenForGood == Spec => []StaysForgotten
<1>1. Init => Forgotten
  BY InitFacts DEF Forgotten
<1>2. Formed /\ Forgotten /\ [Next]_vars => Forgotten'
  <2> SUFFICES ASSUME Types, Booted, Forgotten, [Next]_vars PROVE Forgotten'
    BY DEF Formed
  <2>1. CASE UNCHANGED vars
    BY <2>1, StutterFacts DEF Forgotten, Dropped
  <2>2. CASE Next
    BY <2>2, StepFacts, BeginForgotten, TurnForgotten, OtherForgotten
  <2> QED BY <2>1, <2>2
<1>3. Formed /\ Forgotten => StaysForgotten
  <2> SUFFICES ASSUME Types, Forgotten, tasks = <<>>, ~failed, NEW a \in gone
               PROVE  a \notin Listed(keychain.list) \cup {Current}
    BY DEF Formed, StaysForgotten
  <2>1. Len(tasks) = 0
    OBVIOUS
  <2>2. 1..Len(tasks) = {}
    BY <2>1
  <2>3. a \notin Listed(keychain.list) /\ a \notin Listed(store.list)
    BY <2>2 DEF Forgotten, Dropped
  <2>4. a \in Devices /\ a # None
    BY ComputersAssumption DEF Types
  <2> QED BY <2>3, <2>4, CurrentFacts
<1> QED BY <1>1, <1>2, <1>3, FormedAlways, PTL DEF Spec

-----------------------------------------------------------------------------
(* The link. *)

\* The request to dial the pairing in use is the last of its kind, or it is dialed and none is left.
Linked ==
    store.current # None =>
        \/ \E i \in 1..Len(tasks) :
              /\ Fetcher(tasks, i) /\ PairingOf(tasks[i].list, tasks[i].active) = store.current
              /\ \A j \in 1..Len(tasks) : Fetcher(tasks, j) => j <= i
        \/ link = store.current /\ \A j \in 1..Len(tasks) : ~Fetcher(tasks, j)

LEMMA BeginLinked ==
    ASSUME Types, Linked, NEW t \in AbleTask, Begins(t)
    PROVE  Linked'
<1>1. /\ Len(tasks) \in Nat /\ Len(tasks') = Len(tasks) + 1
      /\ \A i \in 1..Len(tasks) : tasks'[i] = tasks[i]
      /\ tasks'[Len(tasks) + 1] = t /\ t.do # "fetch"
      /\ link' = link /\ store'.current = store.current
  BY BeginOrder DEF Begins
<1>2. \A j \in 1..Len(tasks') : Fetcher(tasks', j) <=> j \in 1..Len(tasks) /\ Fetcher(tasks, j)
  BY <1>1 DEF Fetcher
<1>3. ASSUME NEW i \in 1..Len(tasks), Fetcher(tasks, i),
             PairingOf(tasks[i].list, tasks[i].active) = store.current,
             \A j \in 1..Len(tasks) : Fetcher(tasks, j) => j <= i
      PROVE  Linked'
  <2>1. i \in 1..Len(tasks') /\ tasks'[i] = tasks[i]
    BY <1>1
  <2> QED BY <1>1, <1>2, <1>3, <2>1 DEF Linked
<1>4. ASSUME link = store.current, \A j \in 1..Len(tasks) : ~Fetcher(tasks, j)
      PROVE  Linked'
  BY <1>1, <1>2, <1>4 DEF Linked
<1> QED BY <1>1, <1>3, <1>4 DEF Linked

\* The requests move up, and the first was none to dial with.
LEMMA MovedLinked ==
    ASSUME Types, Linked, Len(tasks) \in Nat \ {0}, ~Fetcher(tasks, 1),
           link' = link, store'.current = store.current,
           Len(tasks') \in {Len(tasks) - 1, Len(tasks)},
           \A i \in 1..Len(tasks) - 1 : tasks'[i] = tasks[i + 1],
           Len(tasks') = Len(tasks) => tasks'[Len(tasks)].do # "fetch"
    PROVE  Linked'
<1>1. ASSUME NEW j \in 1..Len(tasks'), Fetcher(tasks', j)
      PROVE  j \in 1..Len(tasks) - 1 /\ j + 1 \in 1..Len(tasks) /\ Fetcher(tasks, j + 1)
  <2>1. j \in 1..Len(tasks) - 1
    BY <1>1 DEF Fetcher
  <2> QED BY <1>1, <2>1 DEF Fetcher
<1>2. ASSUME NEW i \in 1..Len(tasks), Fetcher(tasks, i),
             PairingOf(tasks[i].list, tasks[i].active) = store.current,
             \A j \in 1..Len(tasks) : Fetcher(tasks, j) => j <= i
      PROVE  Linked'
  <2>1. i # 1
    BY <1>2
  <2>2. /\ i - 1 \in 1..Len(tasks') /\ i - 1 \in 1..Len(tasks) - 1 /\ (i - 1) + 1 = i
    BY <2>1
  <2>3. tasks'[i - 1] = tasks[i]
    BY <2>2
  <2>4. Fetcher(tasks', i - 1)
    BY <1>2, <2>2, <2>3 DEF Fetcher
  <2>5. \A j \in 1..Len(tasks') : Fetcher(tasks', j) => j <= i - 1
    BY <1>1, <1>2
  <2> QED BY <1>2, <2>2, <2>3, <2>4, <2>5 DEF Linked
<1>3. ASSUME link = store.current, \A j \in 1..Len(tasks) : ~Fetcher(tasks, j)
      PROVE  Linked'
  BY <1>1, <1>3 DEF Linked
<1>4. CASE store.current = None
  BY <1>4 DEF Linked
<1> QED BY <1>2, <1>3, <1>4 DEF Linked

LEMMA EndLinked ==
    ASSUME Types, Booted, Linked, NEW t \in AbleTask, Ends(t)
    PROVE  Linked'
<1>1. /\ tasks # <<>> /\ t = Head(tasks) /\ Leaves(t) /\ t.do = "saveActive"
      /\ tasks' = Tail(tasks) => ~Dials(t) \/ t.active = None
      /\ tasks' # Tail(tasks) => Dials(t) /\ t.active # None
  BY DEF Ends, Leaves
<1>2. store.loaded
  BY <1>1, HeadFacts DEF Reads
<1>3. /\ Len(tasks) \in Nat \ {0} /\ t = tasks[1]
      /\ \A i \in 1..Len(tasks) - 1 : tasks'[i] = tasks[i + 1]
      /\ tasks' = Tail(tasks) => Len(tasks') = Len(tasks) - 1
      /\ tasks' # Tail(tasks) =>
            /\ Len(tasks') = Len(tasks)
            /\ tasks'[Len(tasks)].do = "fetch"
            /\ tasks'[Len(tasks)].list = t.list /\ tasks'[Len(tasks)].active = t.active
  BY <1>1, <1>2, LeaveFacts
<1>4. CASE tasks' # Tail(tasks)
  <2>1. store'.current = PairingOf(t.list, t.active)
    BY <1>1, <1>4 DEF Ends
  <2>2. /\ Len(tasks) \in 1..Len(tasks') /\ Fetcher(tasks', Len(tasks))
        /\ PairingOf(tasks'[Len(tasks)].list, tasks'[Len(tasks)].active) = store'.current
        /\ \A j \in 1..Len(tasks') : j <= Len(tasks)
    BY <1>3, <1>4, <2>1 DEF Fetcher
  <2> QED BY <2>2 DEF Linked
<1>5. CASE tasks' = Tail(tasks) /\ Dials(t)
  BY <1>1, <1>5 DEF Ends, Linked
<1>6. CASE tasks' = Tail(tasks) /\ ~Dials(t)
  <2>1. store' = store /\ link' = link /\ ~Fetcher(tasks, 1)
    BY <1>1, <1>3, <1>6 DEF Ends, Dials, Fetcher
  <2>2. /\ Len(tasks') \in {Len(tasks) - 1, Len(tasks)}
        /\ Len(tasks') # Len(tasks)
    <3>1. Len(tasks') = Len(tasks) - 1
      BY <1>3, <1>6
    <3> QED BY <1>3, <3>1
  <2> QED BY <1>3, <2>1, <2>2, MovedLinked
<1> QED BY <1>4, <1>5, <1>6

LEMMA FetchLinked ==
    ASSUME Types, Booted, Linked, NEW t \in AbleTask, Fetches(t)
    PROVE  Linked'
<1>1. /\ tasks # <<>> /\ t = Head(tasks) /\ Leaves(t) /\ t.do = "fetch" /\ tasks' = Tail(tasks)
      /\ link' = PairingOf(t.list, t.active) /\ store' = store
  BY DEF Fetches, Fetch, Leaves, Answered
<1>2. store.loaded
  BY <1>1, HeadFacts DEF Reads
<1>3. /\ Len(tasks) \in Nat \ {0} /\ t = tasks[1] /\ 1 \in 1..Len(tasks)
      /\ \A i \in 1..Len(tasks) - 1 : tasks'[i] = tasks[i + 1]
      /\ Len(tasks') = Len(tasks) - 1
  BY <1>1, <1>2, LeaveFacts
<1>4. Fetcher(tasks, 1)
  BY <1>1, <1>3 DEF Fetcher
<1>5. ASSUME NEW j \in 1..Len(tasks'), Fetcher(tasks', j)
      PROVE  j + 1 \in 1..Len(tasks) /\ Fetcher(tasks, j + 1)
  BY <1>3, <1>5 DEF Fetcher
<1>6. CASE store.current = None
  BY <1>1, <1>6 DEF Linked
<1>7. CASE store.current # None
  <2>1. PICK i \in 1..Len(tasks) :
              /\ Fetcher(tasks, i) /\ PairingOf(tasks[i].list, tasks[i].active) = store.current
              /\ \A j \in 1..Len(tasks) : Fetcher(tasks, j) => j <= i
    BY <1>3, <1>4, <1>7 DEF Linked
  <2>2. CASE i = 1
    <3>1. link' = store'.current
      BY <1>1, <1>3, <2>1, <2>2
    <3>2. \A j \in 1..Len(tasks') : ~Fetcher(tasks', j)
      BY <1>3, <1>5, <2>1, <2>2
    <3> QED BY <3>1, <3>2 DEF Linked
  <2>3. CASE i # 1
    <3>1. i - 1 \in 1..Len(tasks') /\ i - 1 \in 1..Len(tasks) - 1 /\ (i - 1) + 1 = i
      BY <1>3, <2>3
    <3>2. tasks'[i - 1] = tasks[i]
      BY <1>3, <3>1
    <3>3. Fetcher(tasks', i - 1)
      BY <2>1, <3>1, <3>2 DEF Fetcher
    <3>4. \A j \in 1..Len(tasks') : Fetcher(tasks', j) => j <= i - 1
      BY <1>3, <1>5, <2>1
    <3> QED BY <1>1, <2>1, <3>1, <3>2, <3>3, <3>4 DEF Linked
  <2> QED BY <2>2, <2>3
<1> QED BY <1>6, <1>7

LEMMA OtherLinked ==
    ASSUME Types, Booted, Linked,
           \/ \E t \in AbleTask : Breaks(t) \/ \E u \in AbleTask : Turns(t, u)
           \/ Loads \/ ReadsOn \/ Streamed \/ Restart
    PROVE  Linked'
<1>1. ASSUME NEW t \in AbleTask, Breaks(t) PROVE Linked'
  <2>1. /\ tasks # <<>> /\ t = Head(tasks) /\ Leaves(t) /\ Writes(t) /\ tasks' = Tail(tasks)
        /\ UNCHANGED <<store, link>>
    BY <1>1 DEF Breaks, Leaves, Answered
  <2>2. t.do \notin Reads /\ t.do # "fetch"
    BY <2>1 DEF Writes, Reads
  <2>3. store.loaded
    BY <2>1, <2>2, HeadFacts
  <2>4. /\ Len(tasks) \in Nat \ {0} /\ t = tasks[1]
        /\ \A i \in 1..Len(tasks) - 1 : tasks'[i] = tasks[i + 1]
        /\ Len(tasks') = Len(tasks) - 1
    BY <2>1, <2>3, LeaveFacts
  <2>5. /\ ~Fetcher(tasks, 1) /\ Len(tasks') \in {Len(tasks) - 1, Len(tasks)}
        /\ Len(tasks') = Len(tasks) => tasks'[Len(tasks)].do # "fetch"
    BY <2>2, <2>4 DEF Fetcher
  <2> QED BY <2>1, <2>4, <2>5, MovedLinked
<1>2. ASSUME NEW t \in AbleTask, NEW u \in AbleTask, Turns(t, u) PROVE Linked'
  <2>1. /\ Len(tasks) \in Nat \ {0} /\ Len(tasks') = Len(tasks)
        /\ t = tasks[1] /\ tasks'[Len(tasks)] = u
        /\ \A i \in 1..Len(tasks) - 1 : tasks'[i] = tasks[i + 1]
    BY <1>2, TurnOrder
  <2>2. t.do # "fetch" /\ u.do # "fetch" /\ UNCHANGED <<store, link>>
    BY <1>2 DEF Turns
  <2>3. /\ ~Fetcher(tasks, 1) /\ Len(tasks') \in {Len(tasks) - 1, Len(tasks)}
        /\ Len(tasks') = Len(tasks) => tasks'[Len(tasks)].do # "fetch"
    BY <2>1, <2>2 DEF Fetcher
  <2> QED BY <2>1, <2>2, <2>3, MovedLinked
<1>3. CASE Loads
  <2>1. store'.current # None =>
          /\ Len(tasks') = 1 /\ tasks'[1].do = "fetch"
          /\ PairingOf(tasks'[1].list, tasks'[1].active) = store'.current
    BY <1>3 DEF Loads
  <2>2. ASSUME Len(tasks') = 1, tasks'[1].do = "fetch"
        PROVE  /\ 1 \in 1..Len(tasks') /\ Fetcher(tasks', 1)
               /\ \A j \in 1..Len(tasks') : j <= 1
    <3>1. 1 \in 1..Len(tasks') /\ \A j \in 1..Len(tasks') : j <= 1
      BY <2>2
    <3> QED BY <2>2, <3>1 DEF Fetcher
  <2> QED BY <2>1, <2>2 DEF Linked
<1>4. CASE ReadsOn
  <2>1. store'.current = None
    BY <1>4 DEF ReadsOn, Booted, Unread
  <2> QED BY <2>1 DEF Linked
<1>5. CASE Streamed
  BY <1>5 DEF Streamed, Linked
<1>6. CASE Restart
  <2>1. store'.current = None
    BY <1>6 DEF Restart, Unread
  <2> QED BY <2>1 DEF Linked
<1> QED BY <1>1, <1>2, <1>3, <1>4, <1>5, <1>6

\* All that dial are for one computer.
OneDialed ==
    \A i, j \in 1..Len(tasks) :
        Dialer(tasks, i) /\ Dialer(tasks, j) => tasks[i].active = tasks[j].active

\* What is to be dialed at once is the one in use, and for another one it would be too late.
DialedFirst ==
    /\ \A i \in 1..Len(tasks) : Fetcher(tasks, i) => tasks[i].active = Current
    /\ \A i, j \in 1..Len(tasks) :
          Fetcher(tasks, i) /\ Dialer(tasks, j) /\ tasks[i].active # tasks[j].active => i < j

SameKept ==
    \A i \in 1..Len(tasks) :
        Writer(tasks, i) /\ tasks[i].then = "setPairing" => tasks[i].active = Current

OneShown == (link # None => link.device = Current) /\ shown \subseteq {Current}

\* Unless operations that dial different computers have crossed.
Alone == "dials" \notin crossed => OneShown /\ OneDialed /\ DialedFirst /\ SameKept

LEMMA BeginAlone ==
    ASSUME Types, Alone, NEW t \in AbleTask, Begins(t)
    PROVE  Alone'
<1> SUFFICES ASSUME "dials" \notin crossed'
             PROVE  (OneShown /\ OneDialed /\ DialedFirst /\ SameKept)'
  BY DEF Alone
<1>1. /\ Len(tasks) \in Nat /\ Len(tasks') = Len(tasks) + 1
      /\ \A i \in 1..Len(tasks) : tasks'[i] = tasks[i]
      /\ tasks'[Len(tasks) + 1] = t
  BY BeginOrder
<1>2. /\ t.do # "fetch" /\ link' = link /\ store'.current = store.current
      /\ t.then = "setPairing" => t.active = Current
      /\ shown' = IF Dials(t) THEN shown ELSE shown \cup {link.device}
      /\ ~Dials(t) => link # None
      /\ "dials" \notin crossed
      /\ \A i \in 1..Len(tasks) : Writes(tasks[i]) => "dials" \notin Crosses(tasks[i], t)
  BY DEF Begins
<1>3. Current' = Current
  BY <1>2 DEF Current
<1>4. OneShown /\ OneDialed /\ DialedFirst /\ SameKept
  BY <1>2 DEF Alone
<1>5. OneShown'
  BY <1>2, <1>3, <1>4 DEF OneShown
<1>6. ASSUME NEW i \in 1..Len(tasks), Dialer(tasks, i), Dials(t)
      PROVE  tasks[i].active = t.active
  BY <1>2, <1>6 DEF Crosses, Dialer, Writer
<1>7. OneDialed'
  <2> SUFFICES ASSUME NEW i \in 1..Len(tasks'), NEW j \in 1..Len(tasks'),
                      Dialer(tasks', i), Dialer(tasks', j)
               PROVE  tasks'[i].active = tasks'[j].active
    BY DEF OneDialed
  <2>1. ASSUME NEW k \in 1..Len(tasks), Dialer(tasks', k) PROVE Dialer(tasks, k)
    BY <1>1, <2>1 DEF Dialer, Writer
  <2>2. CASE i \in 1..Len(tasks) /\ j \in 1..Len(tasks)
    BY <1>1, <1>4, <2>1, <2>2 DEF OneDialed
  <2>3. CASE i \in 1..Len(tasks) /\ j \notin 1..Len(tasks)
    BY <1>1, <1>6, <2>1, <2>3 DEF Dialer
  <2>4. CASE i \notin 1..Len(tasks) /\ j \in 1..Len(tasks)
    BY <1>1, <1>6, <2>1, <2>4 DEF Dialer
  <2>5. CASE i \notin 1..Len(tasks) /\ j \notin 1..Len(tasks)
    BY <1>1, <2>5
  <2> QED BY <2>2, <2>3, <2>4, <2>5
<1>8. DialedFirst'
  <2>1. ASSUME NEW i \in 1..Len(tasks'), Fetcher(tasks', i)
        PROVE  i \in 1..Len(tasks) /\ tasks'[i] = tasks[i] /\ Fetcher(tasks, i)
    BY <1>1, <1>2, <2>1 DEF Fetcher
  <2>2. ASSUME NEW i \in 1..Len(tasks'), NEW j \in 1..Len(tasks'), Fetcher(tasks', i),
               Dialer(tasks', j), tasks'[i].active # tasks'[j].active
        PROVE  i < j
    <3>1. i \in 1..Len(tasks) /\ tasks'[i] = tasks[i] /\ Fetcher(tasks, i)
      BY <2>1, <2>2
    <3>2. CASE j \in 1..Len(tasks)
      BY <1>1, <1>4, <2>2, <3>1, <3>2 DEF DialedFirst, Dialer, Writer
    <3>3. CASE j \notin 1..Len(tasks)
      BY <1>1, <3>1, <3>3
    <3> QED BY <3>2, <3>3
  <2>3. \A i \in 1..Len(tasks') : Fetcher(tasks', i) => tasks'[i].active = Current'
    BY <1>3, <1>4, <2>1 DEF DialedFirst
  <2> QED BY <2>2, <2>3 DEF DialedFirst
<1>9. SameKept'
  <2> SUFFICES ASSUME NEW i \in 1..Len(tasks'), Writer(tasks', i), tasks'[i].then = "setPairing"
               PROVE  tasks'[i].active = Current
    BY <1>3 DEF SameKept
  <2>1. CASE i \in 1..Len(tasks)
    BY <1>1, <1>4, <2>1 DEF SameKept, Writer
  <2>2. CASE i \notin 1..Len(tasks)
    BY <1>1, <1>2, <2>2
  <2> QED BY <2>1, <2>2
<1> QED BY <1>5, <1>7, <1>8, <1>9

LEMMA TurnAlone ==
    ASSUME Types, Alone, NEW t \in AbleTask, NEW u \in AbleTask, Turns(t, u)
    PROVE  Alone'
<1> SUFFICES ASSUME "dials" \notin crossed'
             PROVE  (OneShown /\ OneDialed /\ DialedFirst /\ SameKept)'
  BY DEF Alone
<1>1. /\ Len(tasks) \in Nat \ {0} /\ Len(tasks') = Len(tasks)
      /\ t = tasks[1] /\ tasks'[Len(tasks)] = u
      /\ \A i \in 1..Len(tasks) - 1 : tasks'[i] = tasks[i + 1]
  BY TurnOrder
<1>2. UNCHANGED <<store, link, shown, crossed>> /\ t.do # "fetch" /\ u.do # "fetch"
  BY DEF Turns, history
<1>3. Current' = Current
  BY <1>2 DEF Current
<1>4. OneShown /\ OneDialed /\ DialedFirst /\ SameKept
  BY <1>2 DEF Alone
<1>5. ASSUME NEW i \in 1..Len(tasks)
      PROVE  /\ From(tasks, i) \in 1..Len(tasks)
             /\ tasks'[i].active = tasks[From(tasks, i)].active
             /\ tasks'[i].then = tasks[From(tasks, i)].then
             /\ Writer(tasks', i) <=> Writer(tasks, From(tasks, i))
             /\ Dialer(tasks', i) <=> Dialer(tasks, From(tasks, i))
             /\ Fetcher(tasks', i) <=> Fetcher(tasks, From(tasks, i))
  <2>1. PICK k : k = From(tasks, i)
    OBVIOUS
  <2>2. /\ k \in 1..Len(tasks)
        /\ tasks'[i].active = tasks[k].active /\ tasks'[i].then = tasks[k].then
        /\ Writes(tasks'[i]) <=> Writes(tasks[k])
        /\ Dials(tasks'[i]) <=> Dials(tasks[k])
        /\ tasks'[i].do = "fetch" <=> tasks[k].do = "fetch"
    BY <2>1, TurnOrder
  <2> QED BY <1>1, <2>1, <2>2 DEF Dialer, Writer, Fetcher
<1>6. OneShown'
  BY <1>2, <1>3, <1>4 DEF OneShown
<1>7. OneDialed'
  BY <1>1, <1>4, <1>5 DEF OneDialed
<1>8. SameKept'
  BY <1>1, <1>3, <1>4, <1>5 DEF SameKept
<1>9. \A i \in 1..Len(tasks') : Fetcher(tasks', i) => tasks'[i].active = Current'
  BY <1>1, <1>3, <1>4, <1>5 DEF DialedFirst
<1>10. ASSUME NEW i \in 1..Len(tasks'), NEW j \in 1..Len(tasks'), Fetcher(tasks', i),
              Dialer(tasks', j), tasks'[i].active # tasks'[j].active
       PROVE  i < j
  <2>1. i # Len(tasks)
    BY <1>1, <1>2, <1>10 DEF Fetcher
  <2>2. CASE j = Len(tasks)
    BY <1>1, <2>1, <2>2
  <2>3. CASE j # Len(tasks)
    <3>1. From(tasks, i) < From(tasks, j)
      <4>1. PICK k, m : k = From(tasks, i) /\ m = From(tasks, j)
        OBVIOUS
      <4>2. /\ k \in 1..Len(tasks) /\ m \in 1..Len(tasks)
            /\ Fetcher(tasks, k) /\ Dialer(tasks, m) /\ tasks[k].active # tasks[m].active
        BY <1>1, <1>5, <1>10, <4>1
      <4> QED BY <1>4, <4>1, <4>2 DEF DialedFirst
    <3>2. From(tasks, i) = i + 1 /\ From(tasks, j) = j + 1
      BY <2>1, <2>3 DEF From
    <3> QED BY <1>1, <3>1, <3>2
  <2> QED BY <2>2, <2>3
<1>11. DialedFirst'
  BY <1>9, <1>10 DEF DialedFirst
<1> QED BY <1>6, <1>7, <1>8, <1>11

\* The first request leaves, and the computer in use stays, or is the one it was for.
LEMMA LeaveAlone ==
    ASSUME Types, Booted, tasks # <<>>, store.loaded, NEW t, Leaves(t),
           OneDialed, DialedFirst, SameKept,
           \/ Current' = Current /\ tasks' = Tail(tasks)
           \/ Dialer(tasks, 1) /\ Current' = t.active
    PROVE  (OneDialed /\ DialedFirst /\ SameKept)'
<1>1. /\ Len(tasks) \in Nat \ {0} /\ t = tasks[1] /\ 1 \in 1..Len(tasks)
      /\ Len(tasks') \in {Len(tasks) - 1, Len(tasks)}
      /\ \A i \in 1..Len(tasks) - 1 : tasks'[i] = tasks[i + 1]
      /\ tasks' # Tail(tasks) =>
            /\ Len(tasks') = Len(tasks)
            /\ tasks'[Len(tasks)].do = "fetch" /\ tasks'[Len(tasks)].active = t.active
      /\ tasks' = Tail(tasks) => Len(tasks') = Len(tasks) - 1
  BY LeaveFacts
<1>2. ASSUME NEW i \in 1..Len(tasks'), Writer(tasks', i)
      PROVE  /\ i + 1 \in 1..Len(tasks) /\ tasks'[i] = tasks[i + 1] /\ Writer(tasks, i + 1)
             /\ Dialer(tasks', i) => Dialer(tasks, i + 1)
  <2>1. i \in 1..Len(tasks) - 1 /\ i + 1 \in 1..Len(tasks)
    BY <1>1, <1>2 DEF Writer, Writes
  <2>2. tasks'[i] = tasks[i + 1]
    BY <1>1, <2>1
  <2> QED BY <1>2, <2>1, <2>2 DEF Writer, Dialer
<1>3. OneDialed'
  <2> SUFFICES ASSUME NEW i \in 1..Len(tasks'), NEW j \in 1..Len(tasks'),
                      Dialer(tasks', i), Dialer(tasks', j)
               PROVE  tasks'[i].active = tasks'[j].active
    BY DEF OneDialed
  <2>1. Writer(tasks', i) /\ Writer(tasks', j)
    BY DEF Dialer
  <2> QED BY <1>2, <2>1 DEF OneDialed
<1>4. ASSUME NEW i \in 1..Len(tasks'), Fetcher(tasks', i), i \in 1..Len(tasks) - 1
      PROVE  i + 1 \in 1..Len(tasks) /\ tasks'[i] = tasks[i + 1] /\ Fetcher(tasks, i + 1)
  BY <1>1, <1>4 DEF Fetcher
<1>5. ASSUME NEW i \in 1..Len(tasks'), Fetcher(tasks', i), i \notin 1..Len(tasks) - 1
      PROVE  tasks' # Tail(tasks) /\ tasks'[i].active = t.active
  BY <1>1, <1>5
<1>6. CASE Current' = Current /\ tasks' = Tail(tasks)
  <2>1. \A i \in 1..Len(tasks') : Fetcher(tasks', i) => tasks'[i].active = Current'
    BY <1>4, <1>5, <1>6 DEF DialedFirst
  <2>2. ASSUME NEW i \in 1..Len(tasks'), NEW j \in 1..Len(tasks'), Fetcher(tasks', i),
               Dialer(tasks', j), tasks'[i].active # tasks'[j].active
        PROVE  i < j
    <3>1. /\ j + 1 \in 1..Len(tasks) /\ tasks'[j] = tasks[j + 1] /\ Dialer(tasks, j + 1)
      BY <1>2, <2>2 DEF Dialer
    <3>2. /\ i + 1 \in 1..Len(tasks) /\ tasks'[i] = tasks[i + 1] /\ Fetcher(tasks, i + 1)
      BY <1>4, <1>5, <1>6, <2>2
    <3>3. i + 1 < j + 1
      BY <2>2, <3>1, <3>2 DEF DialedFirst
    <3> QED BY <1>1, <3>3
  <2>3. SameKept'
    BY <1>2, <1>6 DEF SameKept
  <2>4. DialedFirst'
    BY <2>1, <2>2 DEF DialedFirst
  <2> QED BY <1>3, <2>3, <2>4
<1>7. CASE Dialer(tasks, 1) /\ Current' = t.active
  <2>1. ASSUME NEW i \in 1..Len(tasks'), Fetcher(tasks', i)
        PROVE  tasks'[i].active = t.active
    <3>1. CASE i \in 1..Len(tasks) - 1
      <4>1. i + 1 \in 1..Len(tasks) /\ tasks'[i] = tasks[i + 1] /\ Fetcher(tasks, i + 1)
        BY <1>4, <2>1, <3>1
      <4>2. ~(i + 1 < 1)
        BY <1>1, <3>1
      <4>3. tasks[i + 1].active = tasks[1].active
        BY <1>1, <1>7, <4>1, <4>2 DEF DialedFirst
      <4> QED BY <1>1, <4>1, <4>3
    <3>2. CASE i \notin 1..Len(tasks) - 1
      BY <1>5, <2>1, <3>2
    <3> QED BY <3>1, <3>2
  <2>2. ASSUME NEW j \in 1..Len(tasks'), Dialer(tasks', j)
        PROVE  tasks'[j].active = t.active
    <3>1. j + 1 \in 1..Len(tasks) /\ tasks'[j] = tasks[j + 1] /\ Dialer(tasks, j + 1)
      BY <1>2, <2>2 DEF Dialer
    <3> QED BY <1>1, <1>7, <3>1 DEF OneDialed
  <2>3. DialedFirst'
    BY <1>7, <2>1, <2>2 DEF DialedFirst
  <2>4. ASSUME NEW i \in 1..Len(tasks'), Writer(tasks', i), tasks'[i].then = "setPairing"
        PROVE  tasks'[i].active = Current'
    <3>1. Dialer(tasks', i)
      BY <2>4 DEF Dialer, Dials
    <3> QED BY <1>7, <2>2, <3>1
  <2> QED BY <1>3, <2>3, <2>4 DEF SameKept
<1> QED BY <1>6, <1>7

LEMMA OtherAlone ==
    ASSUME Types, Booted, Alone,
           \/ \E t \in AbleTask : Ends(t) \/ Fetches(t) \/ Breaks(t)
           \/ Loads \/ ReadsOn \/ Streamed \/ Restart
    PROVE  Alone'
<1> SUFFICES ASSUME "dials" \notin crossed'
             PROVE  (OneShown /\ OneDialed /\ DialedFirst /\ SameKept)'
  BY DEF Alone
<1>1. ASSUME NEW t \in AbleTask, Ends(t)
      PROVE  (OneShown /\ OneDialed /\ DialedFirst /\ SameKept)'
  <2>1. /\ tasks # <<>> /\ t = Head(tasks) /\ Leaves(t) /\ t.do = "saveActive" /\ Writes(t)
        /\ tasks' # Tail(tasks) => Dials(t) /\ t.active # None
        /\ IF Dials(t) THEN Current' = t.active ELSE store' = store
        /\ IF t.then = "connectTo" THEN link' = None /\ shown' = {} ELSE UNCHANGED <<link, shown>>
    BY <1>1 DEF Ends, Leaves, Writes
  <2>2. t = tasks[1] /\ 1 \in 1..Len(tasks) /\ store.loaded
    BY <2>1, HeadFacts DEF Reads
  <2>3. OneShown /\ OneDialed /\ DialedFirst /\ SameKept
    BY <1>1 DEF Ends, Alone
  <2>4. Dials(t) => Dialer(tasks, 1)
    BY <2>1, <2>2 DEF Dialer, Writer
  <2>5. ~Dials(t) => Current' = Current /\ tasks' = Tail(tasks)
    BY <2>1 DEF Current
  <2>6. (OneDialed /\ DialedFirst /\ SameKept)'
    BY <2>1, <2>2, <2>3, <2>4, <2>5, LeaveAlone
  <2>7. CASE t.then = "connectTo"
    BY <2>1, <2>6, <2>7 DEF OneShown
  <2>8. CASE t.then # "connectTo"
    <3>1. t.then = "setPairing" => t.active = Current
      BY <2>1, <2>2, <2>3 DEF SameKept, Writer
    <3>2. Dials(t) => t.then = "setPairing"
      BY <2>8, TaskFacts DEF Dials
    <3>3. Current' = Current
      BY <2>1, <2>5, <3>1, <3>2
    <3> QED BY <2>1, <2>3, <2>6, <2>8, <3>3 DEF OneShown
  <2> QED BY <2>7, <2>8
<1>2. ASSUME NEW t \in AbleTask, Fetches(t) \/ Breaks(t)
      PROVE  (OneShown /\ OneDialed /\ DialedFirst /\ SameKept)'
  <2>1. /\ tasks # <<>> /\ t = Head(tasks) /\ tasks' = Tail(tasks) /\ Leaves(t)
        /\ t.do \notin Reads /\ UNCHANGED <<store, shown, crossed>>
        /\ link' = link \/ (t.do = "fetch" /\ link' = PairingOf(t.list, t.active))
    BY <1>2 DEF Fetches, Breaks, Fetch, Leaves, Answered, Reads, Writes, history
  <2>2. t = tasks[1] /\ 1 \in 1..Len(tasks) /\ store.loaded
    BY <2>1, HeadFacts
  <2>3. OneShown /\ OneDialed /\ DialedFirst /\ SameKept
    BY <2>1 DEF Alone
  <2>4. Current' = Current
    BY <2>1 DEF Current
  <2>5. (OneDialed /\ DialedFirst /\ SameKept)'
    BY <2>1, <2>2, <2>3, <2>4, LeaveAlone
  <2>6. t.do = "fetch" => t.active = Current
    BY <2>2, <2>3 DEF DialedFirst, Fetcher
  <2>7. link' # None => link'.device = Current
    <3>1. CASE link' = link
      BY <2>3, <3>1 DEF OneShown
    <3>2. CASE t.do = "fetch" /\ link' = PairingOf(t.list, t.active)
      BY <2>6, <3>2 DEF PairingOf
    <3> QED BY <2>1, <3>1, <3>2
  <2> QED BY <2>1, <2>3, <2>4, <2>5, <2>7 DEF OneShown
<1>3. CASE Loads \/ ReadsOn \/ Restart
  <2>1. link' = None /\ shown' = {}
    BY <1>3 DEF Loads, ReadsOn, Restart, Booted
  <2>2. \A i \in 1..Len(tasks') :
          /\ ~Writer(tasks', i)
          /\ Fetcher(tasks', i) => tasks'[i].active = Current'
    <3>1. CASE Loads
      BY <3>1 DEF Loads, Writer, Writes, Fetcher
    <3>2. CASE ReadsOn
      BY <3>2 DEF ReadsOn, Writer, Writes, Fetcher, Reads
    <3>3. CASE Restart
      <4>1. Len(tasks') = 1 /\ tasks'[1].do = "readList"
        BY <3>3, UnreadFacts DEF Restart
      <4> QED BY <4>1 DEF Writer, Writes, Fetcher
    <3> QED BY <1>3, <3>1, <3>2, <3>3
  <2> QED BY <2>1, <2>2 DEF OneShown, OneDialed, DialedFirst, SameKept, Dialer
<1>4. CASE Streamed
  <2>1. UNCHANGED <<store, link, tasks, crossed>> /\ shown' = shown \cup {link.device} /\ link # None
    BY <1>4 DEF Streamed, history
  <2>2. OneShown /\ OneDialed /\ DialedFirst /\ SameKept
    BY <2>1 DEF Alone
  <2>3. Current' = Current
    BY <2>1 DEF Current
  <2> QED BY <2>1, <2>2, <2>3 DEF OneShown, OneDialed, DialedFirst, SameKept
<1> QED BY <1>1, <1>2, <1>3, <1>4

\* Whatever operations cross, the phone comes to the link of the pairing in use; and unless two that
\* dial different computers cross, the link and what is shown are the computer in use at every
\* moment (connectTo, setRelay, boot).
THEOREM OneComputerInUse == Spec => []OneInUse
<1>1. Init => Linked /\ Alone
  <2> SUFFICES ASSUME Init PROVE Linked /\ Alone
    OBVIOUS
  <2>1. /\ link = None /\ shown = {} /\ Current = None /\ store.current = None
        /\ Len(tasks) = 1 /\ tasks[1].do = "readList"
    BY InitFacts DEF Init, Unread
  <2>2. \A i \in 1..Len(tasks) : ~Writer(tasks, i) /\ ~Fetcher(tasks, i)
    BY <2>1 DEF Writer, Writes, Fetcher
  <2> QED BY <2>1, <2>2 DEF Linked, Alone, OneShown, OneDialed, DialedFirst, SameKept, Dialer
<1>2. Formed /\ Linked /\ Alone /\ [Next]_vars => Linked' /\ Alone'
  <2> SUFFICES ASSUME Types, Booted, Linked, Alone, [Next]_vars PROVE Linked' /\ Alone'
    BY DEF Formed
  <2>1. CASE UNCHANGED vars
    <3>1. UNCHANGED <<keychain, store, link, shown, tasks, failed, kept, gone, crossed>>
      BY <2>1, StutterFacts
    <3> QED BY <3>1 DEF Linked, Alone, OneShown, OneDialed, DialedFirst, SameKept, Current
  <2>2. CASE Next
    <3>1. Linked'
      BY <2>2, StepFacts, BeginLinked, EndLinked, FetchLinked, OtherLinked
    <3>2. Alone'
      BY <2>2, StepFacts, BeginAlone, TurnAlone, OtherAlone
    <3> QED BY <3>1, <3>2
  <2> QED BY <2>1, <2>2
<1>3. Formed /\ Linked /\ Alone => OneInUse
  <2> SUFFICES ASSUME Types, Linked, Alone PROVE OneInUse
    BY DEF Formed
  <2>1. DOMAIN tasks = 1..Len(tasks)
    BY LenProperties DEF Types
  <2>2. store.current \notin {None, link} => Dialing(store.current)
    BY <2>1 DEF Linked, Dialing, Fetcher
  <2> QED BY <2>2 DEF Alone, OneShown, OneInUse
<1> QED BY <1>1, <1>2, <1>3, FormedAlways, PTL DEF Spec

-----------------------------------------------------------------------------
(* What the app shows and what the keychain holds. *)

\* The last of the operations under way to write.
IsLast(q, z) ==
    /\ Writer(q, z)
    /\ \A j \in 1..Len(q) : Writer(q, j) /\ j # z => Before(q, j, z)

AtRest ==
    /\ keychain.list = store.list
    /\ GetActiveComputer(keychain.list, keychain.active) = Current

\* The last to write leaves what is, or will be, shown.
LeftBy(z) ==
    /\ tasks[z].do = "saveActive" => keychain.list = tasks[z].list
    /\ ~Dials(tasks[z]) =>
          /\ store.list = tasks[z].list /\ Current = tasks[z].active
          /\ \A j \in 1..Len(tasks) : ~Dialer(tasks, j)

Stored ==
    ~failed /\ "name" \notin crossed /\ store.loaded =>
        /\ (\A j \in 1..Len(tasks) : ~Writer(tasks, j)) => AtRest
        /\ \A z \in 1..Len(tasks) : IsLast(tasks, z) => LeftBy(z)

LEMMA BeginStored ==
    ASSUME Types, Stored, NEW t \in AbleTask, Begins(t)
    PROVE  Stored'
<1> SUFFICES ASSUME "name" \notin crossed'
             PROVE  /\ (\A j \in 1..Len(tasks') : ~Writer(tasks', j)) => AtRest'
                    /\ \A z \in 1..Len(tasks') : IsLast(tasks', z) => LeftBy(z)'
  BY DEF Stored
<1>1. /\ Len(tasks) \in Nat /\ Len(tasks') = Len(tasks) + 1
      /\ \A i \in 1..Len(tasks) : tasks'[i] = tasks[i] /\ tasks[i] \in AbleTask
      /\ tasks'[Len(tasks) + 1] = t
  BY BeginOrder
<1>2. /\ t.do \in {"dropRoutes", "saveList"} /\ Writes(t)
      /\ store'.current = store.current /\ (~Dials(t) => store'.list = t.list)
      /\ t.then # "connectTo" => t.active = Current
      /\ \A i \in 1..Len(tasks) : Writes(tasks[i]) => "name" \notin Crosses(tasks[i], t)
  BY DEF Begins, Writes
<1>3. Current' = Current
  BY <1>2 DEF Current
<1>4. Writer(tasks', Len(tasks) + 1) /\ Len(tasks) + 1 \in 1..Len(tasks')
  BY <1>1, <1>2 DEF Writer
<1>5. ASSUME NEW z \in 1..Len(tasks'), z = Len(tasks) + 1 PROVE LeftBy(z)'
  <2>1. tasks'[z] = t
    BY <1>1, <1>5
  <2>2. ASSUME ~Dials(t), NEW j \in 1..Len(tasks') PROVE ~Dialer(tasks', j)
    <3>1. CASE j \in 1..Len(tasks)
      BY <1>1, <1>2, <2>2, <3>1 DEF Dialer, Writer, Crosses
    <3>2. CASE j \notin 1..Len(tasks)
      BY <1>1, <2>2, <3>2 DEF Dialer
    <3> QED BY <3>1, <3>2
  <2>3. ~Dials(t) => t.active = Current
    BY <1>2 DEF Dials
  <2> QED BY <1>2, <1>3, <2>1, <2>2, <2>3 DEF LeftBy
<1>6. ASSUME NEW z \in 1..Len(tasks), IsLast(tasks', z) PROVE LeftBy(z)'
  <2>1. Before(tasks', Len(tasks) + 1, z) /\ tasks'[z] = tasks[z] /\ tasks[z] \in AbleTask
    BY <1>1, <1>4, <1>6 DEF IsLast
  <2>2. Stage(tasks[z]) < 1
    <3>1. Stage(t) \in 0..1 /\ Stage(tasks[z]) \in 0..2
      BY <1>2, <2>1, StageFacts DEF Stage
    <3> QED BY <1>1, <2>1, <3>1 DEF Before
  <2>3. tasks[z].do = "dropRoutes"
    BY <2>2 DEF Stage
  <2>4. Dials(tasks'[z])
    BY <2>1, <2>3, TaskFacts DEF Dials
  <2> QED BY <2>1, <2>3, <2>4 DEF LeftBy
<1>7. \A z \in 1..Len(tasks') : z = Len(tasks) + 1 \/ z \in 1..Len(tasks)
  BY <1>1
<1> QED BY <1>4, <1>5, <1>6, <1>7

LEMMA TurnStored ==
    ASSUME Types, Stored, NEW t \in AbleTask, NEW u \in AbleTask, Turns(t, u)
    PROVE  Stored'
<1> SUFFICES ASSUME ~failed', "name" \notin crossed', store'.loaded
             PROVE  /\ (\A j \in 1..Len(tasks') : ~Writer(tasks', j)) => AtRest'
                    /\ \A z \in 1..Len(tasks') : IsLast(tasks', z) => LeftBy(z)'
  BY DEF Stored
<1>1. /\ Len(tasks) \in Nat \ {0} /\ Len(tasks') = Len(tasks)
      /\ t = tasks[1] /\ tasks'[Len(tasks)] = u /\ 1 \in 1..Len(tasks)
      /\ \A i \in 1..Len(tasks) - 1 : tasks'[i] = tasks[i + 1]
  BY TurnOrder
<1>2. /\ t.do \in {"dropRoutes", "saveList"} /\ Writes(t) /\ Writes(u)
      /\ u.do = IF t.do = "dropRoutes" THEN "saveList" ELSE "saveActive"
      /\ u.list = t.list
      /\ keychain'.list = IF t.do = "saveList" THEN t.list ELSE keychain.list
      /\ UNCHANGED <<store, failed, crossed>>
  BY DEF Turns, Writes, history
<1>3. Current' = Current
  BY <1>2 DEF Current
<1>4. Writer(tasks', Len(tasks)) /\ Writer(tasks, 1)
  BY <1>1, <1>2 DEF Writer
<1>5. ASSUME NEW z \in 1..Len(tasks'), IsLast(tasks', z) PROVE LeftBy(z)'
  <2>1. PICK k : k = From(tasks, z)
    OBVIOUS
  <2>2. /\ k \in 1..Len(tasks)
        /\ tasks'[z].list = tasks[k].list /\ tasks'[z].active = tasks[k].active
        /\ Writes(tasks'[z]) <=> Writes(tasks[k])
        /\ Dials(tasks'[z]) <=> Dials(tasks[k])
    BY <1>1, <2>1, TurnOrder
  <2>3. Writer(tasks, k) /\ Writes(tasks'[z])
    BY <1>5, <2>2 DEF IsLast, Writer
  <2>4. ASSUME NEW j \in 1..Len(tasks), Writer(tasks, j), j # k
        PROVE  Before(tasks, j, k)
    <3>1. PICK i : i = Into(tasks, j)
      OBVIOUS
    <3>2. i \in 1..Len(tasks) /\ From(tasks, i) = j
      BY <3>1, TurnOrder
    <3>3. Writes(tasks'[i]) /\ i # z
      BY <2>1, <2>4, <3>2, TurnOrder DEF Writer
    <3>4. Before(tasks', i, z)
      BY <1>1, <1>5, <3>2, <3>3 DEF IsLast, Writer
    <3>5. Before(tasks', i, z) <=> Before(tasks, j, k)
      BY <1>1, <2>1, <2>3, <3>2, <3>3, TurnBefore
    <3> QED BY <3>4, <3>5
  <2>5. LeftBy(k)
    <3>1. IsLast(tasks, k)
      BY <2>3, <2>4 DEF IsLast
    <3> QED BY <1>2, <2>2, <3>1 DEF Stored
  <2>6. ASSUME tasks'[z].do = "saveActive" PROVE keychain'.list = tasks'[z].list
    <3>1. CASE z = Len(tasks)
      BY <1>1, <1>2, <2>6, <3>1
    <3>2. CASE z # Len(tasks)
      <4>1. z \in 1..Len(tasks) - 1 /\ k = z + 1
        BY <1>1, <2>1, <3>2 DEF From
      <4>2. tasks'[z] = tasks[k] /\ k # 1
        BY <1>1, <4>1
      <4>3. Stage(tasks[k]) = 2 /\ Stage(tasks[1]) \in 0..1
        BY <1>1, <1>2, <2>6, <4>2 DEF Stage
      <4>4. Before(tasks, 1, k)
        BY <1>1, <1>4, <2>4, <4>2
      <4> QED BY <4>3, <4>4 DEF Before
    <3> QED BY <3>1, <3>2
  <2>7. ASSUME ~Dials(tasks'[z])
        PROVE  /\ store'.list = tasks'[z].list /\ Current' = tasks'[z].active
               /\ \A j \in 1..Len(tasks') : ~Dialer(tasks', j)
    <3>1. /\ store.list = tasks[k].list /\ Current = tasks[k].active
          /\ \A j \in 1..Len(tasks) : ~Dialer(tasks, j)
      BY <2>2, <2>5, <2>7 DEF LeftBy
    <3>2. ASSUME NEW j \in 1..Len(tasks'), Dialer(tasks', j) PROVE FALSE
      <4>1. PICK i : i = From(tasks, j)
        OBVIOUS
      <4>2. /\ i \in 1..Len(tasks)
            /\ Writes(tasks'[j]) <=> Writes(tasks[i])
            /\ Dials(tasks'[j]) <=> Dials(tasks[i])
        BY <1>1, <4>1, TurnOrder
      <4>3. Dialer(tasks, i)
        BY <3>2, <4>2 DEF Dialer, Writer
      <4> QED BY <3>1, <4>2, <4>3
    <3> QED BY <1>2, <1>3, <2>2, <3>1, <3>2
  <2> QED BY <2>6, <2>7 DEF LeftBy
<1> QED BY <1>1, <1>4, <1>5

\* The last to write stays the last when another is over.
LEMMA LeaveLast ==
    ASSUME Types, Booted, tasks # <<>>, store.loaded, NEW t, Leaves(t),
           Writes(t) => t.do = "saveActive"
    PROVE  /\ t = tasks[1] /\ 1 \in 1..Len(tasks)
           /\ \A z \in 1..Len(tasks') : IsLast(tasks', z) =>
                 z + 1 \in 1..Len(tasks) /\ tasks'[z] = tasks[z + 1] /\ IsLast(tasks, z + 1)
           /\ (\A j \in 1..Len(tasks') : ~Writer(tasks', j)) =>
                 \A k \in 1..Len(tasks) : Writer(tasks, k) => k = 1
           /\ \A j \in 1..Len(tasks') : Dialer(tasks', j) =>
                 j + 1 \in 1..Len(tasks) /\ Dialer(tasks, j + 1)
<1>1. /\ Len(tasks) \in Nat \ {0} /\ t = tasks[1]
      /\ \A i : Writer(tasks', i) => /\ i \in 1..Len(tasks) - 1 /\ tasks'[i] = tasks[i + 1]
                                     /\ Writer(tasks, i + 1)
      /\ \A k \in 2..Len(tasks) : k - 1 \in 1..Len(tasks') /\ tasks'[k - 1] = tasks[k]
      /\ \A i, j : Writer(tasks', i) /\ Writer(tasks', j) =>
            (Before(tasks', i, j) <=> Before(tasks, i + 1, j + 1))
  BY LeaveOrder
<1>2. ASSUME NEW k \in 1..Len(tasks), Writer(tasks, k), k # 1
      PROVE  k - 1 \in 1..Len(tasks') /\ Writer(tasks', k - 1) /\ (k - 1) + 1 = k
  <2>1. k \in 2..Len(tasks) /\ (k - 1) + 1 = k
    BY <1>1, <1>2
  <2> QED BY <1>1, <1>2, <2>1 DEF Writer
<1>3. ASSUME NEW z \in 1..Len(tasks'), IsLast(tasks', z)
      PROVE  z + 1 \in 1..Len(tasks) /\ tasks'[z] = tasks[z + 1] /\ IsLast(tasks, z + 1)
  <2>1. Writer(tasks', z)
    BY <1>3 DEF IsLast
  <2>2. /\ z \in 1..Len(tasks) - 1 /\ z + 1 \in 1..Len(tasks)
        /\ tasks'[z] = tasks[z + 1] /\ Writer(tasks, z + 1)
    BY <1>1, <2>1
  <2>3. ASSUME NEW j \in 1..Len(tasks), Writer(tasks, j), j # z + 1
        PROVE  Before(tasks, j, z + 1)
    <3>1. CASE j = 1
      <4>1. Stage(tasks[1]) = 2
        BY <1>1, <2>3, <3>1 DEF Writer, Stage
      <4>2. tasks[z + 1] \in AbleTask
        BY <2>2, ElementOfSeq DEF Types
      <4>3. Stage(tasks[z + 1]) \in 0..2
        BY <4>2, StageFacts
      <4> QED BY <2>2, <3>1, <4>1, <4>3 DEF Before
    <3>2. CASE j # 1
      <4>1. j - 1 \in 1..Len(tasks') /\ Writer(tasks', j - 1) /\ (j - 1) + 1 = j
        BY <1>2, <2>3, <3>2
      <4>2. j - 1 # z
        BY <2>3, <4>1
      <4>3. Before(tasks', j - 1, z)
        BY <1>3, <4>1, <4>2 DEF IsLast
      <4> QED BY <1>1, <2>1, <4>1, <4>3
    <3> QED BY <3>1, <3>2
  <2> QED BY <2>2, <2>3 DEF IsLast
<1>4. ASSUME \A j \in 1..Len(tasks') : ~Writer(tasks', j), NEW k \in 1..Len(tasks), Writer(tasks, k)
      PROVE  k = 1
  BY <1>2, <1>4
<1>5. ASSUME NEW j \in 1..Len(tasks'), Dialer(tasks', j)
      PROVE  j + 1 \in 1..Len(tasks) /\ Dialer(tasks, j + 1)
  BY <1>1, <1>5 DEF Dialer, Writer
<1>6. 1 \in 1..Len(tasks)
  BY <1>1
<1> QED BY <1>1, <1>3, <1>4, <1>5, <1>6

LEMMA EndStored ==
    ASSUME Types, Booted, Stored, NEW t \in AbleTask, Ends(t) \/ Fetches(t)
    PROVE  Stored'
<1> SUFFICES ASSUME ~failed', "name" \notin crossed', store'.loaded
             PROVE  /\ (\A j \in 1..Len(tasks') : ~Writer(tasks', j)) => AtRest'
                    /\ \A z \in 1..Len(tasks') : IsLast(tasks', z) => LeftBy(z)'
  BY DEF Stored
<1>1. /\ tasks # <<>> /\ t = Head(tasks) /\ Leaves(t) /\ t.do \in {"saveActive", "fetch"}
      /\ keychain'.list = keychain.list
      /\ UNCHANGED <<failed, crossed>>
  BY DEF Ends, Fetches, Fetch, Leaves, Answered, history
<1>2. t = tasks[1] /\ 1 \in 1..Len(tasks) /\ store.loaded /\ Fits(t.list, t.active)
      /\ t.list \in Seq(Computer)
  BY <1>1, HeadFacts, TaskFacts DEF Reads
<1>3. /\ (\A j \in 1..Len(tasks) : ~Writer(tasks, j)) => AtRest
      /\ \A z \in 1..Len(tasks) : IsLast(tasks, z) => LeftBy(z)
  BY <1>1, <1>2 DEF Stored
<1>4. Writes(t) => t.do = "saveActive"
  BY <1>1 DEF Writes
<1>5. /\ \A z \in 1..Len(tasks') : IsLast(tasks', z) =>
            z + 1 \in 1..Len(tasks) /\ tasks'[z] = tasks[z + 1] /\ IsLast(tasks, z + 1)
      /\ (\A j \in 1..Len(tasks') : ~Writer(tasks', j)) =>
            \A k \in 1..Len(tasks) : Writer(tasks, k) => k = 1
      /\ \A j \in 1..Len(tasks') : Dialer(tasks', j) =>
            j + 1 \in 1..Len(tasks) /\ Dialer(tasks, j + 1)
  BY <1>1, <1>2, <1>4, LeaveLast
<1>6. ~Dials(t) \/ t.do = "fetch" => store' = store
  BY <1>1 DEF Ends, Fetches, Fetch
<1>7. ASSUME NEW z \in 1..Len(tasks'), IsLast(tasks', z) PROVE LeftBy(z)'
  <2>1. z + 1 \in 1..Len(tasks) /\ tasks'[z] = tasks[z + 1] /\ LeftBy(z + 1)
    BY <1>3, <1>5, <1>7
  <2>2. ASSUME ~Dials(tasks'[z])
        PROVE  /\ store'.list = tasks'[z].list /\ Current' = tasks'[z].active
               /\ \A j \in 1..Len(tasks') : ~Dialer(tasks', j)
    <3>1. /\ store.list = tasks[z + 1].list /\ Current = tasks[z + 1].active
          /\ \A j \in 1..Len(tasks) : ~Dialer(tasks, j)
      BY <2>1, <2>2 DEF LeftBy
    <3>2. ~Dials(t) \/ t.do = "fetch"
      BY <1>1, <1>2, <3>1 DEF Dialer, Writer, Writes
    <3>3. store' = store /\ Current' = Current
      BY <1>6, <3>2 DEF Current
    <3> QED BY <1>5, <2>1, <3>1, <3>3
  <2> QED BY <1>1, <2>1, <2>2 DEF LeftBy
<1>8. ASSUME \A j \in 1..Len(tasks') : ~Writer(tasks', j) PROVE AtRest'
  <2>1. \A k \in 1..Len(tasks) : Writer(tasks, k) => k = 1
    BY <1>5, <1>8
  <2>2. CASE t.do = "fetch"
    <3>1. \A k \in 1..Len(tasks) : ~Writer(tasks, k)
      BY <1>2, <2>1, <2>2 DEF Writer, Writes
    <3>2. keychain' = keychain /\ store' = store
      BY <1>6, <2>2 DEF Ends, Fetches, Fetch
    <3> QED BY <1>3, <3>1, <3>2 DEF AtRest, Current
  <2>3. CASE t.do = "saveActive"
    <3>1. IsLast(tasks, 1)
      BY <1>2, <2>1, <2>3 DEF IsLast, Writer, Writes
    <3>2. LeftBy(1)
      BY <1>2, <1>3, <3>1
    <3>3. keychain'.list = t.list /\ keychain'.active = t.active
      BY <1>1, <1>2, <2>3, <3>2 DEF LeftBy, Ends, Fetches
    <3>4. store'.list = t.list /\ Current' = t.active
      <4>1. CASE Dials(t)
        BY <2>3, <4>1 DEF Ends, Fetches
      <4>2. CASE ~Dials(t)
        BY <1>2, <1>6, <3>2, <4>2 DEF LeftBy, Current
      <4> QED BY <4>1, <4>2
    <3>5. GetActiveComputer(t.list, t.active) = t.active
      BY <1>2, ActiveFacts
    <3> QED BY <3>3, <3>4, <3>5 DEF AtRest
  <2> QED BY <1>1, <2>2, <2>3
<1> QED BY <1>7, <1>8

LEMMA OtherStored ==
    ASSUME Types, Booted, Stored,
           \/ \E t \in AbleTask : Breaks(t)
           \/ Loads \/ ReadsOn \/ Streamed \/ Restart
    PROVE  Stored'
<1>1. CASE \E t \in AbleTask : Breaks(t)
  BY <1>1 DEF Breaks, Stored
<1>2. CASE Loads
  <2> SUFFICES ASSUME ~failed' PROVE Stored'
    BY DEF Stored
  <2>1. \A j \in 1..Len(tasks') : ~Writer(tasks', j)
    BY <1>2 DEF Loads, Writer, Writes
  <2>2. AtRest'
    BY <1>2 DEF Loads, AtRest
  <2> QED BY <2>1, <2>2 DEF Stored, IsLast
<1>3. CASE ReadsOn \/ Restart
  <2>1. ~store'.loaded
    BY <1>3 DEF ReadsOn, Restart, Unread
  <2> QED BY <2>1 DEF Stored
<1>4. CASE Streamed
  <2>1. UNCHANGED <<keychain, store, tasks, failed, crossed>>
    BY <1>4 DEF Streamed, history
  <2> QED BY <2>1 DEF Stored, AtRest, LeftBy, Current
<1> QED BY <1>1, <1>2, <1>3, <1>4

\* Once nothing is under way a phone paired with any computer is on one of them, and the keychain
\* holds what is shown, whatever crossed, unless a write failed or a name was said while another
\* operation had yet to show its list (saveComputers, followNames).
THEOREM SettlesInTheEnd == Spec => []Settled
<1>1. Init => Stored
  BY InitFacts DEF Stored
<1>2. Formed /\ Stored /\ [Next]_vars => Stored'
  <2> SUFFICES ASSUME Types, Booted, Stored, [Next]_vars PROVE Stored'
    BY DEF Formed
  <2>1. CASE UNCHANGED vars
    <3>1. UNCHANGED <<keychain, store, tasks, failed, crossed>>
      BY <2>1, StutterFacts
    <3> QED BY <3>1 DEF Stored, AtRest, LeftBy, Current
  <2>2. CASE Next
    BY <2>2, StepFacts, BeginStored, TurnStored, EndStored, OtherStored
  <2> QED BY <2>1, <2>2
<1>3. Formed /\ Stored => Settled
  <2> SUFFICES ASSUME Types, Stored, tasks = <<>>, store.loaded
               PROVE  /\ store.list # <<>> <=> store.current # None
                      /\ ~failed /\ "name" \notin crossed => AtRest
    BY DEF Formed, Settled, AtRest
  <2>1. Len(tasks) = 0
    OBVIOUS
  <2>2. \A j \in 1..Len(tasks) : ~Writer(tasks, j)
    BY <2>1
  <2> QED BY <2>2, CurrentFacts DEF Stored
<1> QED BY <1>1, <1>2, <1>3, FormedAlways, PTL DEF Spec
=============================================================================
