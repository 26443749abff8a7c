----------------------- MODULE RoutedTransportProofs -----------------------
(* The safety of RoutedTransport for any set of direct routes.  Each method *)
(* of the transport has a lemma that says what it leaves and what it        *)
(* changes; each event is then taken through the methods it calls.  What is *)
(* true of a phone with no direct link in use (Sound) is carried along the  *)
(* calls, in between which the invariant itself does not hold.              *)
EXTENDS RoutedTransport, TLAPS

\* What the properties rest on: timers belong to what they are about, and a
\* relay link that is down will dial again unless the phone was turned away.
Shape ==
    /\ rt.life = "closed" => /\ rt.active = None /\ rt.relay = None
                             /\ rt.probes = {} /\ rt.timers = {}
    /\ "retry" \in rt.timers => rt.relay = Relay
    /\ rt.active = Relay => rt.relay = Relay
    /\ "verify" \in rt.timers => rt.active # None
    /\ \A r \in Routes : rt.phase[r] \notin {"open", "down"}
    /\ rt.phase[Relay] = "down" => "retry" \in rt.timers \/ turned
    /\ rt.status \in {"replaced", "update"} => turned

IInv == TypeOK /\ Shape /\ NoOrphan /\ DirectIsAlone /\ NeverIdle /\ ConnectingEnds

\* No direct link is in use, and those there are, are the attempts under way.
Attempts(s) == \A r \in Routes :
    /\ s.phase[r] \in {"none", "dialing", "asking", "hello", "refused"}
    /\ s.phase[r] # "none" <=> r \in s.probes

RelayHeld(s) == s.phase[Relay] # "none" <=> s.relay = Relay

USE LinksAssumption

LEMMA DialIs ==
    ASSUME NEW s, Phone(s), NEW ls \in SUBSET Links, NEW t, t = Dial(s, ls), good \subseteq Links
    PROVE  /\ Phone(t)
           /\ t.phase = [l \in Links |-> IF l \in ls THEN "dialing" ELSE s.phase[l]]
           /\ t.routes = s.routes /\ t.active = s.active /\ t.relay = s.relay
           /\ t.probes = s.probes /\ t.timers = s.timers /\ t.life = s.life
           /\ t.status = s.status
BY DEF Phone, Fields, Dial, SetPhase, Phases

LEMMA CloseLinksIs ==
    ASSUME NEW s, Phone(s), NEW ls \in SUBSET Links, NEW t, t = CloseLinks(s, ls)
    PROVE  /\ Phone(t)
           /\ t.phase = [l \in Links |-> IF l \in ls THEN "none" ELSE s.phase[l]]
           /\ t.routes = s.routes /\ t.active = s.active /\ t.relay = s.relay
           /\ t.probes = s.probes /\ t.life = s.life /\ t.status = s.status
           /\ t.timers = IF Relay \in ls THEN s.timers \ {"retry"} ELSE s.timers
BY DEF Phone, Fields, CloseLinks, SetPhase, Phases

LEMMA DialRelayIs ==
    ASSUME NEW s, Phone(s), s.life = "open", RelayHeld(s), NEW t, t = DialRelay(s), good \subseteq Links
    PROVE  /\ Phone(t) /\ RelayHeld(t) /\ t.relay = Relay
           /\ t.phase[Relay] = IF s.relay = Relay THEN s.phase[Relay] ELSE "dialing"
           /\ \A r \in Routes : t.phase[r] = s.phase[r]
           /\ t.routes = s.routes /\ t.active = s.active /\ t.probes = s.probes
           /\ t.timers = s.timers /\ t.life = s.life /\ t.status = s.status
<1>1. CASE s.relay = Relay
  BY <1>1 DEF DialRelay, Phone
<1>2. CASE s.relay # Relay
  <2>1. PICK u : u = [s EXCEPT !.relay = Relay]
    OBVIOUS
  <2>2. Phone(u) /\ u.relay = Relay /\ u.phase = s.phase /\ u.routes = s.routes
        /\ u.active = s.active /\ u.probes = s.probes /\ u.timers = s.timers
        /\ u.life = s.life /\ u.status = s.status
    BY <2>1 DEF Phone, Fields
  <2>3. t = Dial(u, {Relay}) /\ {Relay} \in SUBSET Links
    BY <1>2, <2>1 DEF DialRelay, Links
  <2>4. /\ Phone(t) /\ t.phase = [l \in Links |-> IF l \in {Relay} THEN "dialing" ELSE u.phase[l]]
        /\ t.routes = u.routes /\ t.active = u.active /\ t.relay = u.relay
        /\ t.probes = u.probes /\ t.timers = u.timers /\ t.life = u.life
        /\ t.status = u.status
    BY <2>2, <2>3, DialIs
  <2>5. /\ t.phase[Relay] = "dialing"
        /\ \A r \in Routes : t.phase[r] = s.phase[r]
    BY <2>2, <2>4 DEF Links
  <2> QED
    BY <1>2, <2>2, <2>4, <2>5 DEF RelayHeld
<1> QED BY <1>1, <1>2

LEMMA ProbeDirectIs ==
    ASSUME NEW s, Phone(s), s.life = "open", Attempts(s), NEW a \in BOOLEAN,
           NEW t, t = ProbeDirect(s, a), good \subseteq Links
    PROVE  /\ Phone(t) /\ Attempts(t) /\ s.routes \subseteq t.probes
           /\ t.phase[Relay] = s.phase[Relay]
           /\ t.routes = s.routes /\ t.active = s.active /\ t.relay = s.relay
           /\ t.timers = s.timers /\ t.life = s.life /\ t.status = s.status
<1>1. PICK u : u = IF a THEN CloseLinks(s, s.probes) ELSE s
  OBVIOUS
<1>2. PICK under : under = IF a THEN {} ELSE s.probes
  OBVIOUS
<1>3. PICK v : v = [u EXCEPT !.probes = under \cup s.routes]
  OBVIOUS
<1>4. t = Dial(v, s.routes \ under)
  BY <1>1, <1>2, <1>3 DEF ProbeDirect
<1>5. /\ Phone(u) /\ u.phase[Relay] = s.phase[Relay] /\ u.routes = s.routes
      /\ u.active = s.active /\ u.relay = s.relay /\ u.timers = s.timers
      /\ u.life = s.life /\ u.status = s.status
      /\ \A r \in Routes : u.phase[r] = IF a /\ r \in s.probes THEN "none" ELSE s.phase[r]
  <2>1. s.probes \in SUBSET Links /\ Relay \notin s.probes
    BY DEF Phone, Links
  <2>2. CASE a
    <3> PICK ls \in SUBSET Links : ls = s.probes
      BY <2>1
    <3>1. u = CloseLinks(s, ls)
      BY <1>1, <2>2
    <3>2. /\ Phone(u)
          /\ u.phase = [l \in Links |-> IF l \in ls THEN "none" ELSE s.phase[l]]
          /\ u.routes = s.routes /\ u.active = s.active /\ u.relay = s.relay
          /\ u.probes = s.probes /\ u.life = s.life /\ u.status = s.status
          /\ u.timers = IF Relay \in ls THEN s.timers \ {"retry"} ELSE s.timers
      BY SMTT(30), <3>1, CloseLinksIs
    <3> QED BY <2>1, <2>2, <3>2 DEF Links
  <2>3. CASE ~a
    BY <1>1, <2>3
  <2> QED BY <2>2, <2>3
<1>6. /\ Phone(v) /\ v.phase = u.phase /\ v.probes = under \cup s.routes /\ v.routes = u.routes
      /\ v.active = u.active /\ v.relay = u.relay /\ v.timers = u.timers
      /\ v.life = u.life /\ v.status = u.status
  BY <1>2, <1>3, <1>5 DEF Phone, Fields
<1>7. s.routes \ under \in SUBSET Links /\ Relay \notin s.routes
  BY DEF Phone, Links
<1>8. /\ Phone(t) /\ t.phase = [l \in Links |-> IF l \in s.routes \ under THEN "dialing" ELSE v.phase[l]]
      /\ t.routes = v.routes /\ t.active = v.active /\ t.relay = v.relay
      /\ t.probes = v.probes /\ t.timers = v.timers /\ t.life = v.life
      /\ t.status = v.status
  BY <1>4, <1>6, <1>7, DialIs
<1>9. Attempts(t)
  BY <1>2, <1>5, <1>6, <1>8 DEF Attempts, Links
<1> QED BY <1>5, <1>6, <1>7, <1>8, <1>9 DEF Links

LEMMA RaceIs ==
    ASSUME NEW s, Phone(s), s.life = "open", Attempts(s), RelayHeld(s), NEW t, t = Race(s), good \subseteq Links
    PROVE  /\ Phone(t) /\ Attempts(t) /\ RelayHeld(t)
           /\ t.routes = s.routes /\ t.active = s.active /\ t.life = s.life /\ t.status = s.status
           /\ s.timers \subseteq t.timers /\ t.timers \subseteq s.timers \cup {"headStart"}
           /\ s.relay = Relay => t.relay = Relay /\ t.phase[Relay] = s.phase[Relay]
           /\ s.relay # Relay => \/ "headStart" \in t.timers /\ t.relay = s.relay /\ t.phase[Relay] = s.phase[Relay]
                                 \/ t.relay = Relay /\ t.phase[Relay] = "dialing"
<1>1. CASE s.routes = {}
  <2>1. t = DialRelay(s)
    BY <1>1 DEF Race
  <2> QED BY <2>1, DialRelayIs DEF Attempts
<1>2. CASE s.routes # {}
  <2>1. PICK u : u = ProbeDirect(s, FALSE)
    OBVIOUS
  <2>2. /\ Phone(u) /\ Attempts(u) /\ u.phase[Relay] = s.phase[Relay]
        /\ u.routes = s.routes /\ u.active = s.active /\ u.relay = s.relay
        /\ u.timers = s.timers /\ u.life = s.life /\ u.status = s.status
    BY <2>1, ProbeDirectIs
  <2>3. t = IF "headStart" \in u.timers \/ u.relay = Relay THEN u
            ELSE [u EXCEPT !.timers = @ \cup {"headStart"}]
    BY <1>2, <2>1 DEF Race
  <2>4. CASE t = u
    BY <2>2, <2>3, <2>4 DEF RelayHeld, Phone, Fields
  <2>5. CASE t = [u EXCEPT !.timers = @ \cup {"headStart"}]
    <3>1. Phone(t) /\ t.phase = u.phase /\ t.probes = u.probes /\ t.routes = u.routes
          /\ t.active = u.active /\ t.relay = u.relay /\ t.life = u.life /\ t.status = u.status
          /\ t.timers = u.timers \cup {"headStart"}
      BY <2>2, <2>5 DEF Phone, Fields, Timers
    <3> QED BY <2>2, <2>3, <3>1 DEF RelayHeld, Attempts
  <2> QED BY <2>3, <2>4, <2>5
<1> QED BY <1>1, <1>2

-----------------------------------------------------------------------------
\* The invariant of a phone that is open and has no direct link in use; gone
\* stands for the history variable.
Sound(s, gone) ==
    /\ Phone(s) /\ s.life = "open" /\ s.active \in {None, Relay} /\ Attempts(s) /\ RelayHeld(s)
    /\ s.phase[Relay] = "welcomed" => s.active = Relay
    /\ "retry" \in s.timers => s.relay = Relay
    /\ "verify" \in s.timers => s.active # None
    /\ s.active = Relay => s.relay = Relay
    /\ s.phase[Relay] = "down" => "retry" \in s.timers \/ gone
    /\ s.status \in {"replaced", "update"} => gone
    /\ s.active = None => "headStart" \in s.timers \/ s.relay = Relay
    /\ s.active = None /\ s.status = "connecting" => "stall" \in s.timers \/ gone
    /\ s.status = "online" => s.active # None
    /\ s.active # None => s.status \in {"online", "update"}

LEMMA LooseIs ==
    ASSUME IInv, rt.active \notin Routes, rt.life = "open"
    PROVE  Sound(rt, turned)
<1>1. Phone(rt) /\ rt.active \in {None, Relay}
  BY DEF IInv, TypeOK, Phone, Links
<1>2. Attempts(rt) /\ RelayHeld(rt)
  BY <1>1 DEF IInv, TypeOK, Phone, Shape, NoOrphan, Attempts, RelayHeld, Phases, Links
<1>3. rt.phase[Relay] = "welcomed" => rt.active = Relay
  BY DEF IInv, NoOrphan, Links
<1> QED BY <1>1, <1>2, <1>3 DEF IInv, Shape, NeverIdle, ConnectingEnds, Sound

LEMMA LooseInv ==
    ASSUME calm' \in BOOLEAN, good' \subseteq Links, turned' \in BOOLEAN,
           NEW s, Sound(s, turned'), rt' = s
    PROVE  IInv'
<1>1. Shape'
  BY DEF Shape, Attempts, Sound
<1>2. NoOrphan'
  BY DEF NoOrphan, Attempts, RelayHeld, Links, Sound
<1>3. DirectIsAlone'
  BY DEF DirectIsAlone, Sound
<1>4. NeverIdle' /\ ConnectingEnds'
  <2>1. s.phase[Relay] \in Phases
    BY DEF Sound, Phone, Links
  <2> QED BY <2>1 DEF NeverIdle, ConnectingEnds, Sound, RelayHeld, Live
<1> QED BY <1>1, <1>2, <1>3, <1>4 DEF IInv, TypeOK, Sound

LEMMA ProbeSound ==
    ASSUME NEW s, NEW gone, Sound(s, gone), NEW a \in BOOLEAN, NEW t, t = ProbeDirect(s, a),
           good \subseteq Links
    PROVE  Sound(t, gone)
<1>1. Phone(s) /\ s.life = "open" /\ Attempts(s)
  BY DEF Sound
<1>2. /\ Phone(t) /\ Attempts(t) /\ t.phase[Relay] = s.phase[Relay]
      /\ t.active = s.active /\ t.relay = s.relay
      /\ t.timers = s.timers /\ t.life = s.life /\ t.status = s.status
  BY <1>1, ProbeDirectIs
<1> QED BY <1>2 DEF Sound, RelayHeld

LEMMA DialRelaySound ==
    ASSUME NEW s, NEW gone, Phone(s), s.life = "open", s.active \in {None, Relay}, Attempts(s),
           RelayHeld(s), s.phase[Relay] = "welcomed" => s.active = Relay,
           "retry" \in s.timers => s.relay = Relay, "verify" \in s.timers => s.active # None,
           s.active = Relay => s.relay = Relay,
           s.phase[Relay] = "down" => "retry" \in s.timers \/ gone,
           s.status \in {"replaced", "update"} => gone,
           s.active = None /\ s.status = "connecting" => "stall" \in s.timers \/ gone,
           s.status = "online" => s.active # None,
           s.active # None => s.status \in {"online", "update"},
           NEW t, t = DialRelay(s), good \subseteq Links
    PROVE  Sound(t, gone)
<1>1. /\ Phone(t) /\ RelayHeld(t) /\ t.relay = Relay
      /\ t.phase[Relay] = IF s.relay = Relay THEN s.phase[Relay] ELSE "dialing"
      /\ \A r \in Routes : t.phase[r] = s.phase[r]
      /\ t.routes = s.routes /\ t.active = s.active /\ t.probes = s.probes
      /\ t.timers = s.timers /\ t.life = s.life /\ t.status = s.status
  BY DialRelayIs
<1>2. Attempts(t)
  BY <1>1 DEF Attempts
<1> QED BY <1>1, <1>2 DEF Sound, Live, Phases

LEMMA FailedSound ==
    ASSUME NEW s, NEW gone, Sound(s, gone), NEW r \in Routes, NEW t, t = Failed(s, r),
           good \subseteq Links
    PROVE  Sound(t, gone)
<1>1. CASE r \notin s.probes
  BY <1>1 DEF Failed
<1>2. CASE r \in s.probes
  <2>1. PICK u : u = [s EXCEPT !.probes = @ \ {r}]
    OBVIOUS
  <2>2. /\ Phone(u) /\ u.probes = s.probes \ {r} /\ u.phase = s.phase /\ u.active = s.active
        /\ u.relay = s.relay /\ u.timers = s.timers /\ u.life = s.life /\ u.status = s.status
    BY <2>1 DEF Sound, Phone, Fields
  <2>3. PICK ls \in SUBSET Links : ls = {r}
    BY DEF Links
  <2>4. PICK v : v = CloseLinks(u, ls)
    OBVIOUS
  <2>5. /\ Phone(v)
        /\ v.phase = [l \in Links |-> IF l \in ls THEN "none" ELSE u.phase[l]]
        /\ v.active = u.active /\ v.relay = u.relay
        /\ v.probes = u.probes /\ v.life = u.life /\ v.status = u.status
        /\ v.timers = IF Relay \in ls THEN u.timers \ {"retry"} ELSE u.timers
    BY SMTT(30), <2>2, <2>4, CloseLinksIs
  <2>6. v.timers = s.timers /\ v.phase[Relay] = s.phase[Relay]
    BY <2>2, <2>3, <2>5 DEF Links
  <2>7. Attempts(v)
    BY <2>2, <2>3, <2>5 DEF Sound, Attempts, Links
  <2>8. Sound(v, gone)
    BY <2>2, <2>5, <2>6, <2>7 DEF Sound, RelayHeld
  <2>9. t = IF v.probes = {} /\ "headStart" \in v.timers
            THEN DialRelay([v EXCEPT !.timers = @ \ {"headStart"}]) ELSE v
    BY <1>2, <2>1, <2>3, <2>4 DEF Failed
  <2>10. CASE t = DialRelay([v EXCEPT !.timers = @ \ {"headStart"}])
    <3>1. PICK w : w = [v EXCEPT !.timers = @ \ {"headStart"}]
      OBVIOUS
    <3>2. /\ Phone(w) /\ w.probes = v.probes /\ w.phase = v.phase /\ w.active = v.active
          /\ w.relay = v.relay /\ w.timers = v.timers \ {"headStart"} /\ w.life = v.life
          /\ w.status = v.status
      BY <2>5, <3>1 DEF Phone, Fields
    <3>3. Attempts(w) /\ RelayHeld(w)
      BY <2>8, <3>2 DEF Sound, Attempts, RelayHeld
    <3>4. /\ w.life = "open" /\ w.active \in {None, Relay}
          /\ w.phase[Relay] = "welcomed" => w.active = Relay
          /\ "retry" \in w.timers => w.relay = Relay
          /\ "verify" \in w.timers => w.active # None
          /\ w.active = Relay => w.relay = Relay
          /\ w.phase[Relay] = "down" => "retry" \in w.timers \/ gone
          /\ w.status \in {"replaced", "update"} => gone
          /\ w.active = None /\ w.status = "connecting" => "stall" \in w.timers \/ gone
          /\ w.status = "online" => w.active # None
          /\ w.active # None => w.status \in {"online", "update"}
      BY <2>8, <3>2 DEF Sound
    <3>5. t = DialRelay(w)
      BY <2>10, <3>1
    <3> QED BY <3>2, <3>3, <3>4, <3>5, DialRelaySound
  <2> QED BY <2>8, <2>9, <2>10
<1> QED BY <1>1, <1>2

LEMMA InitInv == Init => IInv
<1> SUFFICES ASSUME Init PROVE IInv
  OBVIOUS
<1>1. /\ rt.routes = {} /\ rt.active = None /\ rt.relay = None /\ rt.probes = {} /\ rt.timers = {}
      /\ rt.life = "closed" /\ rt.phase = [l \in Links |-> "none"] /\ rt.mute = {}
      /\ rt.attached = {} /\ rt.status = "connecting" /\ DOMAIN rt = Fields
  BY DEF Init, Nothing, Fields
<1>2. \A l \in Links : rt.phase[l] = "none"
  BY <1>1
<1>3. TypeOK
  BY <1>1 DEF TypeOK, Phone, Statuses, Phases, Init
<1>4. Shape /\ NoOrphan /\ DirectIsAlone /\ NeverIdle /\ ConnectingEnds
  BY <1>1, <1>2 DEF Shape, NoOrphan, DirectIsAlone, NeverIdle, ConnectingEnds, Links
<1> QED BY <1>3, <1>4 DEF IInv

\* A new transport, and a closed one: nothing is left.
LEMMA TeardownIs ==
    ASSUME NEW s, Phone(s), NEW t, t = Teardown(s)
    PROVE  /\ Phone(t) /\ t.routes = s.routes /\ t.life = s.life /\ t.status = s.status
           /\ t.active = None /\ t.relay = None /\ t.probes = {} /\ t.timers = {}
           /\ \A l \in Links : t.phase[l] = "none"
<1> PICK ls \in SUBSET Links : ls = Links
  OBVIOUS
<1>1. PICK u : u = CloseLinks(s, ls)
  OBVIOUS
<1>2. /\ Phone(u)
      /\ u.phase = [l \in Links |-> IF l \in ls THEN "none" ELSE s.phase[l]]
      /\ u.routes = s.routes /\ u.active = s.active /\ u.relay = s.relay
      /\ u.probes = s.probes /\ u.life = s.life /\ u.status = s.status
      /\ u.timers = IF Relay \in ls THEN s.timers \ {"retry"} ELSE s.timers
  BY <1>1, CloseLinksIs
<1>3. t = [u EXCEPT !.timers = {}, !.probes = {}, !.active = None, !.relay = None]
  BY <1>1 DEF Teardown
<1>4. /\ t.routes = u.routes /\ t.life = u.life /\ t.status = u.status /\ t.phase = u.phase
      /\ t.mute = u.mute /\ t.attached = u.attached /\ DOMAIN t = Fields
      /\ t.active = None /\ t.relay = None /\ t.probes = {} /\ t.timers = {}
  BY <1>2, <1>3 DEF Phone, Fields
<1>5. Phone(t)
  BY <1>2, <1>4 DEF Phone
<1>6. \A l \in Links : t.phase[l] = "none"
  BY <1>2, <1>4
<1> QED BY <1>2, <1>4, <1>5, <1>6

LEMMA CloseStep ==
    ASSUME IInv, Close
    PROVE  IInv'
<1>1. PICK u : u = Teardown(rt)
  OBVIOUS
<1>2. Phone(rt)
  BY DEF IInv, TypeOK
<1>3. /\ Phone(u) /\ u.active = None /\ u.relay = None /\ u.probes = {} /\ u.timers = {}
      /\ \A l \in Links : u.phase[l] = "none"
      /\ u.status = rt.status
  BY <1>1, <1>2, TeardownIs
<1>4. rt' = [u EXCEPT !.life = "closed"] /\ calm' \in BOOLEAN /\ good' \subseteq Links /\ turned' \in BOOLEAN
  BY <1>1 DEF Close, IInv, TypeOK, world
<1>5. /\ Phone(rt') /\ rt'.life = "closed" /\ rt'.active = None /\ rt'.relay = None
      /\ rt'.probes = {} /\ rt'.timers = {}
      /\ \A l \in Links : rt'.phase[l] = "none"
      /\ rt'.status = rt.status
  BY <1>3, <1>4 DEF Phone, Fields
<1>6. rt'.status \in {"replaced", "update"} => turned'
  BY <1>5 DEF IInv, Shape, Close
<1>7. Shape' /\ NoOrphan' /\ DirectIsAlone' /\ NeverIdle' /\ ConnectingEnds'
  BY <1>5, <1>6 DEF Shape, NoOrphan, DirectIsAlone, NeverIdle, ConnectingEnds, Links
<1> QED BY <1>4, <1>5, <1>7 DEF IInv, TypeOK

\* A step that leaves everything but what sockets answer and which timers run.
LEMMA SmallSteps ==
    ASSUME IInv, CheckQuiet \/ StallFires \/ Settle
    PROVE  IInv'
<1> USE DEF IInv, TypeOK, Phone, Fields, Shape, NoOrphan, DirectIsAlone, NeverIdle, ConnectingEnds,
   Links, Live, Phases, Timers, Statuses, world
<1>1. CASE CheckQuiet
  BY <1>1, SMTT(60) DEF CheckQuiet
<1>2. CASE StallFires
  BY <1>2, SMTT(60) DEF StallFires, EmitAbsent
<1>3. CASE Settle
  BY <1>3, SMTT(60) DEF Settle
<1> QED BY <1>1, <1>2, <1>3

\* One socket moves on, from one phase the daemon has not answered in to another.
LEMMA PhaseMoves ==
    ASSUME IInv, NEW l \in Links, NEW p \in {"asking", "hello", "refused", "open"},
           p = "open" => l = Relay, rt.phase[l] \in Live, rt.active = l => l = Relay,
           NEW u, u = SetPhase(rt, {l}, p),
           DOMAIN rt' = Fields, rt'.routes = u.routes, rt'.active = u.active, rt'.relay = u.relay,
           rt'.probes = u.probes, rt'.timers \in {u.timers, u.timers \ {"verify"}},
           rt'.life = u.life, rt'.phase = u.phase, rt'.mute = u.mute,
           rt'.attached \subseteq u.attached, rt'.status \in {u.status, "update"},
           calm' = calm, good' = good, turned' \in BOOLEAN, turned => turned',
           rt'.status = u.status \/ turned'
    PROVE  IInv'
<1>1. /\ u.routes = rt.routes /\ u.active = rt.active /\ u.relay = rt.relay
      /\ u.probes = rt.probes /\ u.timers = rt.timers /\ u.life = rt.life
      /\ u.mute = rt.mute /\ u.attached = rt.attached /\ u.status = rt.status
      /\ u.phase = [k \in Links |-> IF k \in {l} THEN p ELSE rt.phase[k]]
  BY DEF SetPhase, IInv, TypeOK, Phone, Fields
<1>2. TypeOK'
  <2>1. rt'.status \in Statuses /\ rt'.timers \subseteq Timers /\ rt'.attached \subseteq Links
    BY <1>1 DEF IInv, TypeOK, Phone, Statuses
  <2>2. rt'.phase \in [Links -> Phases]
    BY <1>1 DEF IInv, TypeOK, Phone, Phases
  <2> QED BY <1>1, <2>1, <2>2 DEF IInv, TypeOK, Phone
<1>3. Shape'
  BY <1>1 DEF IInv, Shape, Links
<1>4. NoOrphan'
  BY <1>1 DEF IInv, NoOrphan, Links, Live
<1>5. DirectIsAlone'
  BY SMTT(30), <1>1 DEF IInv, DirectIsAlone, Links
<1>6. NeverIdle'
  BY <1>1 DEF IInv, NeverIdle, Links, Live, Phases
<1>7. ConnectingEnds'
  BY <1>1 DEF IInv, ConnectingEnds
<1> QED BY <1>2, <1>3, <1>4, <1>5, <1>6, <1>7 DEF IInv

LEMMA LinkSteps ==
    ASSUME IInv, NEW l \in Links, DaemonPresent \/ Opened(l) \/ Accepted(l) \/ Incompatible(l)
    PROVE  IInv'
<1>1. /\ DOMAIN rt = Fields /\ turned \in BOOLEAN /\ Relay \in Links
      /\ \A k \in Links : rt.active = k /\ rt.phase[k] # "welcomed" => k = Relay
  BY DEF IInv, TypeOK, Phone, DirectIsAlone, Links
<1>2. CASE DaemonPresent
  <2>1. PICK u : u = SetPhase(rt, {Relay}, "asking")
    OBVIOUS
  <2>2. /\ rt' = u /\ rt.phase[Relay] \in Live /\ DOMAIN u = Fields
        /\ calm' = calm /\ good' = good /\ turned' = turned
    BY <1>1, <1>2, <2>1 DEF DaemonPresent, Hears, world, Fields, SetPhase
  <2> QED BY <1>1, <2>1, <2>2, PhaseMoves
<1>3. CASE Opened(l)
  <2>1. PICK p \in {"open", "asking"} : p = IF l = Relay THEN "open" ELSE "asking"
    OBVIOUS
  <2>2. PICK u : u = SetPhase(rt, {l}, p)
    OBVIOUS
  <2>3. /\ rt' = u /\ rt.phase[l] \in Live /\ rt.phase[l] = "dialing" /\ DOMAIN u = Fields
        /\ calm' = calm /\ good' = good /\ turned' = turned
    BY <1>1, <1>3, <2>1, <2>2 DEF Opened, Hears, world, Fields, SetPhase
  <2> QED BY <1>1, <2>1, <2>2, <2>3, PhaseMoves
<1>4. CASE Accepted(l)
  <2>1. PICK u : u = SetPhase(rt, {l}, "hello")
    OBVIOUS
  <2>2. /\ rt' = [u EXCEPT !.attached = @ \ {l}] /\ rt.phase[l] \in Live /\ rt.phase[l] = "asking"
        /\ DOMAIN u = Fields /\ calm' = calm /\ good' = good /\ turned' = turned
    BY <1>1, <1>4, <2>1 DEF Accepted, Hears, world, Fields, SetPhase
  <2>3. /\ DOMAIN rt' = Fields /\ rt'.routes = u.routes /\ rt'.active = u.active /\ rt'.relay = u.relay
        /\ rt'.probes = u.probes /\ rt'.timers = u.timers /\ rt'.life = u.life /\ rt'.phase = u.phase
        /\ rt'.mute = u.mute /\ rt'.attached \subseteq u.attached /\ rt'.status = u.status
    BY <2>2 DEF Fields
  <2> QED BY ZenonT(60), <1>1, <2>1, <2>2, <2>3, PhaseMoves
<1>5. CASE Incompatible(l)
  <2>1. PICK u : u = SetPhase(rt, {l}, "refused")
    OBVIOUS
  <2>2. /\ rt' = [(IF rt.active = l THEN Alive(u) ELSE u) EXCEPT !.status = "update"]
        /\ rt.phase[l] \in Live /\ rt.phase[l] = "hello"
        /\ DOMAIN u = Fields /\ calm' = calm /\ good' = good /\ turned' = TRUE
    BY <1>1, <1>5, <2>1 DEF Incompatible, Hears, world, Fields, SetPhase
  <2>3. /\ DOMAIN rt' = Fields /\ rt'.routes = u.routes /\ rt'.active = u.active /\ rt'.relay = u.relay
        /\ rt'.probes = u.probes /\ rt'.timers \in {u.timers, u.timers \ {"verify"}}
        /\ rt'.life = u.life /\ rt'.phase = u.phase
        /\ rt'.mute = u.mute /\ rt'.attached \subseteq u.attached /\ rt'.status = "update"
    BY <2>2 DEF Fields, Alive
  <2> QED BY ZenonT(60), <1>1, <2>1, <2>2, <2>3, PhaseMoves
<1> QED BY <1>2, <1>3, <1>4, <1>5

LEMMA HeardStep ==
    ASSUME IInv, NEW l \in Links, Heard(l)
    PROVE  IInv'
BY DEF Heard, Alive, IInv, TypeOK, Phone, Fields, Shape, NoOrphan, DirectIsAlone, NeverIdle,
   ConnectingEnds, world

-----------------------------------------------------------------------------
(* The steps after which no direct link is in use. *)

LEMMA UnseatIs ==
    ASSUME NEW s, Phone(s), s.life = "open", NEW t, t = Unseat(s)
    PROVE  /\ Phone(t) /\ t.active = None /\ t.timers = (s.timers \ {"verify"}) \cup {"stall"}
           /\ t.routes = s.routes /\ t.relay = s.relay /\ t.probes = s.probes
           /\ t.life = s.life /\ t.phase = s.phase /\ t.status = s.status
<1>1. PICK u : u = [s EXCEPT !.timers = @ \ {"verify"}, !.active = None]
  OBVIOUS
<1>2. /\ Phone(u) /\ u.active = None /\ u.timers = s.timers \ {"verify"}
      /\ u.routes = s.routes /\ u.relay = s.relay /\ u.probes = s.probes
      /\ u.life = s.life /\ u.phase = s.phase /\ u.status = s.status
  BY <1>1 DEF Phone, Fields
<1>3. t = [u EXCEPT !.timers = @ \cup {"stall"}]
  BY <1>1, <1>2 DEF Unseat, ArmStall
<1> QED BY <1>2, <1>3 DEF Phone, Fields, Timers

LEMMA ToldIs ==
    ASSUME NEW s, Phone(s), s.life = "open", NEW code \in Codes, NEW t, t = EmitClose(s, code)
    PROVE  /\ Phone(t) /\ t.status \in {"offline", "replaced", "connecting"}
           /\ t.status = "replaced" => code = "replaced"
           /\ t.active = s.active /\ t.timers = s.timers
           /\ t.routes = s.routes /\ t.relay = s.relay /\ t.probes = s.probes
           /\ t.life = s.life /\ t.phase = s.phase
<1>1. /\ StatusAfterClose(s.status, code) \in {"offline", "replaced", "connecting"}
      /\ StatusAfterClose(s.status, code) = "replaced" => code = "replaced"
  BY DEF StatusAfterClose, Codes
<1> QED BY <1>1 DEF EmitClose, Phone, Fields, Statuses

LEMMA ReprobeStep ==
    ASSUME IInv, Reprobe
    PROVE  IInv'
<1>1. Sound(rt, turned) /\ good \subseteq Links
  BY LooseIs DEF Reprobe, IInv, TypeOK
<1>2. PICK t : t = ProbeDirect(rt, FALSE)
  OBVIOUS
<1>3. Sound(t, turned)
  BY <1>1, <1>2, ProbeSound
<1>4. rt' = t /\ calm' \in BOOLEAN /\ good' \subseteq Links /\ turned' = turned /\ turned' \in BOOLEAN
  BY <1>2 DEF Reprobe, IInv, TypeOK, world
<1> QED BY <1>3, <1>4, LooseInv

LEMMA HeadStartStep ==
    ASSUME IInv, HeadStartFires
    PROVE  IInv'
<1>1. rt.life = "open" /\ rt.active \notin Routes /\ good \subseteq Links
  BY DEF HeadStartFires, IInv, TypeOK, Phone, Shape, DirectIsAlone
<1>2. Sound(rt, turned)
  BY <1>1, LooseIs
<1>3. PICK u : u = [rt EXCEPT !.timers = @ \ {"headStart"}]
  OBVIOUS
<1>4. /\ Phone(u) /\ u.active = rt.active /\ u.relay = rt.relay /\ u.probes = rt.probes
      /\ u.timers = rt.timers \ {"headStart"} /\ u.life = rt.life /\ u.phase = rt.phase
      /\ u.status = rt.status
  BY <1>3 DEF IInv, TypeOK, Phone, Fields
<1>5. Attempts(u) /\ RelayHeld(u)
  BY <1>2, <1>4 DEF Sound, Attempts, RelayHeld
<1>6. PICK t : t = DialRelay(u)
  OBVIOUS
<1>7. /\ u.life = "open" /\ u.active \in {None, Relay}
      /\ u.phase[Relay] = "welcomed" => u.active = Relay
      /\ "retry" \in u.timers => u.relay = Relay
      /\ "verify" \in u.timers => u.active # None
      /\ u.active = Relay => u.relay = Relay
      /\ u.phase[Relay] = "down" => "retry" \in u.timers \/ turned
      /\ u.status \in {"replaced", "update"} => turned
      /\ u.active = None /\ u.status = "connecting" => "stall" \in u.timers \/ turned
      /\ u.status = "online" => u.active # None
      /\ u.active # None => u.status \in {"online", "update"}
  BY <1>2, <1>4 DEF Sound
<1>8. Sound(t, turned)
  BY <1>1, <1>4, <1>5, <1>6, <1>7, DialRelaySound
<1>9. rt' = t /\ calm' \in BOOLEAN /\ good' \subseteq Links /\ turned' = turned /\ turned' \in BOOLEAN
  BY <1>3, <1>6 DEF HeadStartFires, IInv, TypeOK, world
<1> QED BY <1>8, <1>9, LooseInv

LEMMA ProbeTimesOutStep ==
    ASSUME IInv, NEW r \in Routes, ProbeTimesOut(r)
    PROVE  IInv'
<1>1. rt.life = "open" /\ rt.active \notin Routes /\ good \subseteq Links
  BY DEF ProbeTimesOut, IInv, TypeOK, Phone, Shape, DirectIsAlone
<1>2. PICK t : t = Failed(rt, r)
  OBVIOUS
<1>3. Sound(t, turned)
  BY <1>1, <1>2, LooseIs, FailedSound
<1>4. rt' = t /\ calm' \in BOOLEAN /\ good' \subseteq Links /\ turned' = turned /\ turned' \in BOOLEAN
  BY <1>2 DEF ProbeTimesOut, IInv, TypeOK, world
<1> QED BY <1>3, <1>4, LooseInv

LEMMA RetryStep ==
    ASSUME IInv, RetryFires
    PROVE  IInv'
<1>1. rt.life = "open" /\ rt.active \notin Routes /\ good \subseteq Links /\ rt.relay = Relay
  BY DEF RetryFires, IInv, TypeOK, Phone, Shape, DirectIsAlone, Links
<1>2. Sound(rt, turned)
  BY <1>1, LooseIs
<1>3. PICK u : u = [rt EXCEPT !.timers = @ \ {"retry"}]
  OBVIOUS
<1>4. /\ Phone(u) /\ u.active = rt.active /\ u.relay = rt.relay /\ u.probes = rt.probes
      /\ u.timers = rt.timers \ {"retry"} /\ u.life = rt.life /\ u.phase = rt.phase
      /\ u.status = rt.status
  BY <1>3 DEF IInv, TypeOK, Phone, Fields
<1>5. PICK ls \in SUBSET Links : ls = {Relay}
  BY DEF Links
<1>6. PICK t : t = Dial(u, ls)
  OBVIOUS
<1>7. /\ Phone(t)
      /\ t.phase = [l \in Links |-> IF l \in ls THEN "dialing" ELSE u.phase[l]]
      /\ t.routes = u.routes /\ t.active = u.active /\ t.relay = u.relay
      /\ t.probes = u.probes /\ t.timers = u.timers /\ t.life = u.life
      /\ t.status = u.status
  BY <1>1, <1>4, <1>6, DialIs
<1>8. Sound(t, turned)
  <2>1. t.phase[Relay] = "dialing" /\ \A r \in Routes : t.phase[r] = rt.phase[r]
    BY <1>4, <1>5, <1>7 DEF Links
  <2>2. Attempts(t) /\ RelayHeld(t)
    BY <1>1, <1>2, <1>4, <1>7, <2>1 DEF Sound, Attempts, RelayHeld
  <2> QED BY <1>1, <1>2, <1>4, <1>7, <2>1, <2>2 DEF Sound
<1>9. rt' = t /\ calm' \in BOOLEAN /\ good' \subseteq Links /\ turned' = turned /\ turned' \in BOOLEAN
  BY <1>3, <1>5, <1>6 DEF RetryFires, IInv, TypeOK, world
<1> QED BY <1>8, <1>9, LooseInv

\* A relay link that is no longer in use, or never was.
LEMMA RelaySound ==
    ASSUME NEW w, NEW gone, Phone(w), w.life = "open", w.active = None, w.relay = Relay, Attempts(w),
           w.phase[Relay] \in {"open", "down", "dialing"},
           w.phase[Relay] = "down" => "retry" \in w.timers \/ gone,
           "verify" \notin w.timers, w.status \in {"offline", "replaced", "connecting"},
           w.status = "connecting" => "stall" \in w.timers \/ gone, w.status = "replaced" => gone
    PROVE  Sound(w, gone)
BY DEF Sound, RelayHeld

LEMMA DaemonAbsentStep ==
    ASSUME IInv, DaemonAbsent
    PROVE  IInv'
<1>1. /\ Phone(rt) /\ good \subseteq Links /\ rt.phase[Relay] # "none" /\ rt.relay = Relay
      /\ rt.active \notin Routes /\ rt.life = "open"
  BY DEF DaemonAbsent, Hears, Live, IInv, TypeOK, Phone, NoOrphan, DirectIsAlone, Shape
<1>2. Sound(rt, turned)
  BY <1>1, LooseIs
<1>3. PICK u : u = SetPhase(rt, {Relay}, "open")
  OBVIOUS
<1>4. /\ Phone(u) /\ u.active = rt.active /\ u.relay = rt.relay /\ u.probes = rt.probes
      /\ u.timers = rt.timers /\ u.life = rt.life /\ u.status = rt.status
      /\ u.phase = [l \in Links |-> IF l \in {Relay} THEN "open" ELSE rt.phase[l]]
  BY <1>1, <1>3 DEF SetPhase, Phone, Fields, Phases
<1>5. PICK v : v = IF rt.active = Relay THEN Unseat(u) ELSE u
  OBVIOUS
<1>6. /\ Phone(v) /\ v.active = None /\ v.relay = Relay /\ v.probes = rt.probes
      /\ v.life = "open" /\ v.phase = u.phase /\ "verify" \notin v.timers
  <2>1. CASE rt.active = Relay
    <3>1. v = Unseat(u)
      BY <1>5, <2>1
    <3> QED BY <1>1, <1>4, <3>1, UnseatIs
  <2>2. CASE rt.active = None
    <3>1. v = u
      BY <1>5, <2>2
    <3> QED BY <1>1, <1>2, <1>4, <2>2, <3>1 DEF Sound
  <2> QED BY <1>2, <2>1, <2>2 DEF Sound
<1>7. PICK w : w = EmitAbsent(v)
  OBVIOUS
<1>8. /\ Phone(w) /\ w.active = None /\ w.relay = Relay /\ w.probes = rt.probes
      /\ w.life = "open" /\ w.phase = u.phase /\ "verify" \notin w.timers /\ w.status = "offline"
  BY <1>6, <1>7 DEF EmitAbsent, Phone, Fields, Statuses
<1>9. Attempts(w) /\ w.phase[Relay] = "open"
  BY <1>2, <1>4, <1>8 DEF Sound, Attempts, Links
<1>10. Sound(w, turned)
  BY <1>8, <1>9, RelaySound
<1>11. PICK t : t = ProbeDirect(w, FALSE)
  OBVIOUS
<1>12. Sound(t, turned)
  BY <1>1, <1>10, <1>11, ProbeSound
<1>13. rt' = t /\ calm' \in BOOLEAN /\ good' \subseteq Links /\ turned' = turned /\ turned' \in BOOLEAN
  BY <1>1, <1>3, <1>5, <1>7, <1>11 DEF DaemonAbsent, IInv, TypeOK, world
<1> QED BY <1>12, <1>13, LooseInv

LEMMA RelayClosedStep ==
    ASSUME IInv, NEW code \in Codes, RelayClosed(code)
    PROVE  IInv'
<1>1. /\ Phone(rt) /\ good \subseteq Links /\ rt.phase[Relay] # "none" /\ rt.relay = Relay
      /\ rt.active \notin Routes /\ rt.life = "open" /\ turned \in BOOLEAN
  BY DEF RelayClosed, MayDrop, Live, IInv, TypeOK, Phone, NoOrphan, DirectIsAlone, Shape
<1>2. Sound(rt, turned)
  BY <1>1, LooseIs
<1>3. PICK u : u = SetPhase(rt, {Relay}, "down")
  OBVIOUS
<1>4. /\ Phone(u) /\ u.active = rt.active /\ u.relay = rt.relay /\ u.probes = rt.probes
      /\ u.timers = rt.timers /\ u.life = rt.life /\ u.status = rt.status
      /\ u.phase = [l \in Links |-> IF l \in {Relay} THEN "down" ELSE rt.phase[l]]
  BY <1>1, <1>3 DEF SetPhase, Phone, Fields, Phases
<1>5. u.phase[Relay] = "down" /\ \A r \in Routes : u.phase[r] = rt.phase[r]
  BY <1>4 DEF Links
<1>6. Attempts(u) /\ RelayHeld(u)
  BY <1>1, <1>2, <1>4, <1>5 DEF Sound, Attempts, RelayHeld
<1>7. PICK w : w = IF rt.active = Relay THEN Lost(u, code) ELSE EmitClose(u, code)
  OBVIOUS
<1>8. /\ Phone(w) /\ Attempts(w) /\ w.active = None /\ w.relay = Relay /\ w.life = "open"
      /\ w.phase[Relay] = "down" /\ "verify" \notin w.timers
      /\ w.status \in {"offline", "replaced", "connecting"}
      /\ w.status = "connecting" => "stall" \in w.timers \/ turned
      /\ w.status = "replaced" => code = "replaced"
  <2>1. CASE rt.active = Relay
    <3>1. PICK x : x = Unseat(u)
      OBVIOUS
    <3>2. /\ Phone(x) /\ x.active = None /\ x.timers = (u.timers \ {"verify"}) \cup {"stall"}
          /\ x.routes = u.routes /\ x.relay = u.relay /\ x.probes = u.probes
          /\ x.life = u.life /\ x.phase = u.phase /\ x.status = u.status
      BY <1>1, <1>4, <3>1, UnseatIs
    <3>3. PICK y : y = EmitClose(x, code)
      OBVIOUS
    <3>4. /\ Phone(y) /\ y.status \in {"offline", "replaced", "connecting"}
          /\ y.status = "replaced" => code = "replaced"
          /\ y.active = x.active /\ y.timers = x.timers
          /\ y.routes = x.routes /\ y.relay = x.relay /\ y.probes = x.probes
          /\ y.life = x.life /\ y.phase = x.phase
      BY <1>1, <1>4, <3>2, <3>3, ToldIs
    <3> PICK a \in BOOLEAN : a = FALSE
      OBVIOUS
    <3>5. w = ProbeDirect(y, a)
      BY <1>4, <1>7, <2>1, <3>1, <3>3 DEF Lost
    <3>6. Phone(y) /\ Attempts(y) /\ y.life = "open"
      BY <1>1, <1>4, <1>6, <3>2, <3>4 DEF Attempts
    <3>7. /\ Phone(w) /\ Attempts(w) /\ y.routes \subseteq w.probes
          /\ w.phase[Relay] = y.phase[Relay]
          /\ w.routes = y.routes /\ w.active = y.active /\ w.relay = y.relay
          /\ w.timers = y.timers /\ w.life = y.life /\ w.status = y.status
      BY <1>1, <3>5, <3>6, ProbeDirectIs
    <3> QED BY <1>1, <1>4, <1>5, <3>2, <3>4, <3>6, <3>7
  <2>2. CASE rt.active = None
    <3>1. w = EmitClose(u, code)
      BY <1>7, <2>2
    <3>2. /\ Phone(w) /\ w.status \in {"offline", "replaced", "connecting"}
          /\ w.status = "replaced" => code = "replaced"
          /\ w.active = u.active /\ w.timers = u.timers
          /\ w.routes = u.routes /\ w.relay = u.relay /\ w.probes = u.probes
          /\ w.life = u.life /\ w.phase = u.phase
      BY <1>1, <1>4, <3>1, ToldIs
    <3>3. Attempts(w) /\ "verify" \notin w.timers
      BY <1>2, <1>4, <1>6, <2>2, <3>2 DEF Attempts, Sound
    <3>4. w.status = "connecting" => "stall" \in w.timers \/ turned
      <4>1. SUFFICES ASSUME w.status = "connecting" PROVE "stall" \in rt.timers \/ turned
        BY <1>4, <3>2
      <4>2. w.status = StatusAfterClose(rt.status, code)
        BY <1>4, <3>1 DEF EmitClose, Phone, Fields
      <4>3. rt.status \notin {"offline", "online"} /\ rt.status \in Statuses
        BY <1>1, <1>2, <2>2, <4>1, <4>2 DEF StatusAfterClose, Sound, Codes, Phone
      <4> QED BY <1>2, <2>2, <4>3 DEF Sound, Statuses
    <3> QED BY <1>1, <1>4, <1>5, <2>2, <3>2, <3>3, <3>4
  <2> QED BY <1>2, <2>1, <2>2 DEF Sound
<1>9. /\ rt' = IF code = "replaced" THEN w ELSE [w EXCEPT !.timers = @ \cup {"retry"}]
      /\ turned' = (turned \/ code = "replaced") /\ calm' \in BOOLEAN /\ good' \subseteq Links
  BY <1>1, <1>2, <1>3, <1>7 DEF RelayClosed, IInv, TypeOK, world, Sound
<1>10. CASE code = "replaced"
  <2>1. Sound(w, turned')
    BY <1>8, <1>9, <1>10, RelaySound
  <2> QED BY <1>9, <1>10, <2>1, LooseInv
<1>11. CASE code # "replaced"
  <2>1. PICK t : t = [w EXCEPT !.timers = @ \cup {"retry"}]
    OBVIOUS
  <2>2. /\ Phone(t) /\ t.phase = w.phase /\ t.probes = w.probes /\ t.active = None
        /\ t.relay = Relay /\ t.life = "open" /\ t.timers = w.timers \cup {"retry"}
        /\ t.status = w.status
    BY <1>8, <2>1 DEF Phone, Fields, Timers
  <2>3. Attempts(t)
    BY <1>8, <2>2 DEF Attempts
  <2>4. Sound(t, turned')
    BY <1>8, <1>9, <2>2, <2>3, RelaySound
  <2> QED BY <1>1, <1>9, <1>11, <2>1, <2>4, LooseInv
<1> QED BY <1>10, <1>11

\* Losing the direct link in use: it is let go and the race begins again.
LEMMA LostDirectSound ==
    ASSUME IInv, rt.active \in Routes, NEW s, Phone(s), s.active = rt.active, s.relay = rt.relay,
           s.probes = rt.probes, s.life = rt.life, s.phase = rt.phase,
           s.timers \subseteq rt.timers, NEW t, t = Lost(s, "dropped")
    PROVE  Sound(t, turned)
<1>1. /\ Phone(rt) /\ good \subseteq Links /\ rt.life = "open" /\ rt.relay = None /\ rt.probes = {}
      /\ \A r \in Routes : rt.phase[r] # "none" <=> rt.active = r
      /\ rt.phase[Relay] = "none" /\ "retry" \notin rt.timers /\ Relay # None
  <2>1. /\ Phone(rt) /\ good \subseteq Links /\ rt.relay = None /\ rt.probes = {} /\ Relay # None
        /\ None \notin Routes
    BY DEF IInv, TypeOK, DirectIsAlone
  <2>2. rt.life = "open" /\ "retry" \notin rt.timers
    BY <2>1 DEF IInv, Shape, Phone
  <2> QED BY <2>1, <2>2 DEF IInv, NoOrphan
<1>2. PICK x : x = Unseat(s)
  OBVIOUS
<1>3. /\ Phone(x) /\ x.active = None /\ x.timers = (s.timers \ {"verify"}) \cup {"stall"}
      /\ x.routes = s.routes /\ x.relay = s.relay /\ x.probes = s.probes
      /\ x.life = s.life /\ x.phase = s.phase /\ x.status = s.status
  BY <1>1, <1>2, UnseatIs
<1>4. PICK code \in Codes : code = "dropped"
  BY DEF Codes
<1> Phone(x) /\ x.life = "open"
  BY <1>1, <1>3
<1>5. PICK y : y = EmitClose(x, code)
  OBVIOUS
<1>6. /\ Phone(y) /\ y.status \in {"offline", "replaced", "connecting"}
      /\ y.status = "replaced" => code = "replaced"
      /\ y.active = x.active /\ y.timers = x.timers
      /\ y.routes = x.routes /\ y.relay = x.relay /\ y.probes = x.probes
      /\ y.life = x.life /\ y.phase = x.phase
  BY <1>5, ToldIs
<1>7. PICK ls \in SUBSET Links : ls = {rt.active}
  BY DEF Links
<1>8. PICK z : z = CloseLinks(y, ls)
  OBVIOUS
<1>9. /\ Phone(z)
      /\ z.phase = [l \in Links |-> IF l \in ls THEN "none" ELSE y.phase[l]]
      /\ z.routes = y.routes /\ z.active = y.active /\ z.relay = y.relay
      /\ z.probes = y.probes /\ z.life = y.life /\ z.status = y.status
      /\ z.timers = IF Relay \in ls THEN y.timers \ {"retry"} ELSE y.timers
  BY <1>6, <1>8, CloseLinksIs
<1>10. /\ \A r \in Routes : z.phase[r] = "none"
       /\ z.phase[Relay] = "none" /\ z.probes = {} /\ z.relay = None /\ z.active = None
       /\ z.life = "open" /\ "verify" \notin z.timers /\ "stall" \in z.timers /\ "retry" \notin z.timers
       /\ z.status \in {"offline", "connecting"}
  BY <1>1, <1>3, <1>4, <1>6, <1>7, <1>9 DEF Links
<1>11. Attempts(z) /\ RelayHeld(z)
  BY <1>1, <1>10 DEF Attempts, RelayHeld
<1>12. t = Race(z)
  BY <1>2, <1>4, <1>5, <1>7, <1>8 DEF Lost
<1>13. /\ Phone(t) /\ Attempts(t) /\ RelayHeld(t)
       /\ t.routes = z.routes /\ t.active = z.active /\ t.life = z.life /\ t.status = z.status
       /\ z.timers \subseteq t.timers /\ t.timers \subseteq z.timers \cup {"headStart"}
       /\ z.relay = Relay => t.relay = Relay /\ t.phase[Relay] = z.phase[Relay]
       /\ z.relay # Relay => \/ "headStart" \in t.timers /\ t.relay = z.relay /\ t.phase[Relay] = z.phase[Relay]
                             \/ t.relay = Relay /\ t.phase[Relay] = "dialing"
  BY <1>1, <1>9, <1>10, <1>11, <1>12, RaceIs
<1> QED BY <1>1, <1>10, <1>13 DEF Sound

LEMMA DirectClosedStep ==
    ASSUME IInv, NEW r \in Routes, DirectClosed(r)
    PROVE  IInv'
<1>1. /\ Phone(rt) /\ good \subseteq Links /\ turned' = turned /\ calm' = calm /\ good' = good
      /\ calm \in BOOLEAN /\ turned \in BOOLEAN /\ rt.phase[r] # "none"
  BY DEF DirectClosed, MayDrop, Live, IInv, TypeOK, world
<1>2. rt.life = "open"
  BY <1>1 DEF IInv, Shape, NoOrphan, TypeOK, Phone
<1>3. CASE rt.active = r
  <2>1. PICK t : t = Lost(rt, "dropped")
    OBVIOUS
  <2>2. Sound(t, turned)
    BY <1>1, <1>3, <2>1, LostDirectSound
  <2>3. rt' = t
    BY <1>3, <2>1 DEF DirectClosed
  <2> QED BY <1>1, <2>2, <2>3, LooseInv
<1>4. CASE rt.active # r
  <2>1. rt.active \notin Routes
    BY <1>1, <1>4 DEF IInv, NoOrphan, DirectIsAlone
  <2>2. PICK t : t = Failed(rt, r)
    OBVIOUS
  <2>3. Sound(t, turned)
    BY <1>1, <1>2, <2>1, <2>2, LooseIs, FailedSound
  <2>4. rt' = t
    BY <1>4, <2>2 DEF DirectClosed
  <2> QED BY <1>1, <2>3, <2>4, LooseInv
<1> QED BY <1>3, <1>4

LEMMA VerifyTimesOutStep ==
    ASSUME IInv, VerifyTimesOut
    PROVE  IInv'
<1>1. /\ Phone(rt) /\ good \subseteq Links /\ turned' = turned /\ calm' = calm /\ good' = good
      /\ calm \in BOOLEAN /\ turned \in BOOLEAN /\ "verify" \in rt.timers
  BY DEF VerifyTimesOut, IInv, TypeOK, world
<1>2. rt.life = "open" /\ rt.active \in Routes \cup {Relay}
  BY <1>1 DEF IInv, Shape, Phone, Links
<1>3. PICK s : s = [rt EXCEPT !.timers = @ \ {"verify"}]
  OBVIOUS
<1>4. /\ Phone(s) /\ s.active = rt.active /\ s.relay = rt.relay /\ s.probes = rt.probes
      /\ s.life = rt.life /\ s.phase = rt.phase /\ s.timers = rt.timers \ {"verify"}
  BY <1>1, <1>3 DEF Phone, Fields
<1>5. CASE rt.active \in Routes
  <2>1. PICK t : t = Lost(s, "dropped")
    OBVIOUS
  <2>2. s.timers \subseteq rt.timers
    BY <1>4
  <2>3. Sound(t, turned)
    BY <1>4, <1>5, <2>1, <2>2, LostDirectSound
  <2>4. rt' = t
    BY <1>3, <1>5, <2>1 DEF VerifyTimesOut
  <2> QED BY <1>1, <2>3, <2>4, LooseInv
<1>6. CASE rt.active = Relay
  <2>1. Sound(rt, turned) /\ rt.relay = Relay
    BY <1>2, <1>6, LooseIs DEF IInv, Shape
  <2>2. PICK x : x = Unseat(s)
    OBVIOUS
  <2>3. /\ Phone(x) /\ x.active = None /\ x.timers = (s.timers \ {"verify"}) \cup {"stall"}
        /\ x.routes = s.routes /\ x.relay = s.relay /\ x.probes = s.probes
        /\ x.life = s.life /\ x.phase = s.phase /\ x.status = s.status
    BY <1>2, <1>4, <2>2, UnseatIs
  <2>4. PICK code \in Codes : code = "dropped"
    BY DEF Codes
  <2>5. PICK y : y = EmitClose(x, code)
    OBVIOUS
  <2>6. /\ Phone(y) /\ y.status \in {"offline", "replaced", "connecting"}
        /\ y.status = "replaced" => code = "replaced"
        /\ y.active = x.active /\ y.timers = x.timers
        /\ y.routes = x.routes /\ y.relay = x.relay /\ y.probes = x.probes
        /\ y.life = x.life /\ y.phase = x.phase
    BY <1>2, <1>4, <2>3, <2>5, ToldIs
  <2>7. PICK ls \in SUBSET Links : ls = {Relay}
    BY DEF Links
  <2>8. PICK z : z = Dial(y, ls)
    OBVIOUS
  <2>9. /\ Phone(z)
        /\ z.phase = [l \in Links |-> IF l \in ls THEN "dialing" ELSE y.phase[l]]
        /\ z.routes = y.routes /\ z.active = y.active /\ z.relay = y.relay
        /\ z.probes = y.probes /\ z.timers = y.timers /\ z.life = y.life
        /\ z.status = y.status
    BY <1>1, <2>6, <2>8, DialIs
  <2>10. z.phase[Relay] = "dialing" /\ \A r \in Routes : z.phase[r] = rt.phase[r]
    BY <1>4, <2>3, <2>6, <2>7, <2>9 DEF Links
  <2>11. Attempts(z)
    BY <1>4, <2>1, <2>3, <2>6, <2>9, <2>10 DEF Attempts, Sound
  <2>12. Sound(z, turned)
    BY <1>2, <1>4, <2>1, <2>3, <2>4, <2>6, <2>9, <2>10, <2>11, RelaySound
  <2>13. PICK t : t = ProbeDirect(z, FALSE)
    OBVIOUS
  <2>14. Sound(t, turned)
    BY <1>1, <2>12, <2>13, ProbeSound
  <2>15. rt' = t
    BY <1>3, <1>6, <2>2, <2>4, <2>5, <2>7, <2>8, <2>13 DEF VerifyTimesOut
  <2> QED BY <1>1, <2>14, <2>15, LooseInv
<1> QED BY <1>2, <1>5, <1>6

LEMMA ConnectStep ==
    ASSUME IInv, NEW kept \in SUBSET Routes, Connect(kept)
    PROVE  IInv'
<1>1. /\ Phone(rt) /\ good \subseteq Links /\ turned' = FALSE /\ calm' = calm /\ good' = good
      /\ calm \in BOOLEAN /\ Relay # None
  BY DEF Connect, IInv, TypeOK, world
<1>2. PICK x : x = Teardown(rt)
  OBVIOUS
<1>3. /\ Phone(x) /\ x.routes = rt.routes /\ x.life = rt.life /\ x.status = rt.status
      /\ x.active = None /\ x.relay = None /\ x.probes = {} /\ x.timers = {}
      /\ \A l \in Links : x.phase[l] = "none"
  BY <1>1, <1>2, TeardownIs
<1>4. PICK y : y = [x EXCEPT !.life = "open", !.routes = kept, !.status = "connecting"]
  OBVIOUS
<1>5. /\ Phone(y) /\ y.life = "open" /\ y.status = "connecting" /\ y.phase = x.phase
      /\ y.active = None /\ y.relay = None /\ y.probes = {} /\ y.timers = {}
  BY <1>3, <1>4 DEF Phone, Fields, Statuses
<1>6. Attempts(y) /\ RelayHeld(y) /\ y.phase[Relay] = "none"
  BY <1>1, <1>3, <1>5 DEF Attempts, RelayHeld, Links
<1>7. PICK z : z = Race(y)
  OBVIOUS
<1>8. /\ Phone(z) /\ Attempts(z) /\ RelayHeld(z)
      /\ z.routes = y.routes /\ z.active = y.active /\ z.life = y.life /\ z.status = y.status
      /\ y.timers \subseteq z.timers /\ z.timers \subseteq y.timers \cup {"headStart"}
      /\ y.relay = Relay => z.relay = Relay /\ z.phase[Relay] = y.phase[Relay]
      /\ y.relay # Relay => \/ "headStart" \in z.timers /\ z.relay = y.relay /\ z.phase[Relay] = y.phase[Relay]
                            \/ z.relay = Relay /\ z.phase[Relay] = "dialing"
  BY <1>1, <1>5, <1>6, <1>7, RaceIs
<1>9. PICK t : t = [z EXCEPT !.timers = @ \cup {"stall"}]
  OBVIOUS
<1>10. /\ Phone(t) /\ t.phase = z.phase /\ t.probes = z.probes /\ t.active = None /\ t.relay = z.relay
       /\ t.life = "open" /\ t.status = "connecting" /\ t.timers = z.timers \cup {"stall"}
  BY <1>5, <1>8, <1>9 DEF Phone, Fields, Timers
<1>11. Attempts(t) /\ RelayHeld(t)
  BY <1>8, <1>10 DEF Attempts, RelayHeld
<1>12. Sound(t, FALSE)
  BY <1>1, <1>5, <1>6, <1>8, <1>10, <1>11 DEF Sound
<1>13. rt' = t
  BY <1>2, <1>4, <1>5, <1>7, <1>8, <1>9 DEF Connect, ArmStall
<1> QED BY <1>1, <1>12, <1>13, LooseInv

\* With a direct link in use, a step of the routes held or of the verify timer.
LEMMA DirectKept ==
    ASSUME IInv, rt.active \in Routes, DOMAIN rt' = Fields, rt'.routes \subseteq Routes,
           rt'.active = rt.active, rt'.relay = rt.relay, rt'.probes = rt.probes,
           rt'.timers \in {rt.timers \ {"verify"}, rt.timers \cup {"verify"}}, rt'.life = rt.life,
           rt'.phase = rt.phase, rt'.mute = rt.mute, rt'.attached = rt.attached,
           rt'.status = rt.status, calm' = calm, good' = good, turned' = turned
    PROVE  IInv'
<1>1. TypeOK'
  BY DEF IInv, TypeOK, Phone, Timers
<1>2. rt.active # None /\ rt.life # "closed"
  BY DEF IInv, Shape
<1>3. Shape'
  BY <1>2 DEF IInv, Shape
<1>4. NoOrphan' /\ DirectIsAlone'
  BY DEF IInv, NoOrphan, DirectIsAlone
<1>5. NeverIdle' /\ ConnectingEnds'
  BY <1>2 DEF IInv, NeverIdle, ConnectingEnds
<1> QED BY <1>1, <1>3, <1>4, <1>5 DEF IInv

LEMMA RecheckStep ==
    ASSUME IInv, Recheck
    PROVE  IInv'
<1>1. /\ Phone(rt) /\ good \subseteq Links /\ turned' = turned /\ calm' = calm /\ good' = good
      /\ calm \in BOOLEAN /\ turned \in BOOLEAN /\ rt.life = "open" /\ Relay # None /\ None \notin Routes
  BY DEF Recheck, IInv, TypeOK, world
<1>2. CASE rt.active \in Routes
  <2>1. rt' = [rt EXCEPT !.timers = @ \cup {"verify"}]
    BY <1>1, <1>2 DEF Recheck
  <2>2. /\ DOMAIN rt' = Fields /\ rt'.routes = rt.routes /\ rt'.active = rt.active
        /\ rt'.relay = rt.relay /\ rt'.probes = rt.probes /\ rt'.timers = rt.timers \cup {"verify"}
        /\ rt'.life = rt.life /\ rt'.phase = rt.phase /\ rt'.mute = rt.mute
        /\ rt'.attached = rt.attached /\ rt'.status = rt.status /\ rt.routes \subseteq Routes
    BY <1>1, <2>1 DEF Phone, Fields
  <2> QED BY <1>1, <1>2, <2>2, DirectKept
<1>3. CASE rt.active = Relay
  <2>1. Sound(rt, turned)
    BY <1>1, <1>3, LooseIs
  <2>2. PICK u : u = [rt EXCEPT !.timers = @ \cup {"verify"}]
    OBVIOUS
  <2>3. /\ Phone(u) /\ u.probes = rt.probes /\ u.active = rt.active /\ u.relay = rt.relay
        /\ u.timers = rt.timers \cup {"verify"} /\ u.life = rt.life /\ u.phase = rt.phase
        /\ u.status = rt.status
    BY <1>1, <2>2 DEF Phone, Fields, Timers
  <2>4. Attempts(u) /\ RelayHeld(u)
    BY <2>1, <2>3 DEF Sound, Attempts, RelayHeld
  <2>5. Sound(u, turned)
    BY <1>1, <1>3, <2>1, <2>3, <2>4 DEF Sound
  <2>6. PICK t : t = ProbeDirect(u, TRUE)
    OBVIOUS
  <2>7. Sound(t, turned)
    BY <1>1, <2>5, <2>6, ProbeSound
  <2>8. rt' = t
    BY <1>1, <1>3, <2>2, <2>6 DEF Recheck
  <2> QED BY <1>1, <2>7, <2>8, LooseInv
<1>4. CASE rt.active = None
  <2>1. Sound(rt, turned)
    BY <1>1, <1>4, LooseIs
  <2>2. PICK u : u = IF rt.status \in {"offline", "replaced"}
                     THEN [rt EXCEPT !.status = "connecting"] ELSE rt
    OBVIOUS
  <2>3. /\ Phone(u) /\ u.probes = rt.probes /\ u.active = None /\ u.relay = rt.relay
        /\ u.timers = rt.timers /\ u.life = "open" /\ u.phase = rt.phase
        /\ u.status \in {rt.status, "connecting"} /\ u.status # "replaced"
    BY <1>1, <1>4, <2>2 DEF Phone, Fields, Statuses
  <2>4. Attempts(u) /\ RelayHeld(u)
    BY <2>1, <2>3 DEF Sound, Attempts, RelayHeld
  <2>5. PICK v : v = IF rt.relay = Relay THEN Dial(u, {Relay}) ELSE DialRelay(u)
    OBVIOUS
  <2>6. /\ Phone(v) /\ v.probes = rt.probes /\ v.active = None /\ v.relay = Relay
        /\ v.timers = rt.timers /\ v.life = "open" /\ v.status = u.status
        /\ v.phase[Relay] = "dialing" /\ \A r \in Routes : v.phase[r] = rt.phase[r]
    <3>1. CASE rt.relay = Relay
      <4>1. PICK ls \in SUBSET Links : ls = {Relay}
        BY DEF Links
      <4>2. v = Dial(u, ls)
        BY <2>5, <3>1, <4>1
      <4>3. /\ Phone(v)
            /\ v.phase = [l \in Links |-> IF l \in ls THEN "dialing" ELSE u.phase[l]]
            /\ v.routes = u.routes /\ v.active = u.active /\ v.relay = u.relay
            /\ v.probes = u.probes /\ v.timers = u.timers /\ v.life = u.life
            /\ v.status = u.status
        BY <1>1, <2>3, <4>2, DialIs
      <4> QED BY <2>3, <3>1, <4>1, <4>3 DEF Links
    <3>2. CASE rt.relay # Relay
      <4>1. v = DialRelay(u)
        BY <2>5, <3>2
      <4>2. /\ Phone(v) /\ RelayHeld(v) /\ v.relay = Relay
            /\ v.phase[Relay] = IF u.relay = Relay THEN u.phase[Relay] ELSE "dialing"
            /\ \A r \in Routes : v.phase[r] = u.phase[r]
            /\ v.routes = u.routes /\ v.active = u.active /\ v.probes = u.probes
            /\ v.timers = u.timers /\ v.life = u.life /\ v.status = u.status
        BY <1>1, <2>3, <2>4, <4>1, DialRelayIs
      <4> QED BY <2>3, <3>2, <4>2
    <3> QED BY <3>1, <3>2
  <2>7. PICK w : w = [v EXCEPT !.timers = @ \cup {"stall"}]
    OBVIOUS
  <2>8. /\ Phone(w) /\ w.phase = v.phase /\ w.probes = rt.probes /\ w.active = None /\ w.relay = Relay
        /\ w.life = "open" /\ w.status = u.status /\ w.timers = rt.timers \cup {"stall"}
    BY <2>6, <2>7 DEF Phone, Fields, Timers
  <2>9. Attempts(w) /\ RelayHeld(w)
    BY <1>1, <2>1, <2>6, <2>8 DEF Sound, Attempts, RelayHeld
  <2>10. Sound(w, turned)
    BY <1>1, <1>4, <2>1, <2>3, <2>6, <2>8, <2>9 DEF Sound
  <2>11. PICK t : t = ProbeDirect(w, TRUE)
    OBVIOUS
  <2>12. Sound(t, turned)
    BY <1>1, <2>10, <2>11, ProbeSound
  <2>13. rt' = t
    <3>1. w = ArmStall(v)
      BY <2>6, <2>7 DEF ArmStall
    <3> QED BY <1>1, <1>4, <2>2, <2>5, <2>11, <3>1 DEF Recheck
  <2> QED BY <1>1, <2>12, <2>13, LooseInv
<1> QED BY <1>1, <1>2, <1>3, <1>4 DEF Phone, Links

LEMMA ReportsStep ==
    ASSUME IInv, NEW l \in Links, NEW learned \in SUBSET Routes, ReportsRoutes(l, learned)
    PROVE  IInv'
<1>1. /\ Phone(rt) /\ good \subseteq Links /\ turned' = turned /\ calm' = calm /\ good' = good
      /\ calm \in BOOLEAN /\ turned \in BOOLEAN /\ rt.active = l /\ None \notin Links
  BY DEF ReportsRoutes, IInv, TypeOK, world, Links
<1>2. PICK u : u = [rt EXCEPT !.timers = @ \ {"verify"}]
  OBVIOUS
<1>3. PICK v : v = [u EXCEPT !.routes = learned]
  OBVIOUS
<1>4. /\ Phone(u) /\ u.routes = rt.routes /\ u.probes = rt.probes /\ u.active = rt.active
      /\ u.relay = rt.relay /\ u.timers = rt.timers \ {"verify"} /\ u.life = rt.life
      /\ u.phase = rt.phase /\ u.status = rt.status /\ u.mute = rt.mute /\ u.attached = rt.attached
  BY <1>1, <1>2 DEF Phone, Fields
<1>5. /\ Phone(v) /\ v.routes = learned /\ v.probes = rt.probes /\ v.active = rt.active
      /\ v.relay = rt.relay /\ v.timers = rt.timers \ {"verify"} /\ v.life = rt.life
      /\ v.phase = rt.phase /\ v.status = rt.status /\ v.mute = rt.mute /\ v.attached = rt.attached
  BY <1>3, <1>4 DEF Phone, Fields
<1>6. CASE l \in Routes
  <2>1. rt' \in {u, v}
    BY <1>1, <1>2, <1>3, <1>4, <1>6 DEF ReportsRoutes, Learn, Alive
  <2>2. /\ DOMAIN rt' = Fields /\ rt'.routes \subseteq Routes
        /\ rt'.active = rt.active /\ rt'.relay = rt.relay /\ rt'.probes = rt.probes
        /\ rt'.timers \in {rt.timers \ {"verify"}, rt.timers \cup {"verify"}} /\ rt'.life = rt.life
        /\ rt'.phase = rt.phase /\ rt'.mute = rt.mute /\ rt'.attached = rt.attached
        /\ rt'.status = rt.status
    <3>1. CASE rt' = u
      BY <1>1, <1>4, <3>1 DEF Phone
    <3>2. CASE rt' = v
      BY <1>5, <3>2 DEF Phone
    <3> QED BY <2>1, <3>1, <3>2
  <2> QED BY <1>1, <1>6, <2>2, DirectKept
<1>7. CASE l = Relay
  <2>1. Sound(rt, turned)
    <3>1. rt.life = "open" /\ rt.active \notin Routes
      BY <1>1, <1>7 DEF IInv, Shape, Phone
    <3> QED BY <3>1, LooseIs
  <2>2. Attempts(u) /\ RelayHeld(u) /\ Attempts(v) /\ RelayHeld(v)
    BY <1>4, <1>5, <2>1 DEF Sound, Attempts, RelayHeld
  <2>3. Sound(u, turned)
    BY <1>1, <1>4, <1>7, <2>1, <2>2 DEF Sound
  <2>4. Sound(v, turned)
    BY <1>1, <1>5, <1>7, <2>1, <2>2 DEF Sound
  <2>5. PICK t : t = ProbeDirect(v, TRUE)
    OBVIOUS
  <2>6. Sound(t, turned)
    BY <1>1, <2>4, <2>5, ProbeSound
  <2>7. rt' \in {u, t}
    BY <1>1, <1>2, <1>3, <1>4, <1>7, <2>5 DEF ReportsRoutes, Learn, Alive
  <2>8. CASE rt' = u
    BY <1>1, <2>3, <2>8, LooseInv
  <2>9. CASE rt' = t
    BY <1>1, <2>6, <2>9, LooseInv
  <2> QED BY <2>7, <2>8, <2>9
<1> QED BY <1>6, <1>7 DEF Links

LEMMA SeatIs ==
    ASSUME NEW s, Phone(s), NEW l \in Links, NEW t, t = Seat(s, l)
    PROVE  /\ Phone(t) /\ t.active = l /\ t.timers = s.timers \ {"verify", "stall"}
           /\ t.status = "online" /\ t.routes = s.routes /\ t.relay = s.relay
           /\ t.probes = s.probes /\ t.life = s.life /\ t.phase = s.phase
BY DEF Seat, Phone, Fields, Statuses

LEMMA WelcomeStep ==
    ASSUME IInv, NEW l \in Links, Welcome(l)
    PROVE  IInv'
<1>1. /\ Phone(rt) /\ good \subseteq Links /\ turned' = turned /\ calm' = calm /\ good' = good
      /\ calm \in BOOLEAN /\ turned \in BOOLEAN /\ rt.phase[l] = "hello" /\ None \notin Links
  BY DEF Welcome, IInv, TypeOK, world, Links
<1>2. rt.active \notin Routes
  BY <1>1 DEF IInv, DirectIsAlone, NoOrphan, Links
<1>3. rt.life = "open"
  BY <1>1, <1>2 DEF IInv, Shape, NoOrphan, Phone, Links
<1>4. Sound(rt, turned)
  BY <1>2, <1>3, LooseIs
<1>5. PICK u : u = SetPhase(rt, {l}, "welcomed")
  OBVIOUS
<1>6. /\ Phone(u) /\ u.active = rt.active /\ u.relay = rt.relay /\ u.probes = rt.probes
      /\ u.timers = rt.timers /\ u.life = rt.life /\ u.status = rt.status
      /\ u.phase = [k \in Links |-> IF k \in {l} THEN "welcomed" ELSE rt.phase[k]]
  BY <1>1, <1>5 DEF SetPhase, Phone, Fields, Phases
<1>7. CASE l = Relay
  <2>1. rt.relay = Relay /\ u.phase[Relay] = "welcomed" /\ \A r \in Routes : u.phase[r] = rt.phase[r]
    BY <1>1, <1>4, <1>6, <1>7 DEF Sound, RelayHeld, Links
  <2>2. PICK t : t = IF rt.active = Relay THEN Alive(u) ELSE Seat(u, Relay)
    OBVIOUS
  <2>3. /\ Phone(t) /\ t.active = Relay /\ t.relay = Relay /\ t.probes = rt.probes
        /\ t.timers \in {rt.timers \ {"verify"}, rt.timers \ {"verify", "stall"}}
        /\ t.life = rt.life /\ t.phase = u.phase /\ t.status \in {"online", "update"}
    <3>1. CASE rt.active = Relay
      <4>1. t = [u EXCEPT !.timers = @ \ {"verify"}]
        BY <2>2, <3>1 DEF Alive
      <4>2. rt.status \in {"online", "update"}
        BY <1>4, <3>1 DEF Sound
      <4> QED BY <1>6, <2>1, <3>1, <4>1, <4>2 DEF Phone, Fields
    <3>2. CASE rt.active # Relay
      <4>1. t = Seat(u, Relay) /\ Relay \in Links
        BY <2>2, <3>2 DEF Links
      <4> QED BY <1>6, <2>1, <4>1, SeatIs
    <3> QED BY <3>1, <3>2
  <2>4. Attempts(t) /\ RelayHeld(t)
    BY <1>4, <2>1, <2>3 DEF Sound, Attempts, RelayHeld
  <2>5. \/ t.status = rt.status
        \/ t.status = "online"
    BY <1>6, <2>2, <1>4 DEF Alive, Seat, Phone, Fields
  <2>6. Sound(t, turned)
    BY <1>1, <1>3, <1>4, <2>1, <2>3, <2>4, <2>5 DEF Sound, Links
  <2>7. rt' = t
    BY <1>1, <1>2, <1>4, <1>5, <1>6, <1>7, <2>2 DEF Welcome, Proven, Sound
  <2> QED BY <1>1, <2>6, <2>7, LooseInv
<1>8. CASE l \in Routes
  <2>1. l \in rt.probes /\ l # Relay /\ rt.active # l
    BY <1>1, <1>2, <1>4, <1>8 DEF Sound, Attempts
  <2>2. PICK v : v = [u EXCEPT !.probes = {}, !.relay = None, !.timers = @ \ {"headStart"}]
    OBVIOUS
  <2>3. /\ Phone(v) /\ v.probes = {} /\ v.relay = None /\ v.timers = rt.timers \ {"headStart"}
        /\ v.life = "open" /\ v.phase = u.phase
    BY <1>3, <1>6, <2>2 DEF Phone, Fields
  <2>4. PICK w : w = Seat(v, l)
    OBVIOUS
  <2>5. /\ Phone(w) /\ w.active = l /\ w.timers = v.timers \ {"verify", "stall"}
        /\ w.status = "online" /\ w.routes = v.routes /\ w.relay = v.relay
        /\ w.probes = v.probes /\ w.life = v.life /\ w.phase = v.phase
    BY <2>3, <2>4, SeatIs
  <2>6. PICK ls \in SUBSET Links : ls = (rt.probes \ {l}) \cup {Relay}
    BY <1>1 DEF Phone, Links
  <2>7. PICK t : t = CloseLinks(w, ls)
    OBVIOUS
  <2>8. /\ Phone(t)
        /\ t.phase = [k \in Links |-> IF k \in ls THEN "none" ELSE w.phase[k]]
        /\ t.routes = w.routes /\ t.active = w.active /\ t.relay = w.relay
        /\ t.probes = w.probes /\ t.life = w.life /\ t.status = w.status
        /\ t.timers = IF Relay \in ls THEN w.timers \ {"retry"} ELSE w.timers
    <3> Phone(w)
      BY <2>5
    <3> QED BY <2>7, CloseLinksIs
  <2>9. t.phase[Relay] = "none" /\ t.phase[l] = "welcomed" /\ \A r \in Routes \ {l} : t.phase[r] = "none"
    BY <1>4, <1>6, <1>8, <2>1, <2>3, <2>5, <2>6, <2>8 DEF Sound, Attempts, Links
  <2>10. rt' = t
    BY <1>2, <1>5, <1>6, <1>8, <2>1, <2>2, <2>4, <2>6, <2>7 DEF Welcome, Proven
  <2>11. /\ t.active = l /\ t.relay = None /\ t.probes = {} /\ t.life = "open" /\ t.status = "online"
         /\ t.timers = rt.timers \ {"headStart", "verify", "stall", "retry"} /\ Phone(t)
    BY <2>3, <2>5, <2>6, <2>8
  <2>12. TypeOK'
    BY <1>1, <2>10, <2>11 DEF TypeOK
  <2>13. Shape'
    BY <1>1, <1>8, <2>9, <2>10, <2>11 DEF Shape
  <2>14. NoOrphan' /\ DirectIsAlone'
    BY <1>1, <1>8, <2>9, <2>10, <2>11 DEF NoOrphan, DirectIsAlone, Links
  <2>15. NeverIdle' /\ ConnectingEnds'
    BY <1>1, <1>8, <2>9, <2>10, <2>11 DEF NeverIdle, ConnectingEnds, Links
  <2> QED BY <2>12, <2>13, <2>14, <2>15 DEF IInv
<1> QED BY <1>7, <1>8 DEF Links

-----------------------------------------------------------------------------
LEMMA StepInv == IInv /\ [Next]_vars => IInv'
<1> SUFFICES ASSUME IInv, [Next]_vars PROVE IInv'
  OBVIOUS
<1>1. CASE Event
  BY <1>1, ConnectStep, CloseStep, RecheckStep, LinkSteps, DaemonAbsentStep, WelcomeStep,
     HeardStep, ReportsStep, DirectClosedStep, RelayClosedStep, RetryStep, HeadStartStep,
     ProbeTimesOutStep, ReprobeStep, SmallSteps, VerifyTimesOutStep DEF Event, Links
<1>2. CASE Settle
  BY <1>2, SmallSteps
<1>3. CASE UNCHANGED vars
  BY <1>3 DEF vars, IInv, TypeOK, Shape, NoOrphan, DirectIsAlone, NeverIdle, ConnectingEnds
<1> QED BY <1>1, <1>2, <1>3 DEF Next

\* The invariant all the others are read from.
THEOREM Inductive == Spec => []IInv
BY InitInv, StepInv, PTL DEF Spec

\* A phone's link to its computer never leaves the states it is built for, for
\* any number of direct routes.
THEOREM TypeCorrect == Spec => []TypeOK
BY Inductive, PTL DEF IInv

\* No route a phone tried is ever forgotten with its socket open, and what the
\* daemon says reaches the app: the invariant a socket left behind would break,
\* the two sockets then taking the room from each other for good.
THEOREM NothingLeftBehind == Spec => []NoOrphan
BY Inductive, PTL DEF IInv

\* A direct link in use is the only one: the relay's was closed for good and no
\* timer is left that would dial it again.
THEOREM DirectAlone == Spec => []DirectIsAlone
BY Inductive, PTL DEF IInv

\* A phone without a link always has a step of its own to take towards one.
THEOREM AlwaysTrying == Spec => []NeverIdle
BY Inductive, PTL DEF IInv

\* "Connecting" always has an end, and "online" is never said without a link.
THEOREM StatusHonest == Spec => []ConnectingEnds
BY Inductive, PTL DEF IInv
=============================================================================
