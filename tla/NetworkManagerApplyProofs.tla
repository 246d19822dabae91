---------------------- MODULE NetworkManagerApplyProofs ----------------------
(***************************************************************************)
(* Proofs of what reconciling achieves, as long as the manager accepts     *)
(* plans: nothing has then been closed by force.  They rest on the         *)
(* invariant of NetworkManagerProofs and go along the same operations.     *)
(***************************************************************************)
EXTENDS NetworkManagerProofs, WellFoundedInduction

-----------------------------------------------------------------------------
(* The inductive invariant.                                                *)

\* The adapter of n is as d wants it.
Fits(x, n, d) ==
    LET ad == x.ad[n][d.kind]
    IN  /\ x.map[n] = d.kind /\ ~ad.failure /\ ad.cfg = d.cfg
        /\ ad.enabled <=> d.cfg.on
        /\ Holds(ad) <=> d.cfg.on

Planned(x, n, p) == IF n \in DOMAIN p THEN Fits(x, n, p[n]) ELSE x.map[n] = Absent

\* It is, or it shows that it is not.
Visible(x, n, p, errs) ==
    \/ Planned(x, n, p)
    \/ x.map[n] # Absent /\ x.ad[n][x.map[n]].failure
    \/ x.map[n] = Absent /\ n \in errs

\* An adapter that shows no failure serves exactly if it owns something.
Steady(ad) == ad.failure \/ (ad.enabled <=> Holds(ad))

\* Every configuration comes from a plan.
FromPlans(n, k, cfg) == \E p \in Plans : n \in DOMAIN p /\ p[n].kind = k /\ p[n].cfg = cfg

Kept(x, n) == x.map[n] # Absent => FromPlans(n, x.map[n], x.ad[n][x.map[n]].cfg)

\* What a call finds: the new configuration is about to be opened, by an
\* adapter that owns nothing; what the operation may go back to is from a plan.
Ready(x) ==
    LET n == x.op.at
        ad == x.ad[n][x.op.kind]
        d == x.op.plan[n]
    IN  /\ x.op.pc \in {"create", "substitute", "reopen"} =>
            /\ ad.cfg = d.cfg
            /\ x.op.st = "call" => ~ad.enabled /\ ~Holds(ad)
            /\ x.op.st = "wait" => d.cfg.on
        /\ x.op.pc \in Reloading => FromPlans(n, x.op.kind, x.op.prev)
        /\ x.op.pc \in Replacing => \A k \in Kinds : k # d.kind => FromPlans(n, k, x.ad[n][k].cfg)

Applying(x) ==
    x.accepting =>
        /\ \A n \in Names : Kept(x, n) /\ \A k \in Kinds : ~x.ad[n][k].forced
        /\ x.op.what = "idle" => \A n \in Names : Visible(x, n, x.last.plan, x.last.errs)
        /\ x.op.what # "idle" =>
            /\ \A n \in Names \ x.op.todo : At(x, n) \/ Visible(x, n, x.op.plan, x.op.errs)
            /\ \A n \in x.op.todo : x.map[n] = Absent \/ Steady(x.ad[n][x.map[n]])
            /\ Busy(x) => Ready(x)

\* As long as nothing fails, the operation does what it is to do, the plan's
\* names in their order.
Smoothly == {"retire", "create", "heal", "reclose", "reopen", "replace", "substitute"}

Ordered(x) == \A o \in x.op.todo : x.op.at < o

Healing(x) ==
    x.accepting /\ x.last.clean =>
        /\ x.op.what = "idle" => x.last.errs = {} /\ \A n \in Names : Planned(x, n, x.last.plan)
        /\ x.op.what # "idle" =>
            /\ x.op.errs = {}
            /\ \A n \in Names \ x.op.todo : At(x, n) \/ Planned(x, n, x.op.plan)
            /\ Busy(x) => x.op.pc \in Smoothly /\ (x.op.pc # "retire" => Ordered(x))

-----------------------------------------------------------------------------
(* The operation's own name, and the others.                               *)

\* The other names.
Beyond(x) ==
    \A n \in Names : n # x.op.at =>
        /\ Kept(x, n) /\ \A k \in Kinds : ~x.ad[n][k].forced
        /\ n \in x.op.todo => x.map[n] = Absent \/ Steady(x.ad[n][x.map[n]])
        /\ n \notin x.op.todo => Visible(x, n, x.op.plan, x.op.errs)

BeyondClean(x) ==
    \A n \in Names : n # x.op.at /\ n \notin x.op.todo => Planned(x, n, x.op.plan)

\* This one.
Spot(x) ==
    /\ Kept(x, x.op.at) /\ \A k \in Kinds : ~x.ad[x.op.at][k].forced
    /\ IF Busy(x) THEN Ready(x) ELSE Visible(x, x.op.at, x.op.plan, x.op.errs)

SpotClean(x) ==
    /\ x.op.errs = {}
    /\ IF Busy(x) THEN x.op.pc \in Smoothly /\ (x.op.pc # "retire" => Ordered(x))
       ELSE Planned(x, x.op.at, x.op.plan)

\* The others are left alone.
LEMMA BeyondFrame ==
    ASSUME NEW x, NEW y, Frame(x, y)
    PROVE  (Beyond(x) => Beyond(y)) /\ (BeyondClean(x) => BeyondClean(y))
<1>1. ASSUME NEW n \in Names, n # x.op.at
      PROVE  /\ Kept(x, n) => Kept(y, n)
             /\ Planned(x, n, x.op.plan) => Planned(y, n, y.op.plan)
             /\ Visible(x, n, x.op.plan, x.op.errs) => Visible(y, n, y.op.plan, y.op.errs)
             /\ y.map[n] = x.map[n] /\ y.ad[n] = x.ad[n]
  <2>1. y.map[n] = x.map[n] /\ y.ad[n] = x.ad[n] /\ y.op.plan = x.op.plan /\ x.op.errs \subseteq y.op.errs
    BY <1>1 DEF Frame
  <2>2. Kept(x, n) => Kept(y, n)
    BY <2>1 DEF Kept
  <2>3. Planned(x, n, x.op.plan) => Planned(y, n, y.op.plan)
    BY <2>1 DEF Planned, Fits
  <2> QED BY <2>1, <2>2, <2>3 DEF Visible
<1>2. y.op.at = x.op.at /\ y.op.todo = x.op.todo
  BY DEF Frame
<1>3. Beyond(x) => Beyond(y)
  BY <1>1, <1>2 DEF Beyond
<1>4. BeyondClean(x) => BeyondClean(y)
  BY <1>1, <1>2 DEF BeyondClean
<1> QED BY <1>3, <1>4

\* The two together are the invariant.
LEMMA SpotApplying ==
    ASSUME NEW x, Base(x)
    PROVE  /\ Beyond(x) /\ Spot(x) => Applying(x)
           /\ BeyondClean(x) /\ SpotClean(x) => Healing(x)
<1>1. /\ x.op.what # "idle" /\ x.op.at \in Names /\ x.op.at \notin x.op.todo
      /\ x.op.todo \subseteq Names
  BY DEF Base, Manager, Operation
<1>2. Beyond(x) /\ Spot(x) => Applying(x)
  BY <1>1 DEF Beyond, Spot, Applying, At
<1>3. BeyondClean(x) /\ SpotClean(x) => Healing(x)
  BY <1>1 DEF BeyondClean, SpotClean, Healing, At
<1> QED BY <1>2, <1>3

\* While a call is under way.
LEMMA ApplyingSpot ==
    ASSUME NEW x, Sound(x), Busy(x), x.accepting
    PROVE  /\ Applying(x) => Beyond(x) /\ Spot(x)
           /\ Healing(x) /\ x.last.clean => BeyondClean(x) /\ SpotClean(x)
<1>1. Base(x)
  BY SoundBusy
<1>2. x.op.what # "idle" /\ x.op.at \in Names /\ x.op.at \notin x.op.todo
  BY <1>1 DEF Base
<1>3. Applying(x) => Beyond(x) /\ Spot(x)
  BY <1>2 DEF Beyond, Spot, Applying, At
<1>4. Healing(x) /\ x.last.clean => BeyondClean(x) /\ SpotClean(x)
  BY <1>2 DEF BeyondClean, SpotClean, Healing, At
<1> QED BY <1>3, <1>4

-----------------------------------------------------------------------------
(* How an operation leaves the name it is at.                              *)

\* The operation is at a name, whose adapter of kind k the map has.
Fixed(x, k) ==
    /\ Base(x) /\ k \in Kinds /\ x.map[x.op.at] = k
    /\ \A j \in Kinds : ~x.ad[x.op.at][j].forced

\* In y it is there still, with a for its adapter.
FixedOn(x, y, k, a) ==
    /\ y.op.at = x.op.at /\ y.op.plan = x.op.plan /\ y.op.todo = x.op.todo
    /\ y.map[y.op.at] = k /\ k # Absent /\ y.ad[y.op.at][k] = a
    /\ Kept(y, y.op.at) /\ \A j \in Kinds : ~y.ad[y.op.at][j].forced

\* An adapter that replaces one like it leaves the others as they are.
LEMMA FixedAfter ==
    ASSUME NEW x, NEW k, Fixed(x, k), NEW y, NEW a, Frame(x, y), y.map = x.map, Changes(x, y, k, a),
           a.forced = x.ad[x.op.at][k].forced, FromPlans(x.op.at, k, a.cfg)
    PROVE  FixedOn(x, y, k, a)
<1>1. /\ y.op.at = x.op.at /\ y.op.plan = x.op.plan /\ y.op.todo = x.op.todo
  BY DEF Frame
<1>2. y.map[y.op.at] = k /\ k # Absent /\ y.ad[y.op.at][k] = a
  BY <1>1 DEF Fixed, Changes, Kinds, Absent
<1>3. Kept(y, y.op.at)
  BY <1>1, <1>2 DEF Kept
<1>4. \A j \in Kinds : ~y.ad[y.op.at][j].forced
  BY <1>1 DEF Fixed, Changes
<1> QED BY <1>1, <1>2, <1>3, <1>4 DEF FixedOn

\* With an error, which it shows.
LEMMA FailsSpot ==
    ASSUME NEW x, NEW k, Fixed(x, k), NEW y, NEW a, Fails(x, y, k, a), Like(a, x.ad[x.op.at][k]),
           FromPlans(x.op.at, k, a.cfg)
    PROVE  Spot(y)
<1>1. /\ Frame(x, y) /\ y.map = x.map /\ Changes(x, y, k, a) /\ a.failure = TRUE
      /\ y.op.st = "run" /\ a.forced = x.ad[x.op.at][k].forced
  BY DEF Fails, Like
<1>2. /\ y.map[y.op.at] = k /\ k # Absent /\ y.ad[y.op.at][k] = a
      /\ Kept(y, y.op.at) /\ \A j \in Kinds : ~y.ad[y.op.at][j].forced
  <2>1. FixedOn(x, y, k, a)
    BY <1>1, FixedAfter, Zenon
  <2> QED BY <2>1 DEF FixedOn
<1>3. Visible(y, y.op.at, y.op.plan, y.op.errs)
  BY <1>1, <1>2 DEF Visible
<1> QED BY <1>1, <1>2, <1>3 DEF Spot, Busy

\* Without.
LEMMA SucceedsSpot ==
    ASSUME NEW x, NEW k, Fixed(x, k), NEW y, NEW a, Succeeds(x, y, k, a), Like(a, x.ad[x.op.at][k]),
           FromPlans(x.op.at, k, a.cfg),
           x.op.at \in DOMAIN x.op.plan, x.op.plan[x.op.at].kind = k, x.op.plan[x.op.at].cfg = a.cfg,
           a.enabled <=> a.cfg.on, Holds(a) <=> a.cfg.on
    PROVE  Spot(y) /\ (x.op.errs = {} => SpotClean(y))
<1>1. /\ Frame(x, y) /\ y.map = x.map /\ Changes(x, y, k, a) /\ a.failure = FALSE
      /\ y.op.st = "run" /\ y.op.errs = x.op.errs /\ a.forced = x.ad[x.op.at][k].forced
  BY DEF Succeeds, Like
<1>2. /\ y.op.at = x.op.at /\ y.op.plan = x.op.plan
      /\ y.map[y.op.at] = k /\ k # Absent /\ y.ad[y.op.at][k] = a
      /\ Kept(y, y.op.at) /\ \A j \in Kinds : ~y.ad[y.op.at][j].forced
  <2>1. FixedOn(x, y, k, a)
    BY <1>1, FixedAfter, Zenon
  <2> QED BY <2>1 DEF FixedOn
<1>3. Fits(y, y.op.at, y.op.plan[y.op.at])
  BY <1>1, <1>2 DEF Fits
<1>4. Planned(y, y.op.at, y.op.plan)
  BY <1>2, <1>3 DEF Planned
<1> QED BY <1>1, <1>2, <1>4 DEF Spot, SpotClean, Busy, Visible

\* By a call of reloadSameKind.
LEMMA CallsSpot ==
    ASSUME NEW x, NEW k, Fixed(x, k), NEW y, NEW a, NEW pc \in Reloading, Calls(x, y, pc, k, a),
           Like(a, x.ad[x.op.at][k]),
           FromPlans(x.op.at, k, a.cfg), FromPlans(x.op.at, k, x.op.prev),
           pc = "reopen" => x.op.plan[x.op.at].cfg = a.cfg /\ ~a.enabled /\ ~Holds(a)
    PROVE  Spot(y) /\ (x.op.errs = {} /\ pc \in Smoothly /\ Ordered(x) => SpotClean(y))
<1>1. /\ Frame(x, y) /\ y.map = x.map /\ Changes(x, y, k, a)
      /\ y.op.st = "call" /\ y.op.pc = pc /\ y.op.kind = k /\ y.op.errs = x.op.errs /\ y.op.prev = x.op.prev
      /\ a.forced = x.ad[x.op.at][k].forced
  BY DEF Calls, Like
<1>2. /\ y.op.at = x.op.at /\ y.op.plan = x.op.plan /\ y.op.todo = x.op.todo
      /\ y.ad[y.op.at][k] = a
      /\ Kept(y, y.op.at) /\ \A j \in Kinds : ~y.ad[y.op.at][j].forced
  <2>1. FixedOn(x, y, k, a)
    BY <1>1, FixedAfter, Zenon
  <2> QED BY <2>1 DEF FixedOn
<1>3. Ready(y)
  <2>1. pc \notin Replacing /\ pc \notin {"create", "substitute"}
    BY DEF Reloading, Replacing
  <2> QED BY <1>1, <1>2, <2>1 DEF Ready
<1> QED BY <1>1, <1>2, <1>3 DEF Spot, SpotClean, Busy, Ordered

-----------------------------------------------------------------------------
(* reload().                                                               *)

\* A reload is at the adapter of kind k, to go to cfg.
ReloadsTo(x, k, cfg) ==
    /\ Reloads(x, k) /\ Fixed(x, k)
    /\ FromPlans(x.op.at, k, x.ad[x.op.at][k].cfg) /\ FromPlans(x.op.at, k, cfg)
    /\ FromPlans(x.op.at, k, x.op.prev)

\* To the configuration of the plan.
LEMMA ReopenSpot ==
    ASSUME NEW x, NEW k, NEW cfg \in Config, ReloadsTo(x, k, cfg), cfg = x.op.plan[x.op.at].cfg,
           NEW a, NEW y, Like(a, x.ad[x.op.at][k]), a.cfg = cfg,
           x.ad[x.op.at][k].enabled <=> Holds(x.ad[x.op.at][k]),
           x.ad[x.op.at][k].enabled => cfg.on,
           cfg.on /\ ~x.ad[x.op.at][k].enabled => Calls(x, y, "reopen", k, a),
           ~(cfg.on /\ ~x.ad[x.op.at][k].enabled) => Succeeds(x, y, k, a)
    PROVE  Spot(y) /\ (x.op.errs = {} /\ Ordered(x) => SpotClean(y))
<1>1. PICK ad : ad = x.ad[x.op.at][k]
  OBVIOUS
<1>2. a.enabled = ad.enabled /\ (Holds(a) <=> Holds(ad))
  <2>1. Like(a, ad)
    BY <1>1
  <2> QED BY <2>1 DEF Like, Holds
<1>3. Fixed(x, k) /\ FromPlans(x.op.at, k, a.cfg) /\ FromPlans(x.op.at, k, x.op.prev)
  BY DEF ReloadsTo
<1>4. x.op.at \in DOMAIN x.op.plan /\ x.op.plan[x.op.at].kind = k
  BY DEF ReloadsTo, Reloads
<1>5. CASE cfg.on /\ ~ad.enabled
  <2>1. Calls(x, y, "reopen", k, a) /\ ~a.enabled /\ ~Holds(a)
    BY <1>1, <1>2, <1>5
  <2>2. "reopen" \in Reloading /\ "reopen" \in Smoothly
    BY DEF Reloading, Smoothly
  <2> QED BY <1>3, <2>1, <2>2, CallsSpot
<1>6. CASE ~(cfg.on /\ ~ad.enabled)
  <2>1. Succeeds(x, y, k, a) /\ (a.enabled <=> a.cfg.on) /\ (Holds(a) <=> a.cfg.on)
    BY <1>1, <1>2, <1>6
  <2> QED BY <1>3, <1>4, <2>1, SucceedsSpot
<1> QED BY <1>5, <1>6

\* reload() to the configuration of the plan, from an adapter that serves
\* exactly if it owns something.
LEMMA ReloadSpot ==
    ASSUME NEW x, NEW k, NEW cfg \in Config, ReloadsTo(x, k, cfg), cfg = x.op.plan[x.op.at].cfg,
           x.ad[x.op.at][k].enabled <=> Holds(x.ad[x.op.at][k])
    PROVE  /\ Spot(Reload(x, k, cfg, "reclose", "reopen"))
           /\ x.op.errs = {} /\ Ordered(x) => SpotClean(Reload(x, k, cfg, "reclose", "reopen"))
           /\ ~x.ad[x.op.at][k].enabled =>
                /\ Spot(Reopen(x, k, cfg, "reopen"))
                /\ x.op.errs = {} /\ Ordered(x) => SpotClean(Reopen(x, k, cfg, "reopen"))
<1>1. x \in Manager /\ x.op.at \in Names /\ k \in Kinds
  BY DEF ReloadsTo, Reloads, Base
<1>2. PICK ad : ad = x.ad[x.op.at][k]
  OBVIOUS
<1>3. PICK y : y = Reload(x, k, cfg, "reclose", "reopen")
  OBVIOUS
<1>4. PICK a : Reloaded(x, y, k, cfg, "reclose", "reopen", a)
  BY <1>1, <1>3, ReloadFields
<1>5. PICK closes \in BOOLEAN : closes = (ad.enabled /\ (ad.cfg.port # cfg.port \/ ~cfg.on))
  <2>1. (ad.enabled /\ (ad.cfg.port # cfg.port \/ ~cfg.on)) \in BOOLEAN
    OBVIOUS
  <2> QED BY <2>1, Zenon
<1>6. /\ Like(a, ad)
      /\ closes => Calls(x, y, "reclose", k, a) /\ a = ad
      /\ ~closes => a.cfg = cfg
      /\ ~closes /\ (cfg.on /\ ~ad.enabled) => Calls(x, y, "reopen", k, a)
      /\ ~closes /\ ~(cfg.on /\ ~ad.enabled) => Succeeds(x, y, k, a)
  BY <1>2, <1>4, <1>5 DEF Reloaded
<1>7. Spot(y) /\ (x.op.errs = {} /\ Ordered(x) => SpotClean(y))
  <2>1. CASE closes
    <3>1. Fixed(x, k) /\ FromPlans(x.op.at, k, a.cfg) /\ FromPlans(x.op.at, k, x.op.prev)
      BY <1>2, <1>6, <2>1 DEF ReloadsTo
    <3>2. "reclose" \in Reloading /\ "reclose" \in Smoothly
      BY DEF Reloading, Smoothly
    <3> QED BY <1>2, <1>6, <2>1, <3>1, <3>2, CallsSpot
  <2>2. CASE ~closes
    <3>1. ad.enabled => cfg.on
      BY <1>5, <2>2
    <3> QED BY <1>2, <1>6, <2>2, <3>1, ReopenSpot
  <2> QED BY <2>1, <2>2
<1>8. ASSUME ~ad.enabled
      PROVE  /\ Spot(Reopen(x, k, cfg, "reopen"))
             /\ x.op.errs = {} /\ Ordered(x) => SpotClean(Reopen(x, k, cfg, "reopen"))
  <2>1. PICK z : z = Reopen(x, k, cfg, "reopen")
    OBVIOUS
  <2>2. PICK b : /\ Like(b, ad) /\ b.cfg = cfg
                 /\ (cfg.on /\ ~ad.enabled) => Calls(x, z, "reopen", k, b)
                 /\ ~(cfg.on /\ ~ad.enabled) => Succeeds(x, z, k, b)
    BY <1>1, <1>2, <2>1, ReopenFields, ZenonT(40)
  <2>3. Spot(z) /\ (x.op.errs = {} /\ Ordered(x) => SpotClean(z))
    BY <1>2, <1>8, <2>2, ReopenSpot
  <2> QED BY <2>1, <2>3
<1> QED BY <1>2, <1>3, <1>7, <1>8

\* Back to the configuration there was.
LEMMA ReloadBackSpot ==
    ASSUME NEW x, NEW k, NEW cfg \in Config, ReloadsTo(x, k, cfg)
    PROVE  /\ Spot(Reload(x, k, cfg, "backclose", "backopen"))
           /\ Spot(Reopen(x, k, cfg, "backopen"))
<1>1. x \in Manager /\ x.op.at \in Names /\ k \in Kinds /\ Fixed(x, k)
  BY DEF ReloadsTo, Reloads, Base
<1>2. PICK ad : ad = x.ad[x.op.at][k]
  OBVIOUS
<1>3. FromPlans(x.op.at, k, ad.cfg) /\ FromPlans(x.op.at, k, cfg) /\ FromPlans(x.op.at, k, x.op.prev)
  BY <1>2 DEF ReloadsTo
<1>4. "backclose" \in Reloading /\ "backopen" \in Reloading
  BY DEF Reloading
<1>5. Spot(Reload(x, k, cfg, "backclose", "backopen"))
  <2>1. PICK y : y = Reload(x, k, cfg, "backclose", "backopen")
    OBVIOUS
  <2>2. PICK a : Reloaded(x, y, k, cfg, "backclose", "backopen", a)
    BY <1>1, <2>1, ReloadFields
  <2>3. /\ Like(a, ad)
        /\ a.cfg = cfg \/ a.cfg = ad.cfg
        /\ Calls(x, y, "backclose", k, a) \/ Calls(x, y, "backopen", k, a) \/ Fails(x, y, k, a)
    BY <1>2, <2>2 DEF Reloaded
  <2>4. FromPlans(x.op.at, k, a.cfg)
    BY <1>3, <2>3
  <2>5. Spot(y)
    BY <1>1, <1>2, <1>3, <1>4, <2>3, <2>4, CallsSpot, FailsSpot
  <2> QED BY <2>1, <2>5
<1>6. Spot(Reopen(x, k, cfg, "backopen"))
  <2>1. PICK y : y = Reopen(x, k, cfg, "backopen")
    OBVIOUS
  <2>2. PICK a : /\ Like(a, ad) /\ a.cfg = cfg
                 /\ Calls(x, y, "backopen", k, a) \/ Fails(x, y, k, a)
    BY <1>1, <1>2, <2>1, ReopenFields
  <2>3. FromPlans(x.op.at, k, a.cfg)
    BY <1>3, <2>2
  <2>4. Spot(y)
    BY <1>1, <1>2, <1>3, <1>4, <2>2, <2>3, CallsSpot, FailsSpot
  <2> QED BY <2>1, <2>4
<1> QED BY <1>5, <1>6

-----------------------------------------------------------------------------
(* The names of the plan.                                                  *)

\* What the plan wants of its names.
LEMMA PlanFrom ==
    ASSUME NEW x \in Manager, NEW n \in DOMAIN x.op.plan
    PROVE  FromPlans(n, x.op.plan[n].kind, x.op.plan[n].cfg)
BY PlanDesired DEF FromPlans

\* The operation is at a name that no call is for.
Stands(x) ==
    /\ Base(x) /\ Kept(x, x.op.at)
    /\ \A j \in Kinds : ~x.ad[x.op.at][j].forced

\* reloadSameKind.
LEMMA SameKindSpot ==
    ASSUME NEW x, Planning(x), Stands(x), NEW k \in Kinds, x.map[x.op.at] = k,
           k = x.op.plan[x.op.at].kind, Tidy(x, x.op.at, k), Steady(x.ad[x.op.at][k])
    PROVE  LET y == ReloadSameKind(x, k, x.op.plan[x.op.at].cfg)
           IN  Spot(y) /\ (x.op.errs = {} /\ Ordered(x) => SpotClean(y))
<1>1. x \in Manager /\ x.op.at \in Names /\ Base(x) /\ x.op.at \in DOMAIN x.op.plan
  BY DEF Planning, Base
<1>2. PICK cfg \in Config : cfg = x.op.plan[x.op.at].cfg
  BY DEF Planning, Desired
<1>3. PICK ad : ad = x.ad[x.op.at][k]
  OBVIOUS
<1>4. PICK y : y = ReloadSameKind(x, k, cfg)
  OBVIOUS
<1>5. PICK u : /\ Frame(x, u) /\ u.map = x.map /\ u.ad = x.ad /\ u.op.prev = ad.cfg /\ u.op.errs = x.op.errs
               /\ u.op.prev \in Config
               /\ y = IF ad.failure THEN Call(u, "heal", k) ELSE Reload(u, k, cfg, "reclose", "reopen")
  <2>1. PICK u : /\ Frame(x, u) /\ u.map = x.map /\ u.ad = x.ad
                 /\ u.op.prev = x.ad[x.op.at][k].cfg /\ u.op.errs = x.op.errs
                 /\ u.op.prev \in Config
                 /\ ReloadSameKind(x, k, cfg) = IF x.ad[x.op.at][k].failure THEN Call(u, "heal", k)
                                                ELSE Reload(u, k, cfg, "reclose", "reopen")
    BY <1>1, SameKindFields
  <2> QED BY <1>3, <1>4, <2>1
<1>6. /\ Base(u) /\ u \in Manager /\ u.op.at = x.op.at /\ u.op.plan = x.op.plan /\ u.op.todo = x.op.todo
      /\ u.op.what = x.op.what
  BY <1>1, <1>5, BaseFrame DEF Frame
<1>7. Fixed(u, k) /\ u.ad[u.op.at][k] = ad
  BY <1>3, <1>5, <1>6 DEF Fixed, Stands
<1>8. FromPlans(u.op.at, k, ad.cfg) /\ FromPlans(u.op.at, k, u.op.prev)
  <2>1. k # Absent
    BY DEF Kinds, Absent
  <2> QED BY <1>3, <1>5, <1>6, <2>1 DEF Stands, Kept
<1>9. FromPlans(u.op.at, k, cfg)
  BY <1>1, <1>2, <1>6, PlanFrom
<1>10. Ordered(x) <=> Ordered(u)
  BY <1>6 DEF Ordered
<1>11. CASE ad.failure
  <2>1. Calls(u, y, "heal", k, ad) /\ Like(ad, ad)
    BY <1>1, <1>5, <1>6, <1>7, <1>11, CallOnly DEF Closing
  <2>2. "heal" \in Reloading /\ "heal" \in Smoothly
    BY DEF Reloading, Smoothly
  <2>3. Spot(y) /\ (u.op.errs = {} /\ Ordered(u) => SpotClean(y))
    BY <1>7, <1>8, <2>1, <2>2, CallsSpot
  <2> QED BY <1>2, <1>4, <1>5, <1>10, <2>3
<1>12. CASE ~ad.failure
  <2>1. Reloads(u, k)
    BY <1>5, <1>6 DEF Reloads, Planning, Tidy
  <2>2. ReloadsTo(u, k, cfg)
    BY <1>7, <1>8, <1>9, <2>1 DEF ReloadsTo
  <2>3. ad.enabled <=> Holds(ad)
    BY <1>3, <1>12 DEF Steady
  <2>4. Spot(y) /\ (u.op.errs = {} /\ Ordered(u) => SpotClean(y))
    BY <1>2, <1>5, <1>6, <1>7, <1>12, <2>2, <2>3, ReloadSpot
  <2> QED BY <1>2, <1>4, <1>5, <1>10, <2>4
<1> QED BY <1>11, <1>12

\* A call that leaves the adapters as they are.
LEMMA PlainCallSpot ==
    ASSUME NEW x, Stands(x), NEW pc \in Opening \cup Closing, NEW k \in Kinds,
           pc \notin Reloading, pc \notin {"create", "substitute"},
           pc \in Replacing => \A j \in Kinds : j # x.op.plan[x.op.at].kind =>
                FromPlans(x.op.at, j, x.ad[x.op.at][j].cfg)
    PROVE  LET y == Call(x, pc, k)
           IN  /\ Spot(y)
               /\ x.op.errs = {} /\ pc \in Smoothly /\ (pc # "retire" => Ordered(x)) => SpotClean(y)
<1>1. x \in Manager
  BY DEF Stands, Base
<1>2. PICK y : y = Call(x, pc, k)
  OBVIOUS
<1>3. /\ Frame(x, y) /\ y.map = x.map /\ y.ad = x.ad
      /\ y.op.pc = pc /\ y.op.kind = k /\ y.op.st = "call" /\ y.op.errs = x.op.errs
  BY <1>1, <1>2, CallFields
<1>4. /\ y.op.at = x.op.at /\ y.op.plan = x.op.plan /\ y.op.todo = x.op.todo
  BY <1>3 DEF Frame
<1>5. Kept(y, y.op.at) /\ \A j \in Kinds : ~y.ad[y.op.at][j].forced
  BY <1>3, <1>4 DEF Stands, Kept
<1>6. Ready(y)
  <2>1. pc # "reopen"
    BY DEF Reloading
  <2> QED BY <1>3, <1>4, <2>1 DEF Ready
<1>7. Spot(y)
  BY <1>3, <1>5, <1>6 DEF Spot, Busy
<1>8. x.op.errs = {} /\ pc \in Smoothly /\ (pc # "retire" => Ordered(x)) => SpotClean(y)
  BY <1>3, <1>4 DEF SpotClean, Busy, Ordered
<1> QED BY <1>2, <1>7, <1>8

\* A new adapter is called.
LEMMA NewCallSpot ==
    ASSUME NEW x, Stands(x), NEW d \in Desired, x.op.at \in DOMAIN x.op.plan, d = x.op.plan[x.op.at],
           NEW pc \in {"create", "substitute"},
           pc = "substitute" => \A j \in Kinds : j # d.kind => FromPlans(x.op.at, j, x.ad[x.op.at][j].cfg)
    PROVE  LET y == Call(Create(x, d), pc, d.kind)
           IN  Spot(y) /\ (x.op.errs = {} /\ Ordered(x) => SpotClean(y))
<1>1. x \in Manager /\ x.op.at \in Names /\ d.kind \in Kinds /\ d.kind # Absent
  BY DEF Stands, Base, Desired, Kinds, Absent
<1>2. PICK u : u = Create(x, d)
  OBVIOUS
<1>3. Frame(x, u) /\ u.op = x.op /\ u.map[x.op.at] = d.kind
  BY <1>1, <1>2, CreateFields
<1>4. PICK a \in Adapter :
        /\ Changes(x, u, d.kind, a)
        /\ a.cfg = d.cfg /\ a.enabled = FALSE /\ a.own = "none"
        /\ a.forced = FALSE /\ a.timer = FALSE /\ a.stray = FALSE
  BY <1>1, <1>2, CreateFields
<1>5. u \in Manager /\ pc \in Opening \cup Closing
  BY <1>3 DEF Frame, Opening
<1>6. PICK y : y = Call(u, pc, d.kind)
  OBVIOUS
<1>7. /\ Frame(u, y) /\ y.map = u.map /\ y.ad = u.ad
      /\ y.op.pc = pc /\ y.op.kind = d.kind /\ y.op.st = "call" /\ y.op.errs = u.op.errs
  <2>1. PICK j \in Kinds : j = d.kind
    BY <1>1
  <2>2. y = Call(u, pc, j)
    BY <1>6, <2>1
  <2>3. /\ Frame(u, y) /\ y.map = u.map /\ y.ad = u.ad
        /\ y.op.pc = pc /\ y.op.kind = j /\ y.op.st = "call" /\ y.op.errs = u.op.errs
    BY <1>5, <2>2, CallFields
  <2> QED BY <2>1, <2>3
<1>8. /\ y.op.at = x.op.at /\ y.op.plan = x.op.plan /\ y.op.todo = x.op.todo /\ y.op.errs = x.op.errs
      /\ y.map[x.op.at] = d.kind
  BY <1>3, <1>7 DEF Frame
<1>9. y.ad[x.op.at][d.kind] = a /\ \A j \in Kinds : j # d.kind => y.ad[x.op.at][j] = x.ad[x.op.at][j]
  BY <1>4, <1>7 DEF Changes
<1>10. FromPlans(x.op.at, d.kind, d.cfg)
  BY <1>1, PlanFrom
<1>11. Kept(y, y.op.at) /\ \A j \in Kinds : ~y.ad[y.op.at][j].forced
  BY <1>4, <1>8, <1>9, <1>10 DEF Kept, Stands
<1>12. Ready(y)
  <2>1. ~a.enabled /\ ~Holds(a)
    BY <1>4 DEF Holds
  <2>2. pc \notin Reloading /\ (pc \in Replacing => pc = "substitute")
    BY DEF Reloading, Replacing
  <2> QED BY <1>4, <1>7, <1>8, <1>9, <2>1, <2>2 DEF Ready
<1>13. Spot(y)
  BY <1>7, <1>11, <1>12 DEF Spot, Busy
<1>14. x.op.errs = {} /\ Ordered(x) => SpotClean(y)
  BY <1>7, <1>8 DEF SpotClean, Busy, Ordered, Smoothly
<1> QED BY <1>2, <1>6, <1>13, <1>14

\* A name of the plan.
LEMMA ApplySpot ==
    ASSUME NEW x, Planning(x), Stands(x), Tidy(x, x.op.at, x.map[x.op.at]), NEW ok \in BOOLEAN,
           x.map[x.op.at] = Absent \/ Steady(x.ad[x.op.at][x.map[x.op.at]])
    PROVE  LET y == Apply(x, x.op.plan[x.op.at], ok)
           IN  Spot(y) /\ (ok /\ x.op.errs = {} /\ Ordered(x) => SpotClean(y))
<1>1. x \in Manager /\ x.op.at \in Names /\ Base(x) /\ x.op.what # "shutdown" /\ x.op.at \in DOMAIN x.op.plan
  BY DEF Planning, Base
<1>2. PICK d \in Desired : d = x.op.plan[x.op.at]
  BY DEF Planning
<1>3. PICK k \in Kinds \cup {Absent} : k = x.map[x.op.at]
  BY <1>1 DEF Manager
<1>4. d.kind \in Kinds
  BY DEF Desired
<1>5. PICK y : y = Apply(x, d, ok)
  OBVIOUS
<1>6. y = IF k = Absent
            THEN IF ok THEN Call(Create(x, d), "create", d.kind) ELSE Done(Report(x))
          ELSE IF k = d.kind THEN ReloadSameKind(x, k, d.cfg)
          ELSE Call(x, "replace", k)
  BY <1>3, <1>5 DEF Apply
<1>7. CASE k = Absent /\ ok
  BY <1>1, <1>2, <1>5, <1>6, <1>7, NewCallSpot
<1>8. CASE k = Absent /\ ~ok
  <2>1. /\ Goes(x, y) /\ y.map = x.map /\ y.ad = x.ad /\ y.op.st = "run" /\ x.op.at \in y.op.errs
    BY <1>1, <1>6, <1>8, ReportGoes
  <2>2. y.op.at = x.op.at
    BY <2>1 DEF Goes, Frame
  <2>3. Spot(y)
    BY <1>3, <1>8, <2>1, <2>2 DEF Spot, Stands, Kept, Busy, Visible
  <2> QED BY <1>2, <1>5, <1>8, <2>3
<1>9. CASE k # Absent /\ k = d.kind
  <2>1. Spot(y) /\ (x.op.errs = {} /\ Ordered(x) => SpotClean(y))
    BY <1>2, <1>3, <1>4, <1>6, <1>9, SameKindSpot
  <2> QED BY <1>2, <1>5, <2>1
<1>10. CASE k # Absent /\ k # d.kind
  <2>1. \A j \in Kinds : j # d.kind => j = k
    BY <1>4, <1>10 DEF Kinds
  <2>2. FromPlans(x.op.at, k, x.ad[x.op.at][k].cfg)
    BY <1>3, <1>10 DEF Stands, Kept
  <2>3. "replace" \in Opening \cup Closing /\ "replace" \notin Reloading /\ "replace" \in Smoothly
    BY DEF Closing, Reloading, Smoothly
  <2>4. k \in Kinds
    BY <1>10
  <2>5. y = Call(x, "replace", k)
    BY <1>6, <1>10
  <2>6. \A j \in Kinds : j # x.op.plan[x.op.at].kind => FromPlans(x.op.at, j, x.ad[x.op.at][j].cfg)
    BY <1>2, <2>1, <2>2
  <2>7. Spot(y) /\ (x.op.errs = {} /\ Ordered(x) => SpotClean(y))
    BY <2>3, <2>4, <2>5, <2>6, PlainCallSpot
  <2> QED BY <1>2, <1>5, <2>7
<1> QED BY <1>7, <1>8, <1>9, <1>10

-----------------------------------------------------------------------------
(* What follows a call.                                                    *)

\* A call has settled: well, or not.
SettlesTo(x, ok) ==
    LET n == x.op.at
        ad == x.ad[n][x.op.kind]
        d == x.op.plan[n]
    IN  /\ Settles(x, ok) /\ Stands(x) /\ x.op.what # "shutdown"
        /\ x.op.pc \in {"create", "substitute", "reopen"} =>
            /\ ad.cfg = d.cfg
            /\ ok => (ad.enabled <=> d.cfg.on) /\ (Holds(ad) <=> d.cfg.on)
        /\ x.op.pc \in Reloading => FromPlans(n, x.op.kind, x.op.prev)
        /\ x.op.pc \in Replacing => \A k \in Kinds : k # d.kind => FromPlans(n, k, x.ad[n][k].cfg)

\* Nothing has failed since the operation began.
Clean(x) ==
    x.op.errs = {} /\ x.op.pc \in Smoothly /\ (x.op.pc # "retire" => Ordered(x))

\* The error is shown by the adapter of the map.
LEMMA FailSpot ==
    ASSUME NEW x, Stands(x), NEW k \in Kinds, x.map[x.op.at] = k
    PROVE  Spot(Done(Report(Mark(x, k))))
<1>1. x \in Manager /\ x.op.at \in Names /\ Fixed(x, k)
  BY DEF Stands, Base, Fixed
<1>2. PICK y : y = Done(Report(Mark(x, k)))
  OBVIOUS
<1>3. PICK a : /\ Like(a, x.ad[x.op.at][k]) /\ a.cfg = x.ad[x.op.at][k].cfg
               /\ Fails(x, y, k, a)
  BY <1>1, <1>2, FailsIs
<1>4. k # Absent
  BY DEF Kinds, Absent
<1>5. FromPlans(x.op.at, k, a.cfg)
  BY <1>3, <1>4 DEF Stands, Kept
<1>6. Spot(y)
  BY <1>1, <1>3, <1>5, FailsSpot
<1> QED BY <1>2, <1>6

\* The configuration of the plan is in force.
LEMMA SucceedSpot ==
    ASSUME NEW x, Stands(x), NEW k \in Kinds, x.map[x.op.at] = k,
           x.op.at \in DOMAIN x.op.plan, x.op.plan[x.op.at].kind = k,
           x.ad[x.op.at][k].cfg = x.op.plan[x.op.at].cfg,
           x.ad[x.op.at][k].enabled <=> x.op.plan[x.op.at].cfg.on,
           Holds(x.ad[x.op.at][k]) <=> x.op.plan[x.op.at].cfg.on
    PROVE  Spot(Done(Clear(x, k))) /\ (x.op.errs = {} => SpotClean(Done(Clear(x, k))))
<1>1. x \in Manager /\ x.op.at \in Names /\ Fixed(x, k)
  BY DEF Stands, Base, Fixed
<1>2. PICK y : y = Done(Clear(x, k))
  OBVIOUS
<1>3. PICK a : /\ Like(a, x.ad[x.op.at][k]) /\ a.cfg = x.ad[x.op.at][k].cfg
               /\ Succeeds(x, y, k, a)
  BY <1>1, <1>2, SucceedsIs
<1>4. k # Absent
  BY DEF Kinds, Absent
<1>5. FromPlans(x.op.at, k, a.cfg)
  BY <1>3, <1>4 DEF Stands, Kept
<1>6. (a.enabled <=> a.cfg.on) /\ (Holds(a) <=> a.cfg.on)
  BY <1>3, LikeWhole DEF Like
<1>7. Spot(y) /\ (x.op.errs = {} => SpotClean(y))
  BY <1>1, <1>3, <1>5, <1>6, SucceedsSpot
<1> QED BY <1>2, <1>7

\* An adapter that has released what it owned, and was not closed by force,
\* does not serve.
LEMMA ReleasedIdle ==
    ASSUME NEW k \in Kinds, NEW ad \in Adapter, Whole(k, ad), Released(ad), ~ad.forced
    PROVE  ~ad.enabled /\ ~Holds(ad)
<1>1. ~Holds(ad)
  BY DEF Released
<1>2. ad.enabled => Holds(ad)
  <2>1. ad.timer \in BOOLEAN
    BY DEF Adapter
  <2> QED BY <2>1 DEF Whole, Holds
<1> QED BY <1>1, <1>2

\* The end of a removed adapter.
LEMMA RetiredSpot ==
    ASSUME NEW x, NEW ok \in BOOLEAN, SettlesTo(x, ok), x.op.pc = "retire"
    PROVE  LET y == Retired(x, x.op.kind, ok)
           IN  Spot(y) /\ (ok /\ x.op.errs = {} => SpotClean(y))
<1>1. x \in Manager /\ x.op.at \in Names /\ Stands(x) /\ x.op.kind \in Kinds
  BY DEF SettlesTo, Stands, Base, Manager, Operation
<1>2. PICK k \in Kinds : k = x.op.kind
  BY <1>1
<1>3. x.map[x.op.at] = k /\ x.op.at \notin DOMAIN x.op.plan
  BY <1>2 DEF SettlesTo, Settles, Calling
<1>4. CASE ok
  <2>1. PICK u : u = SetKind(x, Absent)
    OBVIOUS
  <2>2. Frame(x, u) /\ u.op = x.op /\ u.ad = x.ad /\ u.map[x.op.at] = Absent
    BY <1>1, <2>1, SetKindFields
  <2>3. u \in Manager
    BY <2>2 DEF Frame
  <2>4. PICK y : y = Done(u)
    OBVIOUS
  <2>5. /\ Frame(u, y) /\ y.map = u.map /\ y.ad = u.ad /\ y.op.st = "run" /\ y.op.errs = u.op.errs
    BY <2>3, <2>4, DoneFields
  <2>6. /\ y.op.at = x.op.at /\ y.op.plan = x.op.plan /\ y.op.errs = x.op.errs
        /\ y.map[y.op.at] = Absent /\ y.ad = x.ad
    BY <2>2, <2>5 DEF Frame
  <2>7. Planned(y, y.op.at, y.op.plan)
    BY <1>3, <2>6 DEF Planned
  <2>8. Spot(y) /\ (x.op.errs = {} => SpotClean(y))
    BY <1>1, <2>5, <2>6, <2>7 DEF Spot, SpotClean, Busy, Visible, Kept, Stands
  <2>9. y = Retired(x, x.op.kind, ok)
    BY <1>4, <2>1, <2>4 DEF Retired
  <2> QED BY <2>8, <2>9
<1>5. CASE ~ok
  <2>1. Spot(Done(Report(Mark(x, k))))
    BY <1>1, <1>3, FailSpot
  <2> QED BY <1>2, <1>5, <2>1 DEF Retired
<1> QED BY <1>4, <1>5

\* What follows a call of reloadSameKind.
LEMMA ReloadingSpot ==
    ASSUME NEW x, NEW ok \in BOOLEAN, NEW make \in BOOLEAN, SettlesTo(x, ok), x.op.pc \in Reloading
    PROVE  LET y == Continue(x, ok, make)
           IN  Spot(y) /\ (ok /\ Clean(x) => SpotClean(y))
<1>1. PICK pc : pc = x.op.pc
  OBVIOUS
<1>2. PICK k : k = x.op.kind
  OBVIOUS
<1>3. PICK d : d = x.op.plan[x.op.at]
  OBVIOUS
<1>4. PICK y : y = Continue(x, ok, make)
  OBVIOUS
<1>5. Settles(x, ok) /\ Stands(x) /\ x.op.what # "shutdown"
  BY DEF SettlesTo
<1>6. Reloads(x, k) /\ d \in Desired
  <2>1. x.op.pc # "restore" /\ x.op.pc \notin {"shut", "retire"}
    BY DEF Reloading
  <2>2. x.op.kind \in Kinds
    BY <1>5 DEF Settles, Base, Manager, Operation
  <2> QED BY <1>2, <1>3, <1>5, <2>1, <2>2 DEF Settles, Calling, Reloads
<1>7. /\ d.cfg \in Config /\ x.op.prev \in Config /\ k \in Kinds /\ Base(x) /\ x \in Manager
      /\ Tidy(x, x.op.at, k) /\ x.map[x.op.at] = k /\ k # Absent /\ k = d.kind /\ x.op.at \in DOMAIN x.op.plan
  BY <1>3, <1>6 DEF Desired, Reloads, Base, Kinds, Absent
<1>8. PICK ad : ad = x.ad[x.op.at][k]
  OBVIOUS
<1>9. Fixed(x, k) /\ FromPlans(x.op.at, k, ad.cfg) /\ FromPlans(x.op.at, k, x.op.prev)
  BY <1>2, <1>5, <1>7, <1>8 DEF Fixed, Stands, Kept, SettlesTo
<1>10. FromPlans(x.op.at, k, d.cfg)
  BY <1>3, <1>7, PlanFrom
<1>11. ReloadsTo(x, k, d.cfg) /\ ReloadsTo(x, k, x.op.prev)
  BY <1>6, <1>8, <1>9, <1>10 DEF ReloadsTo
<1>12. pc \in Closing /\ ok => ~ad.enabled /\ ~Holds(ad)
  <2> SUFFICES ASSUME pc \in Closing, ok PROVE ~ad.enabled /\ ~Holds(ad)
    OBVIOUS
  <2>1. Released(ad) /\ ~ad.forced /\ Whole(k, ad)
    BY <1>1, <1>2, <1>5, <1>7, <1>8 DEF Settles, Stands, Tidy
  <2>2. ad \in Adapter
    BY <1>7, <1>8 DEF Base, Manager
  <2> QED BY <1>7, <2>1, <2>2, ReleasedIdle
<1>13. Clean(x) => x.op.errs = {} /\ Ordered(x)
  BY DEF Clean, Reloading
<1>14. CASE pc = "heal" /\ ok
  <2>1. y = Reload(x, k, d.cfg, "reclose", "reopen")
    BY <1>1, <1>2, <1>3, <1>4, <1>14 DEF Continue
  <2>2. ad.enabled <=> Holds(ad)
    BY <1>12, <1>14 DEF Closing
  <2>3. Spot(y) /\ (x.op.errs = {} /\ Ordered(x) => SpotClean(y))
    BY <1>3, <1>7, <1>8, <1>11, <2>1, <2>2, ReloadSpot
  <2> QED BY <1>4, <1>13, <2>3
<1>15. CASE pc = "reclose" /\ ok
  <2>1. y = Reopen(x, k, d.cfg, "reopen")
    BY <1>1, <1>2, <1>3, <1>4, <1>15 DEF Continue
  <2>2. ~ad.enabled /\ (ad.enabled <=> Holds(ad))
    BY <1>12, <1>15 DEF Closing
  <2>3. Spot(y) /\ (x.op.errs = {} /\ Ordered(x) => SpotClean(y))
    BY <1>3, <1>7, <1>8, <1>11, <2>1, <2>2, ReloadSpot
  <2> QED BY <1>4, <1>13, <2>3
<1>16. CASE pc = "reopen" /\ ok
  <2>1. y = Done(Clear(x, k))
    BY <1>1, <1>2, <1>3, <1>4, <1>16 DEF Continue
  <2>2. ad.cfg = d.cfg /\ (ad.enabled <=> d.cfg.on) /\ (Holds(ad) <=> d.cfg.on)
    BY <1>1, <1>2, <1>3, <1>8, <1>16 DEF SettlesTo
  <2>3. Spot(y) /\ (x.op.errs = {} => SpotClean(y))
    BY <1>3, <1>5, <1>7, <1>8, <2>1, <2>2, SucceedSpot
  <2> QED BY <1>4, <1>13, <2>3
<1>17. CASE pc \in {"heal", "reclose", "reopen"} /\ ~ok
  <2>1. y = Reload(x, k, x.op.prev, "backclose", "backopen")
    BY <1>1, <1>2, <1>3, <1>4, <1>17 DEF Continue
  <2>2. Spot(y)
    BY <1>7, <1>11, <2>1, ReloadBackSpot
  <2> QED BY <1>4, <1>17, <2>2
<1>18. CASE pc \in {"backclose", "backopen"}
  <2>1. ~Clean(x)
    BY <1>1, <1>18 DEF Clean, Smoothly
  <2>2. CASE pc = "backclose" /\ ok
    <3>1. y = Reopen(x, k, x.op.prev, "backopen")
      BY <1>1, <1>2, <1>3, <1>4, <2>2 DEF Continue
    <3>2. Spot(y)
      BY <1>7, <1>11, <3>1, ReloadBackSpot
    <3> QED BY <1>4, <2>1, <3>2
  <2>3. CASE ~(pc = "backclose" /\ ok)
    <3>1. y = Done(Report(Mark(x, k)))
      BY <1>1, <1>2, <1>3, <1>4, <1>18, <2>3 DEF Continue, ReloadFailed
    <3>2. Spot(y)
      BY <1>5, <1>7, <3>1, FailSpot
    <3> QED BY <1>4, <2>1, <3>2
  <2> QED BY <2>2, <2>3
<1> QED BY <1>1, <1>14, <1>15, <1>16, <1>17, <1>18 DEF Reloading

\* What follows a call of replaceKind.
LEMMA ReplacingSpot ==
    ASSUME NEW x, NEW ok \in BOOLEAN, NEW make \in BOOLEAN, SettlesTo(x, ok), x.op.pc \in Replacing
    PROVE  LET y == Continue(x, ok, make)
           IN  Spot(y) /\ (ok /\ make /\ Clean(x) => SpotClean(y))
<1>1. PICK pc : pc = x.op.pc
  OBVIOUS
<1>2. PICK d : d = x.op.plan[x.op.at]
  OBVIOUS
<1>3. PICK y : y = Continue(x, ok, make)
  OBVIOUS
<1>4. Settles(x, ok) /\ Stands(x) /\ Base(x) /\ x \in Manager /\ x.op.at \in Names
  BY DEF SettlesTo, Stands, Base
<1>5. PICK k \in Kinds : k = x.op.kind
  BY <1>4 DEF Manager, Operation
<1>6. /\ x.op.at \in DOMAIN x.op.plan /\ d \in Desired /\ d.kind \in Kinds
  BY <1>2, <1>4 DEF Settles, Calling, Replacing, Desired
<1>7. /\ pc \in {"substitute", "cleanup"} => k = d.kind /\ x.map[x.op.at] = k
      /\ pc \in {"replace", "reinstate"} => k # d.kind /\ x.map[x.op.at] = k
      /\ pc = "restore" => k # d.kind /\ x.map[x.op.at] = d.kind
  BY <1>1, <1>2, <1>4, <1>5 DEF Settles, Calling
<1>8. \A j \in Kinds : j # d.kind => FromPlans(x.op.at, j, x.ad[x.op.at][j].cfg)
  BY <1>2 DEF SettlesTo
<1>9. Clean(x) => x.op.errs = {} /\ Ordered(x) /\ pc \in {"replace", "substitute"}
  BY <1>1 DEF Clean, Replacing, Smoothly
<1>10. \A i \in {"reinstate", "cleanup", "restore"} :
            i \in Opening \cup Closing /\ i \notin Reloading /\ i \notin {"create", "substitute"}
  BY DEF Opening, Closing, Reloading
<1>11. CASE pc = "replace"
  <2>1. y = IF ~ok THEN Done(Report(Mark(x, k)))
            ELSE IF make THEN Call(Create(x, d), "substitute", d.kind)
            ELSE Call(x, "reinstate", k)
    BY <1>1, <1>2, <1>3, <1>5, <1>11 DEF Continue
  <2>2. CASE ~ok
    <3>1. Spot(y)
      BY <1>4, <1>7, <1>11, <2>1, <2>2, FailSpot
    <3> QED BY <1>3, <2>2, <3>1
  <2>3. CASE ok /\ make
    <3>1. Spot(y) /\ (x.op.errs = {} /\ Ordered(x) => SpotClean(y))
      BY <1>2, <1>4, <1>6, <1>8, <2>1, <2>3, NewCallSpot
    <3> QED BY <1>3, <1>9, <3>1
  <2>4. CASE ok /\ ~make
    <3>1. y = Call(x, "reinstate", k)
      BY <2>1, <2>4
    <3>2. Spot(y)
      BY <1>2, <1>4, <1>8, <1>10, <3>1, PlainCallSpot
    <3> QED BY <1>3, <2>4, <3>2
  <2> QED BY <2>2, <2>3, <2>4
<1>12. CASE pc = "reinstate"
  <2>1. y = Done(Report(Mark(x, k)))
    BY <1>1, <1>2, <1>3, <1>5, <1>12 DEF Continue
  <2>2. Spot(y)
    BY <1>4, <1>7, <1>12, <2>1, FailSpot
  <2> QED BY <1>3, <1>9, <1>12, <2>2
<1>13. CASE pc = "substitute"
  <2>1. y = IF ok THEN Done(Clear(x, k)) ELSE Call(x, "cleanup", k)
    BY <1>1, <1>2, <1>3, <1>5, <1>13 DEF Continue
  <2>2. CASE ok
    <3>1. /\ x.ad[x.op.at][k].cfg = d.cfg
          /\ x.ad[x.op.at][k].enabled <=> d.cfg.on
          /\ Holds(x.ad[x.op.at][k]) <=> d.cfg.on
      BY <1>1, <1>2, <1>5, <1>13, <2>2 DEF SettlesTo
    <3>2. Spot(y) /\ (x.op.errs = {} => SpotClean(y))
      BY <1>2, <1>4, <1>6, <1>7, <1>13, <2>1, <2>2, <3>1, SucceedSpot
    <3> QED BY <1>3, <1>9, <3>2
  <2>3. CASE ~ok
    <3>1. Spot(y)
      BY <1>2, <1>4, <1>8, <1>10, <2>1, <2>3, PlainCallSpot
    <3> QED BY <1>3, <2>3, <3>1
  <2> QED BY <2>2, <2>3
<1>14. CASE pc = "cleanup"
  <2>1. y = IF ok THEN Call(x, "restore", Other(k)) ELSE Done(Report(Mark(x, k)))
    BY <1>1, <1>2, <1>3, <1>5, <1>14 DEF Continue, CleanedUp
  <2>2. CASE ok
    <3>1. PICK j \in Kinds : j = Other(k)
      BY OtherKind
    <3>2. y = Call(x, "restore", j)
      BY <2>1, <2>2, <3>1
    <3>3. Spot(y)
      BY <1>2, <1>4, <1>8, <1>10, <3>2, PlainCallSpot
    <3> QED BY <1>3, <1>9, <1>14, <3>3
  <2>3. CASE ~ok
    <3>1. Spot(y)
      BY <1>4, <1>7, <1>14, <2>1, <2>3, FailSpot
    <3> QED BY <1>3, <2>3, <3>1
  <2> QED BY <2>2, <2>3
<1>15. CASE pc = "restore"
  <2>1. y = IF ok THEN Done(Report(SetKind(Mark(x, k), k))) ELSE Done(Report(Mark(x, Other(k))))
    BY <1>1, <1>2, <1>3, <1>5, <1>15 DEF Continue
  <2>2. CASE ok
    <3>1. PICK a : Restores(x, y, k, a)
      BY <1>4, <2>1, <2>2, RestoredFields
    <3>2. /\ Frame(x, y) /\ y.map[x.op.at] = k /\ Like(a, x.ad[x.op.at][k]) /\ a.failure = TRUE
          /\ a.cfg = x.ad[x.op.at][k].cfg /\ Changes(x, y, k, a) /\ y.op.st = "run"
      BY <3>1 DEF Restores
    <3>3. y.op.at = x.op.at /\ y.ad[x.op.at][k] = a /\ k # Absent
      BY <3>2 DEF Frame, Changes, Kinds, Absent
    <3>4. Kept(y, y.op.at)
      BY <1>7, <1>8, <1>15, <3>2, <3>3 DEF Kept
    <3>5. \A j \in Kinds : ~y.ad[y.op.at][j].forced
      BY <1>4, <3>2, <3>3, ZenonT(40) DEF Stands, Changes, Like
    <3>6. Visible(y, y.op.at, y.op.plan, y.op.errs)
      BY <3>2, <3>3 DEF Visible
    <3>7. Spot(y)
      BY <3>2, <3>4, <3>5, <3>6 DEF Spot, Busy
    <3> QED BY <1>3, <1>9, <1>15, <3>7
  <2>3. CASE ~ok
    <3>1. d.kind = Other(k)
      BY <1>6, <1>7, <1>15, OtherKind
    <3>2. Spot(y)
      BY <1>4, <1>6, <1>7, <1>15, <2>1, <2>3, <3>1, FailSpot
    <3> QED BY <1>3, <2>3, <3>2
  <2> QED BY <2>2, <2>3
<1> QED BY <1>1, <1>11, <1>12, <1>13, <1>14, <1>15 DEF Replacing

\* What follows a call.
LEMMA ContinueSpot ==
    ASSUME NEW x, NEW ok \in BOOLEAN, NEW make \in BOOLEAN, SettlesTo(x, ok)
    PROVE  LET y == Continue(x, ok, make)
           IN  Spot(y) /\ (ok /\ make /\ Clean(x) => SpotClean(y))
<1>1. PICK y : y = Continue(x, ok, make)
  OBVIOUS
<1>2. /\ x.op.pc \in Opening \cup Closing /\ Stands(x) /\ x.op.pc # "shut" /\ x \in Manager /\ Settles(x, ok)
  BY DEF SettlesTo, Settles, Calling, Base
<1>3. CASE x.op.pc = "retire"
  <2>1. y = Retired(x, x.op.kind, ok)
    BY <1>1, <1>3 DEF Continue
  <2>2. Spot(y) /\ (ok /\ x.op.errs = {} => SpotClean(y))
    BY <1>3, <2>1, RetiredSpot
  <2> QED BY <1>1, <2>2 DEF Clean
<1>4. CASE x.op.pc = "create"
  <2>1. PICK k \in Kinds : k = x.op.kind
    BY <1>2 DEF Manager, Operation
  <2>2. y = IF ok THEN Done(Clear(x, k)) ELSE Done(Report(Mark(x, k)))
    BY <1>1, <1>4, <2>1 DEF Continue
  <2>3. x.map[x.op.at] = k /\ x.op.plan[x.op.at].kind = k /\ x.op.at \in DOMAIN x.op.plan
    BY <1>2, <1>4, <2>1 DEF Settles, Calling
  <2>4. CASE ok
    <3>1. /\ x.ad[x.op.at][k].cfg = x.op.plan[x.op.at].cfg
          /\ x.ad[x.op.at][k].enabled <=> x.op.plan[x.op.at].cfg.on
          /\ Holds(x.ad[x.op.at][k]) <=> x.op.plan[x.op.at].cfg.on
      BY <1>4, <2>1, <2>4 DEF SettlesTo
    <3>2. Spot(y) /\ (x.op.errs = {} => SpotClean(y))
      BY <1>2, <2>2, <2>3, <2>4, <3>1, SucceedSpot
    <3> QED BY <1>1, <3>2 DEF Clean
  <2>5. CASE ~ok
    <3>1. Spot(y)
      BY <1>2, <2>2, <2>3, <2>5, FailSpot
    <3> QED BY <1>1, <2>5, <3>1
  <2> QED BY <2>4, <2>5
<1>5. CASE x.op.pc \in Reloading
  BY <1>5, ReloadingSpot
<1>6. CASE x.op.pc \in Replacing
  BY <1>6, ReplacingSpot
<1> QED BY <1>2, <1>3, <1>4, <1>5, <1>6 DEF Opening, Closing, Reloading, Replacing

-----------------------------------------------------------------------------
(* open() and close(), and their settling.                                 *)

\* A call leaves the configuration; open() of an adapter that owns nothing
\* opens it if its configuration wants that.
CalledReady(opens, ad, ok, r) ==
    /\ r.ad.cfg = ad.cfg
    /\ opens /\ ~ad.enabled /\ ~Holds(ad) =>
        /\ r.got = "wait" => ad.cfg.on
        /\ r.got = "ok" => (r.ad.enabled <=> ad.cfg.on) /\ (Holds(r.ad) <=> ad.cfg.on)
        /\ ok => r.got # "bad"

\* Either, of either.
LEMMA MethodReady ==
    ASSUME NEW k \in Kinds, NEW ad \in Adapter, NEW opens \in BOOLEAN, NEW ok \in BOOLEAN
    PROVE  CalledReady(opens, ad, ok, Method(k, opens, ad, ok))
<1>1. CASE k = "server" /\ opens
  <2> DEFINE r == ServerOpen(ad)
             b == [ad EXCEPT !.own = "binding"]
  <2>1. b.cfg = ad.cfg
    BY DEF Adapter
  <2>2. CASE ad.enabled \/ ~ad.cfg.on
    <3>1. r.ad = ad /\ r.got = "ok"
      BY <2>2 DEF ServerOpen
    <3> HIDE DEF r
    <3> QED BY <1>1, <2>2, <3>1 DEF CalledReady, Method, r
  <2>3. CASE ~(ad.enabled \/ ~ad.cfg.on) /\ ad.own # "none"
    <3>1. r.ad = ad /\ r.got = "bad" /\ Holds(ad)
      BY <2>3 DEF ServerOpen, Holds
    <3> HIDE DEF r
    <3> QED BY <1>1, <3>1 DEF CalledReady, Method, r
  <2>4. CASE ~(ad.enabled \/ ~ad.cfg.on) /\ ad.own = "none"
    <3>1. r.ad = b /\ r.got = "wait"
      BY <2>4 DEF ServerOpen
    <3> HIDE DEF r, b
    <3> QED BY <1>1, <2>1, <2>4, <3>1 DEF CalledReady, Method, r
  <2> QED BY <2>2, <2>3, <2>4
<1>2. CASE k = "server" /\ ~opens
  <2>1. ServerClose(ad).ad.cfg = ad.cfg
    BY DEF ServerClose, Adapter
  <2> QED BY <1>2, <2>1 DEF CalledReady, Method
<1>3. CASE k = "client" /\ opens
  <2> DEFINE r == ClientOpen(ad, ok)
             b == [ad EXCEPT !.enabled = TRUE, !.own = "held", !.failure = FALSE]
             c == [ad EXCEPT !.failure = TRUE]
  <2>1. b.cfg = ad.cfg /\ b.enabled = TRUE /\ b.own = "held" /\ c.cfg = ad.cfg
    BY DEF Adapter
  <2>2. CASE ad.enabled \/ ~ad.cfg.on
    <3>1. r.ad = ad /\ r.got = "ok"
      BY <2>2 DEF ClientOpen
    <3> HIDE DEF r
    <3> QED BY <1>3, <2>2, <3>1 DEF CalledReady, Method, r
  <2>3. CASE ~(ad.enabled \/ ~ad.cfg.on) /\ ok
    <3>1. r.ad = b /\ r.got = "ok"
      BY <2>3 DEF ClientOpen
    <3> HIDE DEF r, b
    <3>2. Holds(b)
      BY <2>1 DEF Holds
    <3> QED BY <1>3, <2>1, <2>3, <3>1, <3>2 DEF CalledReady, Method, r
  <2>4. CASE ~(ad.enabled \/ ~ad.cfg.on) /\ ~ok
    <3>1. r.ad = c /\ r.got = "bad"
      BY <2>4 DEF ClientOpen
    <3> HIDE DEF r, c
    <3> QED BY <1>3, <2>1, <2>4, <3>1 DEF CalledReady, Method, r
  <2> QED BY <2>2, <2>3, <2>4
<1>4. CASE k = "client" /\ ~opens
  <2>1. ClientClose(ad).ad.cfg = ad.cfg
    BY DEF ClientClose, Adapter
  <2> QED BY <1>4, <2>1 DEF CalledReady, Method
<1> QED BY <1>1, <1>2, <1>3, <1>4 DEF Kinds

\* A call of x waits, or has returned, at y.
CalledOn(x, y, ok, r) ==
    /\ r.got = "wait" => /\ Spot([y EXCEPT !.op.st = "wait"])
                         /\ SpotClean(x) => SpotClean([y EXCEPT !.op.st = "wait"])
    /\ r.got # "wait" => /\ SettlesTo(y, r.got = "ok")
                         /\ SpotClean(x) => Clean(y) /\ (ok => r.got = "ok")

\* It does.
LEMMA CalledSpot ==
    ASSUME NEW x, Sound(x), x.op.st = "call", x.accepting, Spot(x), NEW ok \in BOOLEAN, NEW r,
           Called(x.op.kind, x.op.pc \in Opening, x.ad[x.op.at][x.op.kind], r),
           CalledReady(x.op.pc \in Opening, x.ad[x.op.at][x.op.kind], ok, r),
           NEW y, y = [x EXCEPT !.ad[x.op.at][x.op.kind] = r.ad]
    PROVE  CalledOn(x, y, ok, r)
<1>1. Busy(x)
  BY DEF Busy
<1>2. PICK n : n = x.op.at
  OBVIOUS
<1>3. PICK k \in Kinds : k = x.op.kind
  BY <1>1, CallPlace
<1>4. PICK pc : pc = x.op.pc
  OBVIOUS
<1>5. /\ Base(x) /\ Calling(x) /\ x \in Manager /\ n \in Names /\ pc \in Opening \cup Closing
      /\ x.map[n] \in Kinds \cup {Absent}
  BY <1>1, <1>2, <1>4, CallPlace DEF Manager
<1>6. PICK a \in Adapter : a = r.ad
  BY DEF Called
<1>7. Frame(x, y) /\ y.op = x.op /\ y.map = x.map /\ Changes(x, y, k, a)
  BY <1>2, <1>3, <1>5, <1>6, PutAdapter
<1>8. y \in Manager
  BY <1>7 DEF Frame
<1>9. y.ad[n][k] = a /\ \A j \in Kinds : j # k => y.ad[n][j] = x.ad[n][j]
  BY <1>2, <1>7 DEF Changes
<1>10. a.forced = x.ad[n][k].forced /\ a.cfg = x.ad[n][k].cfg
  BY <1>2, <1>3, <1>6 DEF Called, CalledReady
<1>11. \A j \in Kinds : y.ad[n][j].forced = x.ad[n][j].forced /\ y.ad[n][j].cfg = x.ad[n][j].cfg
  BY <1>9, <1>10
<1>12. Kept(y, n) /\ (\A j \in Kinds : ~y.ad[n][j].forced) /\ Ready(x)
  <2>1. Kept(x, n) /\ (\A j \in Kinds : ~x.ad[n][j].forced) /\ Ready(x)
    BY <1>1, <1>2 DEF Spot
  <2>2. \A j \in Kinds : ~y.ad[n][j].forced
    BY <1>11, <2>1
  <2>3. Kept(y, n)
    <3>1. CASE x.map[n] = Absent
      BY <1>7, <3>1 DEF Kept
    <3>2. CASE x.map[n] \in Kinds
      <4>1. PICK j \in Kinds : j = x.map[n]
        BY <3>2
      <4>2. y.ad[n][j].cfg = x.ad[n][j].cfg /\ y.map[n] = j
        BY <1>7, <1>11, <4>1
      <4> QED BY <2>1, <4>1, <4>2 DEF Kept
    <3> QED BY <1>5, <3>1, <3>2
  <2> QED BY <2>1, <2>2, <2>3
<1>13. x.op.what # "shutdown"
  BY DEF Sound, Queueing
<1>14. PICK d : d = x.op.plan[n]
  OBVIOUS
<1>15. pc \in {"create", "substitute", "reopen"} =>
         /\ pc \in Opening /\ a.cfg = d.cfg
         /\ r.got = "wait" => d.cfg.on
         /\ r.got = "ok" => (a.enabled <=> d.cfg.on) /\ (Holds(a) <=> d.cfg.on)
         /\ ok => r.got # "bad"
  <2> SUFFICES ASSUME pc \in {"create", "substitute", "reopen"}
               PROVE  /\ pc \in Opening /\ a.cfg = d.cfg
                      /\ r.got = "wait" => d.cfg.on
                      /\ r.got = "ok" => (a.enabled <=> d.cfg.on) /\ (Holds(a) <=> d.cfg.on)
                      /\ ok => r.got # "bad"
    OBVIOUS
  <2>1. x.ad[n][k].cfg = d.cfg /\ ~x.ad[n][k].enabled /\ ~Holds(x.ad[n][k])
    BY <1>2, <1>3, <1>4, <1>12, <1>14 DEF Ready
  <2>2. pc \in Opening
    BY DEF Opening
  <2> QED BY <1>2, <1>3, <1>4, <1>6, <1>10, <2>1, <2>2 DEF CalledReady
<1>16. /\ pc \in Reloading => FromPlans(n, k, x.op.prev)
       /\ pc \in Replacing => \A j \in Kinds : j # d.kind => FromPlans(n, j, y.ad[n][j].cfg)
  BY <1>2, <1>3, <1>4, <1>11, <1>12, <1>14 DEF Ready
<1>17. ASSUME r.got = "wait"
       PROVE  /\ Spot([y EXCEPT !.op.st = "wait"])
              /\ SpotClean(x) => SpotClean([y EXCEPT !.op.st = "wait"])
  <2>1. PICK z : z = [y EXCEPT !.op.st = "wait"]
    OBVIOUS
  <2>2. /\ Frame(y, z) /\ z.map = y.map /\ z.ad = y.ad /\ z.op.errs = y.op.errs
        /\ z.op.pc = y.op.pc /\ z.op.kind = y.op.kind /\ z.op.st = "wait" /\ z.op.prev = y.op.prev
    BY <1>8, <2>1, StateFields
  <2>3. /\ z.op.at = n /\ z.op.plan = x.op.plan /\ z.op.todo = x.op.todo /\ z.op.pc = pc /\ z.op.kind = k
        /\ z.op.prev = x.op.prev /\ z.op.errs = x.op.errs
    BY <1>2, <1>3, <1>4, <1>7, <2>2 DEF Frame
  <2>4. Ready(z)
    BY <1>9, <1>14, <1>15, <1>16, <1>17, <2>2, <2>3, ZenonT(40) DEF Ready
  <2>5. Kept(z, n)
    BY <1>12, <2>2 DEF Kept
  <2>6. Spot(z)
    BY <1>12, <2>2, <2>3, <2>4, <2>5 DEF Spot, Busy
  <2>7. SpotClean(x) => SpotClean(z)
    BY <1>1, <1>2, <1>4, <2>2, <2>3 DEF SpotClean, Busy, Ordered
  <2> QED BY <2>1, <2>6, <2>7
<1>18. ASSUME r.got # "wait"
       PROVE  /\ SettlesTo(y, r.got = "ok")
              /\ SpotClean(x) => Clean(y) /\ (ok => r.got = "ok")
  <2>1. Settles(y, r.got = "ok") /\ Base(y)
    BY <1>18, CalledGoes
  <2>2. Stands(y)
    BY <1>2, <1>7, <1>12, <2>1 DEF Stands
  <2>3. SettlesTo(y, r.got = "ok")
    BY <1>2, <1>3, <1>4, <1>7, <1>9, <1>13, <1>14, <1>15, <1>16, <2>1, <2>2 DEF SettlesTo
  <2>4. SpotClean(x) => Clean(y)
    BY <1>1, <1>7 DEF SpotClean, Clean, Ordered
  <2>5. ASSUME SpotClean(x), ok
        PROVE  r.got = "ok"
    <3>1. pc \in Smoothly
      BY <1>1, <1>4, <2>5 DEF SpotClean
    <3>2. CASE pc \in {"create", "substitute", "reopen"}
      BY <1>15, <1>18, <2>5, <3>2 DEF Called
    <3>3. CASE pc \notin Opening
      BY <1>4, <1>18, <3>3 DEF Called
    <3> QED BY <3>1, <3>2, <3>3 DEF Smoothly, Opening
  <2> QED BY <2>3, <2>4, <2>5
<1> QED BY <1>17, <1>18 DEF CalledOn

\* The settling of a call leaves the configuration; a server that was being
\* opened serves, or not.
LEMMA SettledReady ==
    ASSUME NEW k \in Kinds, NEW ad \in Adapter, Whole(k, ad), ~ad.enabled, ~ad.forced,
           NEW opens \in BOOLEAN, k = "client" => ~opens,
           k = "server" => ad.own = (IF opens THEN "binding" ELSE "held") \/ ad.forced,
           NEW ok \in BOOLEAN, NEW listening \in BOOLEAN
    PROVE  LET a == Settled(k, opens, ad, ok, listening)
           IN  /\ a.cfg = ad.cfg /\ a.forced = ad.forced
               /\ opens /\ ok => a.enabled /\ Holds(a)
<1> DEFINE a == Settled(k, opens, ad, ok, listening)
<1>1. CASE k = "client"
  BY <1>1 DEF Settled
<1>2. CASE k = "server" /\ opens
  <2> DEFINE b == [ad EXCEPT !.own = "held", !.enabled = TRUE, !.failure = FALSE]
             c == [ad EXCEPT !.own = "none", !.enabled = FALSE, !.failure = TRUE]
  <2>1. a = IF ok THEN b ELSE c
    BY <1>2 DEF Settled, OpenSettles
  <2>2. /\ b.cfg = ad.cfg /\ b.forced = ad.forced /\ b.enabled = TRUE /\ b.own = "held"
        /\ c.cfg = ad.cfg /\ c.forced = ad.forced
    BY DEF Adapter
  <2> HIDE DEF a, b, c
  <2> QED BY <2>1, <2>2 DEF a, Holds
<1>3. CASE k = "server" /\ ~opens
  <2>1. PICK e : e = (ad.was /\ listening)
    OBVIOUS
  <2> DEFINE b == [ad EXCEPT !.own = "none"]
             c == [ad EXCEPT !.enabled = e]
  <2>2. a = IF ok THEN b ELSE c
    BY <1>3, <2>1 DEF Settled, ServerCloseSettles
  <2>3. /\ b.cfg = ad.cfg /\ b.forced = ad.forced
        /\ c.cfg = ad.cfg /\ c.forced = ad.forced
    BY DEF Adapter
  <2> HIDE DEF a, b, c
  <2> QED BY <1>3, <2>2, <2>3 DEF a
<1> QED BY <1>1, <1>2, <1>3 DEF Kinds

\* The call settles.
LEMMA SettledSpot ==
    ASSUME NEW x, Sound(x), x.op.st = "wait", x.accepting, Spot(x),
           NEW ok \in BOOLEAN, NEW listening \in BOOLEAN,
           NEW good \in BOOLEAN,
           good <=> ok \/ (x.op.pc \notin Opening /\ x.ad[x.op.at][x.op.kind].forced),
           NEW z, z = [[x EXCEPT !.ad[x.op.at][x.op.kind] =
                          Settled(x.op.kind, x.op.pc \in Opening, x.ad[x.op.at][x.op.kind], ok, listening)]
                       EXCEPT !.op.st = "run"]
    PROVE  SettlesTo(z, good) /\ (SpotClean(x) => Clean(z))
<1>1. Busy(x)
  BY DEF Busy
<1>2. PICK n : n = x.op.at
  OBVIOUS
<1>3. PICK k \in Kinds : k = x.op.kind
  BY <1>1, CallPlace
<1>4. PICK pc : pc = x.op.pc
  OBVIOUS
<1>5. PICK ad \in Adapter : ad = x.ad[n][k]
  BY <1>1, <1>2, <1>3, CallPlace
<1>6. PICK opens \in BOOLEAN : opens = (pc \in Opening)
  <2>1. (pc \in Opening) \in BOOLEAN
    OBVIOUS
  <2> QED BY <2>1, Zenon
<1>7. /\ Base(x) /\ Here(x) /\ x \in Manager /\ n \in Names
      /\ x.map[n] \in Kinds \cup {Absent}
  BY <1>1, <1>2, CallPlace DEF Manager
<1>8. Owned(x, n) /\ Awaiting(x)
  BY <1>2, <1>7 DEF Here
<1>9. Kept(x, n) /\ (\A j \in Kinds : ~x.ad[n][j].forced) /\ Ready(x)
  BY <1>1, <1>2 DEF Spot
<1>10. /\ ~ad.enabled /\ (k = "client" => ~opens) /\ ~ad.forced /\ Whole(k, ad)
       /\ k = "server" => ad.own = (IF opens THEN "binding" ELSE "held") \/ ad.forced
       /\ ~opens => ad.own # "binding"
  <2>1. /\ ~ad.enabled /\ (k = "client" => ~opens)
        /\ k = "server" => ad.own = (IF opens THEN "binding" ELSE "held") \/ ad.forced
    BY <1>2, <1>3, <1>4, <1>5, <1>6, <1>8 DEF Awaiting
  <2>2. Whole(k, ad) /\ (~opens => ad.own # "binding")
    BY <1>4, <1>5, <1>6, <1>8 DEF Owned
  <2>3. ~ad.forced
    BY <1>5, <1>9
  <2> QED BY <2>1, <2>2, <2>3
<1>11. PICK a : a = Settled(k, opens, ad, ok, listening)
  OBVIOUS
<1>12. a.cfg = ad.cfg /\ a.forced = ad.forced /\ (opens /\ ok => a.enabled /\ Holds(a))
  BY <1>10, <1>11, SettledReady
<1>13. a \in Adapter
  BY <1>10, <1>11, SettledAdapter
<1>14. PICK y : y = [x EXCEPT !.ad[x.op.at][k] = a]
  OBVIOUS
<1>15. Frame(x, y) /\ y.op = x.op /\ y.map = x.map /\ Changes(x, y, k, a)
  BY <1>2, <1>7, <1>13, <1>14, PutAdapter
<1>16. y \in Manager
  BY <1>15 DEF Frame
<1>17. PICK w : w = [y EXCEPT !.op.st = "run"]
  OBVIOUS
<1>18. /\ Frame(y, w) /\ w.map = y.map /\ w.ad = y.ad /\ w.op.errs = y.op.errs
       /\ w.op.pc = y.op.pc /\ w.op.kind = y.op.kind /\ w.op.prev = y.op.prev
  BY <1>16, <1>17, StateFields
<1>19. z = w
  BY <1>2, <1>3, <1>4, <1>5, <1>6, <1>11, <1>14, <1>17
<1>20. /\ w.map = x.map /\ w.op.at = n /\ w.op.plan = x.op.plan /\ w.op.pc = pc /\ w.op.kind = k
       /\ w.op.todo = x.op.todo /\ w.op.what = x.op.what /\ w.op.errs = x.op.errs /\ w.op.prev = x.op.prev
  BY <1>2, <1>3, <1>4, <1>15, <1>18 DEF Frame
<1>21. w.ad[n][k] = a /\ \A j \in Kinds : j # k => w.ad[n][j] = x.ad[n][j]
  BY <1>2, <1>15, <1>18 DEF Changes
<1>22. \A j \in Kinds : w.ad[n][j].forced = x.ad[n][j].forced /\ w.ad[n][j].cfg = x.ad[n][j].cfg
  BY <1>5, <1>12, <1>21
<1>23. Settles(w, good) /\ Base(w)
  <2>1. Settles(z, good)
    BY SettledGoes, ZenonT(40)
  <2>2. Base(z)
    BY <2>1 DEF Settles
  <2> QED BY <1>19, <2>1, <2>2
<1>24. Stands(w)
  <2>1. \A j \in Kinds : ~w.ad[n][j].forced
    BY <1>9, <1>22
  <2>2. Kept(w, n)
    <3>1. CASE x.map[n] = Absent
      BY <1>20, <3>1 DEF Kept
    <3>2. CASE x.map[n] \in Kinds
      <4>1. PICK j \in Kinds : j = x.map[n]
        BY <3>2
      <4>2. w.ad[n][j].cfg = x.ad[n][j].cfg /\ w.map[n] = j
        BY <1>20, <1>22, <4>1
      <4> QED BY <1>9, <4>1, <4>2 DEF Kept
    <3> QED BY <1>7, <3>1, <3>2
  <2> QED BY <1>20, <1>23, <2>1, <2>2 DEF Stands
<1>25. PICK d : d = x.op.plan[n]
  OBVIOUS
<1>26. pc \in {"create", "substitute", "reopen"} =>
         /\ a.cfg = d.cfg
         /\ good => (a.enabled <=> d.cfg.on) /\ (Holds(a) <=> d.cfg.on)
  <2> SUFFICES ASSUME pc \in {"create", "substitute", "reopen"}
               PROVE  /\ a.cfg = d.cfg
                      /\ good => (a.enabled <=> d.cfg.on) /\ (Holds(a) <=> d.cfg.on)
    OBVIOUS
  <2>1. ad.cfg = d.cfg /\ d.cfg.on
    BY <1>2, <1>3, <1>4, <1>5, <1>9, <1>25 DEF Ready
  <2>2. pc \in Opening /\ opens
    BY <1>6 DEF Opening
  <2>3. good => ok
    BY <1>4, <2>2
  <2> QED BY <1>12, <2>1, <2>2, <2>3
<1>27. /\ pc \in Reloading => FromPlans(n, k, x.op.prev)
       /\ pc \in Replacing => \A j \in Kinds : j # d.kind => FromPlans(n, j, w.ad[n][j].cfg)
  BY <1>2, <1>3, <1>4, <1>9, <1>22, <1>25 DEF Ready
<1>28. x.op.what # "shutdown"
  BY DEF Sound, Queueing
<1>29. SettlesTo(w, good)
  BY <1>20, <1>21, <1>23, <1>24, <1>25, <1>26, <1>27, <1>28, ZenonT(40) DEF SettlesTo
<1>30. SpotClean(x) => Clean(w)
  BY <1>1, <1>2, <1>4, <1>20 DEF SpotClean, Clean, Ordered
<1> QED BY <1>19, <1>29, <1>30

-----------------------------------------------------------------------------
(* Ports.                                                                  *)

\* As long as nothing fails, no adapter has the port that is being bound.
LEMMA NotTaken ==
    ASSUME PortsApart, Sound(m), m.accepting, Beyond(m), BeyondClean(m), Spot(m), SpotClean(m),
           m.op.st = "wait", m.op.pc \in Opening
    PROVE  ~Taken(m.op.at, m.op.kind)
<1>1. Busy(m)
  BY DEF Busy
<1>2. PICK n \in Names : n = m.op.at
  BY <1>1, CallPlace
<1>3. /\ Base(m) /\ Here(m) /\ Calling(m) /\ m \in Manager
  BY <1>1, CallPlace
<1>4. PICK k : k = m.op.kind
  OBVIOUS
<1>5. PICK p : p = m.op.plan
  OBVIOUS
<1>6. k = "server"
  <2>1. Awaiting(m) /\ m.op.kind \in Kinds
    BY <1>3 DEF Here, Manager, Operation
  <2> QED BY <1>4, <2>1 DEF Awaiting, Kinds
<1>7. m.op.pc \in {"create", "reopen", "substitute"} /\ Ordered(m)
  BY <1>1 DEF SpotClean, Smoothly, Opening
<1>8. /\ n \in DOMAIN p /\ m.op.todo \subseteq DOMAIN p /\ p[n].kind = "server"
  BY <1>2, <1>3, <1>4, <1>5, <1>6, <1>7 DEF Calling, Reloading
<1>9. m.ad[n][k].cfg = p[n].cfg /\ p[n].cfg.on
  BY <1>1, <1>2, <1>4, <1>5, <1>7 DEF Spot, Ready
<1>10. p \in Plans
  BY <1>3, <1>5, <1>8, PlanDesired
<1>11. ASSUME NEW o \in Names, NEW j \in Kinds, <<o, j>> # <<n, k>>, Bound(m, o, j),
              m.ad[o][j].cfg.port = m.ad[n][k].cfg.port
       PROVE  FALSE
  <2>1. j = "server" /\ m.ad[o]["server"].own = "held" /\ o # n
    BY <1>6, <1>11 DEF Bound
  <2>2. Holds(m.ad[o]["server"])
    BY <2>1 DEF Holds
  <2>3. ~m.ad[o]["server"].forced /\ Kept(m, o)
    BY <1>2, <2>1 DEF Beyond
  <2>4. m.map[o] = "server"
    BY <1>2, <1>3, <2>1, <2>2, <2>3 DEF Base, Tidy
  <2>5. PICK c : c = m.ad[o]["server"].cfg
    OBVIOUS
  <2>6. c.port = p[n].cfg.port
    BY <1>9, <1>11, <2>1, <2>5
  <2>7. PICK q \in Plans : o \in DOMAIN q /\ q[o].kind = "server" /\ q[o].cfg = c
    BY <2>3, <2>4, <2>5 DEF Kept, FromPlans, Absent
  <2>8. CASE o \in m.op.todo
    <3>1. n < o /\ o \in DOMAIN p \cap DOMAIN q
      BY <1>2, <1>7, <1>8, <2>7, <2>8 DEF Ordered
    <3> QED BY <1>8, <1>9, <1>10, <2>6, <2>7, <3>1 DEF PortsApart
  <2>9. CASE o \notin m.op.todo
    <3>1. Planned(m, o, p)
      BY <1>2, <1>5, <2>1, <2>9 DEF BeyondClean
    <3>2. o \in DOMAIN p
      BY <2>4, <3>1 DEF Planned, Absent
    <3>3. p[o].kind = "server" /\ p[o].cfg = c /\ p[o].cfg.on
      <4>1. Fits(m, o, p[o])
        BY <3>1, <3>2 DEF Planned
      <4>2. p[o].kind = "server"
        BY <2>4, <4>1 DEF Fits
      <4> QED BY <2>2, <2>5, <4>1, <4>2 DEF Fits
    <3>4. n < o \/ o < n
      <4>1. n \in Nat /\ o \in Nat
        BY NamesAssumption
      <4> QED BY <2>1, <4>1
    <3> QED BY <1>8, <1>9, <1>10, <2>6, <3>2, <3>3, <3>4 DEF PortsApart
  <2> QED BY <2>8, <2>9
<1> QED BY <1>2, <1>4, <1>11 DEF Taken

\* The first of the names that are left comes before the others.
LEMMA LeastName ==
    ASSUME NEW S \in SUBSET Names, S # {}
    PROVE  Min(S) \in S /\ \A o \in S \ {Min(S)} : Min(S) < o
<1>1. S \subseteq Nat
  BY NamesAssumption
<1>2. PICK l \in S : \A i \in S : ~ <<i, l>> \in OpToRel(<, Nat)
  BY <1>1, NatLessThanWellFounded, WFMin
<1>3. \A i \in S : l =< i
  <2> SUFFICES ASSUME NEW i \in S PROVE l =< i
    OBVIOUS
  <2>1. i \in Nat /\ l \in Nat /\ ~(i < l)
    BY <1>1, <1>2 DEF OpToRel
  <2> QED BY <2>1
<1>4. Min(S) \in S /\ \A i \in S : Min(S) =< i
  BY <1>3 DEF Min
<1>5. ASSUME NEW o \in S, o # Min(S)
      PROVE  Min(S) < o
  <2>1. Min(S) \in Nat /\ o \in Nat /\ Min(S) =< o
    BY <1>1, <1>4
  <2> QED BY <1>5, <2>1
<1> QED BY <1>4, <1>5

-----------------------------------------------------------------------------
(* The steps of an operation.                                              *)

\* A step that leaves the map, the adapters and the operation as they are.
LEMMA SameApplying ==
    ASSUME NEW x, NEW y, Applying(x), y.map = x.map, y.ad = x.ad, y.op = x.op,
           y.last.plan = x.last.plan, y.last.errs = x.last.errs, y.accepting => x.accepting
    PROVE  Applying(y) /\ (Healing(x) /\ (y.last.clean => x.last.clean) => Healing(y))
<1>1. \A n \in Names : Kept(x, n) => Kept(y, n)
  BY DEF Kept
<1>2. \A n \in Names : \A p : Planned(x, n, p) => Planned(y, n, p)
  BY DEF Planned, Fits
<1>3. \A n \in Names : \A p, e : Visible(x, n, p, e) => Visible(y, n, p, e)
  BY <1>2 DEF Visible
<1>4. Busy(y) = Busy(x) /\ (Ready(x) => Ready(y)) /\ (Ordered(x) => Ordered(y))
  BY DEF Busy, Ready, Ordered
<1>5. \A n \in Names : At(x, n) => At(y, n)
  BY DEF At, Busy
<1>6. Applying(y)
  BY <1>1, <1>3, <1>4, <1>5 DEF Applying
<1>7. Healing(x) /\ (y.last.clean => x.last.clean) => Healing(y)
  BY <1>2, <1>4, <1>5 DEF Healing
<1> QED BY <1>6, <1>7

\* A step that may fail.
LEMMA FaultApplies ==
    ASSUME NEW x, Sound(x), Applying(x), NEW failed \in BOOLEAN, Fault(x, failed)
    PROVE  Applying(m') /\ ((~failed => Healing(x)) => Healing(m'))
<1>1. m' = IF failed THEN [x EXCEPT !.last.clean = FALSE] ELSE x
  BY DEF Fault
<1>2. CASE ~failed
  BY <1>1, <1>2
<1>3. CASE failed
  <2>1. PICK y : y = [x EXCEPT !.last.clean = FALSE]
    OBVIOUS
  <2>2. y.op = x.op /\ y.map = x.map /\ y.ad = x.ad
    BY <2>1, FaultSound
  <2>3. x \in Manager /\ x.last \in Last
    BY DEF Sound, Manager
  <2>4. /\ y.last.plan = x.last.plan /\ y.last.errs = x.last.errs /\ y.last.clean = FALSE
        /\ y.accepting = x.accepting
    BY <2>1, <2>3 DEF Manager, Last
  <2>5. Applying(y)
    BY <2>2, <2>4, SameApplying
  <2>6. Healing(y)
    BY <2>4 DEF Healing
  <2> QED BY <1>1, <1>3, <2>1, <2>5, <2>6
<1> QED BY <1>2, <1>3

\* The operation goes on, at its name.
LEMMA GoesApplies ==
    ASSUME NEW x, NEW w, Base(x), Frame(x, w), x.accepting => Beyond(x) /\ Spot(w)
    PROVE  /\ Applying(w)
           /\ (x.accepting /\ x.last.clean => BeyondClean(x) /\ SpotClean(w)) => Healing(w)
<1>1. Base(w) /\ w.accepting = x.accepting /\ w.last = x.last
  BY BaseFrame DEF Frame
<1>2. CASE ~x.accepting
  BY <1>1, <1>2 DEF Applying, Healing
<1>3. CASE x.accepting
  <2>1. Beyond(w) /\ (BeyondClean(x) => BeyondClean(w))
    BY <1>3, BeyondFrame
  <2>2. Applying(w)
    BY <1>1, <1>3, <2>1, SpotApplying
  <2>3. CASE x.last.clean
    BY <1>1, <1>3, <2>1, <2>2, <2>3, SpotApplying
  <2>4. CASE ~x.last.clean
    BY <1>1, <2>2, <2>4 DEF Healing
  <2> QED BY <2>3, <2>4
<1> QED BY <1>2, <1>3

\* open() or close() is called.
LEMMA CallMethodApplies ==
    ASSUME IInv, Applying(m), CallMethod
    PROVE  Applying(m') /\ (Healing(m) => Healing(m'))
<1>1. Sound(m) /\ m.op.st = "call" /\ Busy(m)
  BY DEF IInv, CallMethod, Busy
<1>2. PICK n : n = m.op.at
  OBVIOUS
<1>3. PICK k \in Kinds : k = m.op.kind
  BY <1>1, CallPlace
<1>4. PICK ad \in Adapter : ad = m.ad[n][k]
  BY <1>1, <1>2, <1>3, CallPlace
<1>5. PICK opens \in BOOLEAN : opens = (m.op.pc \in Opening)
  <2>1. (m.op.pc \in Opening) \in BOOLEAN
    OBVIOUS
  <2> QED BY <2>1, Zenon
<1>6. Whole(k, ad) /\ ad.own # "binding"
  <2>1. Owned(m, n)
    BY <1>1, <1>2, CallPlace DEF Sound
  <2> QED BY <1>1, <1>4, <2>1 DEF Owned
<1>7. PICK ok, make \in BOOLEAN :
        LET n1 == m.op.at
            k1 == m.op.kind
            opens1 == m.op.pc \in Opening
            ad1 == m.ad[n1][k1]
            r == IF k1 = "server" THEN IF opens1 THEN ServerOpen(ad1) ELSE ServerClose(ad1)
                 ELSE IF opens1 THEN ClientOpen(ad1, ok) ELSE ClientClose(ad1)
            x == [m EXCEPT !.ad[n1][k1] = r.ad]
            tries == opens1 /\ k1 = "client" /\ ~ad1.enabled /\ ad1.cfg.on
        IN  /\ ok \/ tries
            /\ make \/ Creates(m.op.pc, r.got = "ok")
            /\ Fault(IF r.got = "wait" THEN [x EXCEPT !.op.st = "wait"]
                     ELSE Continue(x, r.got = "ok", make),
                     ~ok \/ ~make)
  BY Zenon DEF CallMethod
<1>8. PICK r : r = Method(m.op.kind, m.op.pc \in Opening, m.ad[m.op.at][m.op.kind], ok)
  OBVIOUS
<1>9. Called(k, opens, ad, r) /\ CalledReady(opens, ad, ok, r)
  BY <1>2, <1>3, <1>4, <1>5, <1>6, <1>8, MethodCalled, MethodReady
<1>10. PICK y : y = [m EXCEPT !.ad[m.op.at][m.op.kind] = r.ad]
  OBVIOUS
<1>11. /\ Base(y) /\ Frame(m, y)
       /\ r.got = "wait" => Goes(y, [y EXCEPT !.op.st = "wait"])
       /\ r.got # "wait" => Settles(y, r.got = "ok")
  BY <1>1, <1>2, <1>3, <1>4, <1>5, <1>9, <1>10, CalledGoes
<1>12. y.accepting = m.accepting /\ y.last = m.last
  BY <1>11 DEF Frame
<1>13. PICK failed \in BOOLEAN :
         /\ Fault(IF r.got = "wait" THEN [y EXCEPT !.op.st = "wait"] ELSE Continue(y, r.got = "ok", make), failed)
         /\ ~failed => ok /\ make
  <2>1. Fault(IF r.got = "wait" THEN [y EXCEPT !.op.st = "wait"] ELSE Continue(y, r.got = "ok", make),
              ~ok \/ ~make)
    BY <1>7, <1>8, <1>10 DEF Method
  <2>2. PICK failed \in BOOLEAN : failed = (~ok \/ ~make)
    <3>1. (~ok \/ ~make) \in BOOLEAN
      OBVIOUS
    <3> QED BY <3>1, Zenon
  <2> QED BY <2>1, <2>2
<1>14. m.accepting => Beyond(y) /\ Spot(m)
  BY <1>1, <1>11, ApplyingSpot, BeyondFrame
<1>15. m.accepting /\ m.last.clean /\ Healing(m) => BeyondClean(y) /\ SpotClean(m)
  BY <1>1, <1>11, ApplyingSpot, BeyondFrame
<1>16. /\ Called(m.op.kind, m.op.pc \in Opening, m.ad[m.op.at][m.op.kind], r)
       /\ CalledReady(m.op.pc \in Opening, m.ad[m.op.at][m.op.kind], ok, r)
  BY <1>2, <1>3, <1>4, <1>5, <1>9
<1>17. ASSUME m.accepting
       PROVE  CalledOn(m, y, ok, r)
  <2>1. Spot(m)
    BY <1>14, <1>17
  <2> QED BY <1>1, <1>10, <1>16, <1>17, <2>1, CalledSpot
<1>18. CASE r.got = "wait"
  <2>1. PICK z : z = [y EXCEPT !.op.st = "wait"]
    OBVIOUS
  <2>2. Frame(y, z) /\ Here(z)
    BY <1>11, <1>18, <2>1 DEF Goes
  <2>3. Sound(z)
    BY <1>11, <2>2, BaseFrame, SoundHere
  <2>4. m.accepting => Spot(z) /\ (SpotClean(m) => SpotClean(z))
    BY <1>17, <1>18, <2>1 DEF CalledOn
  <2>5. Applying(z) /\ (Healing(m) => Healing(z))
    BY <1>11, <1>12, <1>14, <1>15, <2>2, <2>4, GoesApplies
  <2> QED BY <1>13, <1>18, <2>1, <2>3, <2>5, FaultApplies
<1>19. CASE r.got # "wait"
  <2>1. PICK good \in BOOLEAN : good = (r.got = "ok")
    <3>1. (r.got = "ok") \in BOOLEAN
      OBVIOUS
    <3> QED BY <3>1, Zenon
  <2>2. PICK z : z = Continue(y, good, make)
    OBVIOUS
  <2>3. Sound(z) /\ Frame(y, z)
    BY <1>11, <1>19, <2>1, <2>2, ContinueGoes DEF Goes
  <2>4. m.accepting => SettlesTo(y, good) /\ (SpotClean(m) => Clean(y) /\ (ok => good))
    BY <1>17, <1>19, <2>1 DEF CalledOn
  <2>5. m.accepting => Spot(z) /\ (ok /\ make /\ SpotClean(m) => SpotClean(z))
    BY <2>2, <2>4, ContinueSpot
  <2>6. Applying(z) /\ (ok /\ make /\ Healing(m) => Healing(z))
    BY <1>11, <1>12, <1>14, <1>15, <2>3, <2>5, GoesApplies
  <2> QED BY <1>13, <1>19, <2>1, <2>2, <2>3, <2>6, FaultApplies
<1> QED BY <1>18, <1>19

\* A call settles.
LEMMA CallSettlesApplies ==
    ASSUME IInv, Applying(m), CallSettles
    PROVE  Applying(m') /\ (PortsApart /\ Healing(m) => Healing(m'))
<1>1. Sound(m) /\ m.op.st = "wait" /\ Busy(m)
  BY DEF IInv, CallSettles, Busy
<1>2. PICK ok, make, listening \in BOOLEAN :
        LET n == m.op.at
            k == m.op.kind
            ad == m.ad[n][k]
            opens == m.op.pc \in Opening
            dropped == opens /\ ad.own # "binding"
            taken == opens /\ Taken(n, k)
            x == [m EXCEPT !.ad[n][k] =
                    IF k = "client" THEN ad
                    ELSE IF opens THEN OpenSettles(ad, ok)
                    ELSE ServerCloseSettles(ad, ok, listening)]
            good == ok \/ (~opens /\ ad.forced)
        IN  /\ dropped \/ taken => ~ok
            /\ ok => listening
            /\ ~ok => k = "server"
            /\ make \/ Creates(m.op.pc, good)
            /\ Fault(Continue([x EXCEPT !.op.st = "run"], good, make),
                     ~make \/ ~(ok \/ dropped \/ taken))
  BY Zenon DEF CallSettles
<1>3. PICK good \in BOOLEAN : good = (ok \/ (m.op.pc \notin Opening /\ m.ad[m.op.at][m.op.kind].forced))
  <2>1. (ok \/ (m.op.pc \notin Opening /\ m.ad[m.op.at][m.op.kind].forced)) \in BOOLEAN
    OBVIOUS
  <2> QED BY <2>1, Zenon
<1>4. PICK z : z = [[m EXCEPT !.ad[m.op.at][m.op.kind] =
                        Settled(m.op.kind, m.op.pc \in Opening, m.ad[m.op.at][m.op.kind], ok, listening)]
                    EXCEPT !.op.st = "run"]
  OBVIOUS
<1>5. Settles(z, good) /\ Frame(m, z) /\ Base(z)
  <2>1. Settles(z, good) /\ Frame(m, z)
    BY <1>1, <1>3, <1>4, SettledGoes, ZenonT(40)
  <2> QED BY <2>1 DEF Settles
<1>6. PICK w : w = Continue(z, good, make)
  OBVIOUS
<1>7. Sound(w) /\ Frame(z, w)
  BY <1>5, <1>6, ContinueGoes DEF Goes
<1>8. PICK failed \in BOOLEAN :
        /\ Fault(w, failed)
        /\ ~failed => make /\ (ok \/ (m.op.pc \in Opening /\ m.ad[m.op.at][m.op.kind].own # "binding")
                                  \/ (m.op.pc \in Opening /\ Taken(m.op.at, m.op.kind)))
  <2> DEFINE f == ~make \/ ~(ok \/ (m.op.pc \in Opening /\ m.ad[m.op.at][m.op.kind].own # "binding")
                                \/ (m.op.pc \in Opening /\ Taken(m.op.at, m.op.kind)))
  <2>1. Fault(w, f)
    BY <1>2, <1>3, <1>4, <1>6 DEF Settled
  <2>2. f \in BOOLEAN
    OBVIOUS
  <2>3. PICK failed \in BOOLEAN : failed = f
    BY <2>2, Zenon
  <2> QED BY <2>1, <2>3
<1>9. z.accepting = m.accepting /\ z.last = m.last
  BY <1>5 DEF Frame
<1>10. m.accepting => Beyond(z) /\ Spot(m) /\ Beyond(m)
  BY <1>1, <1>5, ApplyingSpot, BeyondFrame
<1>11. m.accepting /\ m.last.clean /\ Healing(m) => BeyondClean(z) /\ SpotClean(m) /\ BeyondClean(m)
  BY <1>1, <1>5, ApplyingSpot, BeyondFrame
<1>12. m.accepting => SettlesTo(z, good) /\ (SpotClean(m) => Clean(z))
  BY <1>1, <1>3, <1>4, <1>10, SettledSpot, ZenonT(40)
<1>13. m.accepting => Spot(w) /\ (good /\ make /\ SpotClean(m) => SpotClean(w))
  BY <1>6, <1>12, ContinueSpot
<1>14. Applying(w)
  BY <1>5, <1>7, <1>9, <1>10, <1>13, GoesApplies
<1>15. ASSUME PortsApart, Healing(m), ~failed
       PROVE  Healing(w)
  <2>1. ASSUME m.accepting, m.last.clean
        PROVE  BeyondClean(z) /\ SpotClean(w)
    <3>1. BeyondClean(z) /\ SpotClean(m) /\ BeyondClean(m) /\ Spot(m) /\ Beyond(m)
      BY <1>10, <1>11, <1>15, <2>1
    <3>2. m.op.pc \in Opening => ~Taken(m.op.at, m.op.kind)
      BY <1>1, <1>15, <2>1, <3>1, NotTaken
    <3>3. m.op.pc \in Opening => m.ad[m.op.at][m.op.kind].own = "binding"
      <4>1. Awaiting(m) /\ m.op.kind \in Kinds
        BY <1>1, CallPlace DEF Here
      <4>2. ~m.ad[m.op.at][m.op.kind].forced
        BY <3>1, <4>1 DEF Spot
      <4> QED BY <4>1, <4>2 DEF Awaiting, Kinds
    <3>4. good /\ make
      BY <1>3, <1>8, <1>15, <3>2, <3>3
    <3> QED BY <1>13, <2>1, <3>1, <3>4
  <2> QED BY <1>5, <1>7, <1>9, <1>10, <1>13, <2>1, GoesApplies
<1> QED BY <1>7, <1>8, <1>14, <1>15, FaultApplies

\* The next name.
LEMMA NextNameApplies ==
    ASSUME IInv, Applying(m), NextName
    PROVE  Applying(m') /\ (Healing(m) => Healing(m'))
<1>1. Sound(m) /\ m.op.what # "idle" /\ m.op.st = "run" /\ m \in Manager /\ m.op.todo \subseteq Names
  BY DEF IInv, NextName, Idle, Sound, Manager, Operation
<1>2. PICK n \in m.op.todo, ok \in BOOLEAN :
        LET leaving == m.op.todo \ DOMAIN m.op.plan
            x == [m EXCEPT !.op.at = n, !.op.todo = @ \ {n}]
            creates == leaving = {} /\ m.map[n] = Absent
        IN  /\ IF leaving # {} THEN n \in leaving ELSE n = Min(m.op.todo)
            /\ ok \/ creates
            /\ Fault(IF leaving = {} THEN Apply(x, m.op.plan[n], ok)
                     ELSE Call(x, IF m.op.what = "shutdown" THEN "shut" ELSE "retire", m.map[n]),
                     ~ok)
  BY Zenon DEF NextName
<1>3. PICK leaving : leaving = m.op.todo \ DOMAIN m.op.plan
  OBVIOUS
<1>4. PICK x : x = Turned(m, n)
  OBVIOUS
<1>5. /\ Base(x) /\ x.op.at = n /\ x.op.todo = m.op.todo \ {n} /\ x.op.what = m.op.what
      /\ x.op.plan = m.op.plan /\ x.op.errs = m.op.errs /\ x.map = m.map /\ x.ad = m.ad
      /\ x.last = m.last /\ x.accepting = m.accepting /\ Tidy(x, n, x.map[n])
  BY <1>1, <1>4, TurnsTo
<1>6. PICK failed \in BOOLEAN : failed = ~ok
  OBVIOUS
<1>7. /\ IF leaving # {} THEN n \in leaving ELSE n = Min(m.op.todo)
      /\ Fault(IF leaving = {} THEN Apply(x, m.op.plan[n], ok)
               ELSE Call(x, IF m.op.what = "shutdown" THEN "shut" ELSE "retire", m.map[n]), failed)
  BY <1>2, <1>3, <1>4, <1>6 DEF Turned
<1>8. ASSUME m.accepting
      PROVE  /\ Beyond(x) /\ Stands(x) /\ (x.map[n] = Absent \/ Steady(x.ad[n][x.map[n]]))
             /\ m.op.what # "shutdown"
  <2>1. \A i \in Names : /\ Kept(x, i) /\ \A k \in Kinds : ~x.ad[i][k].forced
                         /\ Visible(m, i, m.op.plan, m.op.errs) => Visible(x, i, x.op.plan, x.op.errs)
    <3>1. \A i \in Names : Kept(m, i) /\ \A k \in Kinds : ~m.ad[i][k].forced
      BY <1>8 DEF Applying
    <3> QED BY <1>5, <3>1 DEF Kept, Visible, Planned, Fits
  <2>2. /\ \A i \in Names \ m.op.todo : Visible(m, i, m.op.plan, m.op.errs)
        /\ \A i \in m.op.todo : m.map[i] = Absent \/ Steady(m.ad[i][m.map[i]])
    BY <1>1, <1>8 DEF Applying, At, Busy
  <2>3. Beyond(x)
    BY <1>1, <1>5, <2>1, <2>2 DEF Beyond
  <2>4. Stands(x)
    BY <1>1, <1>5, <2>1 DEF Stands
  <2>5. m.op.what # "shutdown"
    BY <1>1, <1>8 DEF Sound, Queueing
  <2> QED BY <1>5, <2>2, <2>3, <2>4, <2>5
<1>9. ASSUME m.accepting, m.last.clean, Healing(m)
      PROVE  BeyondClean(x) /\ x.op.errs = {}
  <2>1. m.op.errs = {} /\ \A i \in Names \ m.op.todo : Planned(m, i, m.op.plan)
    BY <1>1, <1>9 DEF Healing, At, Busy
  <2>2. \A i \in Names : Planned(m, i, m.op.plan) => Planned(x, i, x.op.plan)
    BY <1>5 DEF Planned, Fits
  <2> QED BY <1>5, <2>1, <2>2 DEF BeyondClean
<1>10. CASE leaving = {}
  <2>1. m.op.todo \subseteq DOMAIN m.op.plan /\ n \in DOMAIN m.op.plan /\ n = Min(m.op.todo)
    BY <1>3, <1>7, <1>10
  <2>2. m.op.plan[n] \in Desired
    BY <1>1, <2>1, PlanDesired
  <2>3. m.op.what # "shutdown"
    BY <1>1, <2>1 DEF Sound, Operating
  <2>4. Planning(x)
    BY <1>5, <2>1, <2>2, <2>3 DEF Planning
  <2>5. PICK y : y = Apply(x, m.op.plan[n], ok)
    OBVIOUS
  <2>6. Frame(x, y) /\ Here(y)
    BY <1>5, <2>4, <2>5, ApplyGoes DEF Goes
  <2>7. Sound(y)
    BY <1>5, <2>6, BaseFrame, SoundHere
  <2>8. Ordered(x)
    BY <1>1, <1>5, <2>1, LeastName DEF Ordered
  <2>9. m.accepting => Spot(y) /\ (ok /\ x.op.errs = {} => SpotClean(y))
    BY <1>5, <1>8, <2>4, <2>5, <2>8, ApplySpot
  <2>10. Applying(y) /\ (ok /\ Healing(m) => Healing(y))
    BY <1>5, <1>8, <1>9, <2>6, <2>9, GoesApplies
  <2> QED BY <1>6, <1>7, <1>10, <2>5, <2>7, <2>10, FaultApplies
<1>11. CASE leaving # {}
  <2>1. n \in m.op.todo \ DOMAIN m.op.plan
    BY <1>3, <1>7, <1>11
  <2>2. PICK k \in Kinds : k = m.map[n]
    <3>1. m.map[n] # Absent
      BY <1>1, <2>1 DEF Sound, Operating
    <3>2. n \in Names
      BY <1>1, <2>1 DEF Manager, Operation
    <3> QED BY <1>1, <3>1, <3>2 DEF Manager
  <2>3. PICK pc : pc = IF m.op.what = "shutdown" THEN "shut" ELSE "retire"
    OBVIOUS
  <2>4. PICK y : y = Call(x, pc, k)
    OBVIOUS
  <2>5. /\ pc \in Opening \cup Closing /\ pc \notin Reloading /\ pc \notin {"create", "substitute"}
        /\ pc \notin Replacing
    BY <2>3 DEF Closing, Reloading, Replacing
  <2>6. Frame(x, y) /\ Here(y)
    BY <1>5, <2>1, <2>2, <2>3, <2>4, <2>5, CallHere DEF Goes
  <2>7. Sound(y)
    BY <1>5, <2>6, BaseFrame, SoundHere
  <2>8. m.accepting => Spot(y) /\ (x.op.errs = {} => SpotClean(y))
    <3>1. m.accepting => pc = "retire" /\ pc \in Smoothly
      BY <1>8, <2>3 DEF Smoothly
    <3> QED BY <1>8, <2>4, <2>5, <3>1, PlainCallSpot
  <2>9. Applying(y) /\ (Healing(m) => Healing(y))
    BY <1>5, <1>8, <1>9, <2>6, <2>8, GoesApplies
  <2> QED BY <1>7, <1>11, <2>2, <2>3, <2>4, <2>7, <2>9, FaultApplies
<1> QED BY <1>10, <1>11

-----------------------------------------------------------------------------
(* The other steps.                                                        *)

\* An adapter that was b is a: it serves and owns as before, or shows that it
\* does not.
Even(b, a) ==
    /\ a.cfg = b.cfg /\ a.forced = b.forced
    /\ a.failure = b.failure /\ a.enabled = b.enabled /\ (Holds(a) <=> Holds(b))

Calm(b, a) == Even(b, a) \/ (a.cfg = b.cfg /\ a.forced = b.forced /\ a.failure)

\* Something befalls an adapter while nothing is about to be called.
LEMMA EventApplies ==
    ASSUME NEW x, Sound(x), Applying(x), x.op.st # "call", NEW n \in Names, NEW k \in Kinds, NEW a \in Adapter,
           Calm(x.ad[n][k], a), NEW y, y = [x EXCEPT !.ad[n][k] = a]
    PROVE  Applying(y) /\ (Even(x.ad[n][k], a) /\ Healing(x) => Healing(y))
<1> DEFINE f == [x.ad EXCEPT ![n] = [x.ad[n] EXCEPT ![k] = a]]
<1>1. x \in Manager /\ x.ad \in [Names -> [Kinds -> Adapter]]
  BY DEF Sound, Manager
<1>2. \A i \in Names, j \in Kinds : f[i][j] = IF i = n /\ j = k THEN a ELSE x.ad[i][j]
  BY <1>1
<1>3. y = [x EXCEPT !.ad = f]
  BY <1>1 DEF Manager
<1> HIDE DEF f
<1>4. /\ y.map = x.map /\ y.op = x.op /\ y.accepting = x.accepting /\ y.last = x.last /\ y.ad = f
  BY <1>1, <1>3 DEF Manager
<1>5. \A i \in Names, j \in Kinds : Calm(x.ad[i][j], y.ad[i][j])
  BY <1>2, <1>4 DEF Calm, Even
<1>6. \A i \in Names : x.map[i] # Absent => x.map[i] \in Kinds
  BY <1>1 DEF Manager
<1>7. ASSUME NEW i \in Names
      PROVE  /\ Kept(x, i) => Kept(y, i)
             /\ x.map[i] = Absent \/ Steady(x.ad[i][x.map[i]]) => y.map[i] = Absent \/ Steady(y.ad[i][y.map[i]])
  <2>1. CASE x.map[i] = Absent
    BY <1>4, <2>1 DEF Kept
  <2>2. CASE x.map[i] # Absent
    <3>1. PICK j \in Kinds : j = x.map[i]
      BY <1>6, <2>2
    <3>2. Calm(x.ad[i][j], y.ad[i][j])
      BY <1>5
    <3>3. y.ad[i][j].cfg = x.ad[i][j].cfg /\ (Steady(x.ad[i][j]) => Steady(y.ad[i][j]))
      BY <3>2 DEF Calm, Even, Steady
    <3> QED BY <1>4, <3>1, <3>3 DEF Kept
  <2> QED BY <2>1, <2>2
<1>8. ASSUME NEW i \in Names, NEW p \in AllPlans, Planned(x, i, p)
      PROVE  /\ Planned(y, i, p) \/ (y.map[i] # Absent /\ y.ad[i][y.map[i]].failure)
             /\ Even(x.ad[n][k], a) => Planned(y, i, p)
  <2>1. CASE i \notin DOMAIN p
    BY <1>4, <1>8, <2>1 DEF Planned
  <2>2. CASE i \in DOMAIN p
    <3>1. Fits(x, i, p[i])
      BY <1>8, <2>2 DEF Planned
    <3>2. PICK j \in Kinds : j = p[i].kind
      <4>1. p \in Plans
        BY <2>2 DEF AllPlans
      <4> QED BY <2>2, <4>1, PlansAssumption DEF Desired
    <3>3. x.map[i] = j /\ j # Absent
      BY <3>1, <3>2 DEF Fits, Kinds, Absent
    <3>4. Even(x.ad[i][j], y.ad[i][j]) => Planned(y, i, p)
      BY <1>4, <2>2, <3>1, <3>2 DEF Planned, Fits, Even
    <3>5. Even(x.ad[n][k], a) => Even(x.ad[i][j], y.ad[i][j])
      BY <1>2, <1>4 DEF Even
    <3>6. Even(x.ad[i][j], y.ad[i][j]) \/ y.ad[i][j].failure
      BY <1>5 DEF Calm
    <3> QED BY <1>4, <3>3, <3>4, <3>5, <3>6
  <2> QED BY <2>1, <2>2
<1>9. ASSUME NEW i \in Names, NEW p \in AllPlans, NEW e, Visible(x, i, p, e)
      PROVE  Visible(y, i, p, e)
  <2>1. CASE Planned(x, i, p)
    BY <1>8, <2>1 DEF Visible
  <2>2. CASE x.map[i] # Absent /\ x.ad[i][x.map[i]].failure
    <3>1. PICK j \in Kinds : j = x.map[i]
      BY <1>6, <2>2
    <3>2. Calm(x.ad[i][j], y.ad[i][j])
      BY <1>5
    <3>3. y.ad[i][j].failure
      BY <2>2, <3>1, <3>2 DEF Calm, Even
    <3> QED BY <1>4, <2>2, <3>1, <3>3 DEF Visible
  <2>3. CASE x.map[i] = Absent /\ i \in e
    BY <1>4, <2>3 DEF Visible
  <2> QED BY <1>9, <2>1, <2>2, <2>3 DEF Visible
<1>10. /\ \A i \in Names, j \in Kinds : ~x.ad[i][j].forced => ~y.ad[i][j].forced
       /\ \A i \in Names, j \in Kinds : y.ad[i][j].cfg = x.ad[i][j].cfg
  BY <1>5 DEF Calm, Even
<1>11. Busy(x) /\ Ready(x) => Ready(y)
  <2> SUFFICES ASSUME Busy(x), Ready(x) PROVE Ready(y)
    OBVIOUS
  <2>1. x.op.at \in Names /\ x.op.kind \in Kinds
    BY CallPlace
  <2>2. \A j \in Kinds : y.ad[x.op.at][j].cfg = x.ad[x.op.at][j].cfg
    BY <1>10, <2>1
  <2>3. y.ad[x.op.at][x.op.kind].cfg = x.ad[x.op.at][x.op.kind].cfg
    BY <2>1, <2>2
  <2> HIDE DEF Busy
  <2> QED BY <1>4, <2>2, <2>3, ZenonT(40) DEF Ready
<1>12. /\ x.last.plan \in AllPlans /\ x.op.plan \in AllPlans /\ x.op.todo \subseteq Names
       /\ \A i : At(x, i) <=> At(y, i)
       /\ Busy(x) <=> Busy(y)
       /\ Ordered(x) <=> Ordered(y)
  BY <1>1, <1>4 DEF Manager, Operation, Last, At, Busy, Ordered
<1>13. Applying(y)
  BY <1>4, <1>7, <1>9, <1>10, <1>11, <1>12 DEF Applying
<1>14. Even(x.ad[n][k], a) /\ Healing(x) => Healing(y)
  BY <1>4, <1>8, <1>12 DEF Healing
<1> QED BY <1>13, <1>14

\* Sockets and timers come when nothing is about to be called.
LEMMA WaitingStill ==
    ASSUME IInv, Waiting
    PROVE  m.op.st # "call"
BY NoOpFields DEF IInv, Sound, Operating, Waiting, Idle

\* The server reports an error.
LEMMA ServerFailsApplies ==
    ASSUME IInv, Applying(m), NEW n \in Names, ServerFails(n)
    PROVE  Applying(m') /\ Healing(m')
<1> DEFINE b == m.ad[n]["server"]
           a == [b EXCEPT !.enabled = FALSE, !.failure = TRUE]
<1>1. Sound(m) /\ m \in Manager /\ "server" \in Kinds /\ m.op.st # "call"
  BY WaitingStill DEF IInv, Sound, Kinds, ServerFails
<1>2. b \in Adapter /\ Whole("server", b)
  BY <1>1, WeakensSelf DEF Weakens
<1>3. PICK y : y = [m EXCEPT !.ad[n]["server"].enabled = FALSE, !.ad[n]["server"].failure = TRUE]
  OBVIOUS
<1>4. y = [m EXCEPT !.ad[n]["server"] = a]
  BY <1>1, <1>3 DEF Manager, Adapter
<1>5. Fault(y, TRUE)
  BY <1>3 DEF ServerFails
<1> HIDE DEF b
<1>6. /\ a \in Adapter /\ a.own = b.own /\ a.enabled = FALSE /\ a.timer = b.timer /\ a.failure = TRUE
      /\ a.stray = b.stray /\ a.stale = b.stale /\ a.forced = b.forced /\ a.cfg = b.cfg
  BY <1>2 DEF Adapter
<1> HIDE DEF a
<1>7. Calm(b, a)
  BY <1>6 DEF Calm
<1>8. Applying(y)
  BY <1>1, <1>4, <1>6, <1>7, EventApplies DEF b
<1>9. Weakens("server", b, a)
  BY <1>2, <1>6 DEF Weakens, Whole, Holds
<1>10. Sound(y)
  BY <1>1, <1>4, <1>9, AdapterEases DEF b
<1> QED BY <1>5, <1>8, <1>10, FaultApplies

\* What befalls a client leaves it serving, or not, as it was.
LEMMA ClientApplies ==
    ASSUME IInv, Applying(m), NEW n \in Names, ClientCloses(n) \/ StaleSocketCloses(n) \/ Reconnect(n)
    PROVE  Applying(m') /\ (Healing(m) => Healing(m'))
<1> DEFINE b == m.ad[n]["client"]
<1>1. Sound(m) /\ m \in Manager /\ "client" \in Kinds /\ m.op.st # "call"
  BY WaitingStill DEF IInv, Sound, Kinds, ClientCloses, StaleSocketCloses, Reconnect
<1>2. b \in Adapter /\ Whole("client", b)
  BY <1>1, WeakensSelf DEF Weakens
<1>3. PICK a \in Adapter : Even(b, a) /\ m' = [m EXCEPT !.ad[n]["client"] = a]
  <2>1. CASE ClientCloses(n)
    <3>1. b.own = "held" /\ b.enabled
      <4>1. b.own = "held"
        BY <2>1 DEF ClientCloses
      <4> QED BY <1>2, <4>1 DEF Whole, Holds
    <3>2. PICK t \in BOOLEAN : t = (b.timer \/ b.enabled)
      <4>1. (b.timer \/ b.enabled) \in BOOLEAN
        OBVIOUS
      <4> QED BY <4>1, Zenon
    <3> DEFINE a == [b EXCEPT !.own = "none", !.timer = t]
    <3>3. m' = [m EXCEPT !.ad[n]["client"] = a]
      BY <1>1, <2>1, <3>2, ZenonT(40) DEF Manager, Adapter, ClientCloses
    <3> HIDE DEF b
    <3>4. /\ a \in Adapter /\ a.enabled = b.enabled /\ a.timer = t
          /\ a.cfg = b.cfg /\ a.forced = b.forced /\ a.failure = b.failure
      BY <1>2 DEF Adapter
    <3> HIDE DEF a
    <3>5. Even(b, a)
      BY <3>1, <3>2, <3>4 DEF Even, Holds
    <3> QED BY <3>3, <3>4, <3>5
  <2>2. CASE StaleSocketCloses(n)
    <3> DEFINE a == [b EXCEPT !.stale = FALSE]
    <3>1. m' = [m EXCEPT !.ad[n]["client"] = a]
      BY <1>1, <2>2 DEF Manager, Adapter, StaleSocketCloses
    <3> HIDE DEF b
    <3>2. /\ a \in Adapter /\ a.own = b.own /\ a.enabled = b.enabled /\ a.timer = b.timer
          /\ a.stray = b.stray /\ a.cfg = b.cfg /\ a.forced = b.forced /\ a.failure = b.failure
      BY <1>2 DEF Adapter
    <3> HIDE DEF a
    <3>3. Even(b, a)
      BY <3>2 DEF Even, Holds
    <3> QED BY <3>1, <3>2, <3>3
  <2>3. CASE Reconnect(n)
    <3>1. b.timer /\ b.enabled /\ Holds(b)
      <4>1. b.timer
        BY <2>3 DEF Reconnect
      <4> QED BY <1>2, <4>1 DEF Whole, Holds
    <3> DEFINE a == [b EXCEPT !.timer = FALSE, !.own = "held"]
    <3>2. m' = [m EXCEPT !.ad[n]["client"] = a]
      BY <1>1, <2>3, <3>1, ZenonT(40) DEF Manager, Adapter, Reconnect
    <3> HIDE DEF b
    <3>3. /\ a \in Adapter /\ a.own = "held" /\ a.enabled = b.enabled
          /\ a.cfg = b.cfg /\ a.forced = b.forced /\ a.failure = b.failure
      BY <1>2 DEF Adapter
    <3> HIDE DEF a
    <3>4. Even(b, a)
      BY <3>1, <3>3 DEF Even, Holds
    <3> QED BY <3>2, <3>3, <3>4
  <2> QED BY <2>1, <2>2, <2>3
<1> HIDE DEF b
<1>4. Calm(b, a)
  BY <1>3 DEF Calm
<1>5. PICK y : y = m'
  OBVIOUS
<1>6. Applying(y) /\ (Healing(m) => Healing(y))
  BY <1>1, <1>3, <1>4, <1>5, EventApplies DEF b
<1> QED BY <1>5, <1>6

\* reconcile and shutdown only enqueue, forceRelease ends the accepting of
\* plans, and events are dispatched to adapters that stay as they are.
LEMMA QuietApplies ==
    ASSUME IInv, Applying(m), (\E p \in Plans : Reconcile(p)) \/ Shutdown \/ ForceRelease \/ Emit \/ EmitSettles
    PROVE  Applying(m') /\ (Healing(m) => Healing(m'))
<1>1. m \in Manager
  BY DEF IInv, Sound
<1>2. CASE Shutdown \/ ForceRelease
  <2>1. ~(m').accepting
    BY <1>1, <1>2 DEF Shutdown, ForceRelease, Manager
  <2> QED BY <2>1 DEF Applying, Healing
<1>3. CASE (\E p \in Plans : Reconcile(p)) \/ Emit \/ EmitSettles
  <2>1. PICK y : y = m'
    OBVIOUS
  <2>2. y.map = m.map /\ y.ad = m.ad /\ y.op = m.op /\ y.last = m.last /\ y.accepting = m.accepting
    BY <1>1, <1>3, <2>1 DEF Reconcile, Emit, EmitSettles, Manager
  <2>3. Applying(y) /\ (Healing(m) => Healing(y))
    BY <2>2, SameApplying
  <2> QED BY <2>1, <2>3
<1> QED BY <1>2, <1>3

\* The head of the FIFO starts: every adapter either serves as the last plan
\* wants or shows a failure.
LEMMA BeginApplies ==
    ASSUME IInv, Applying(m), Begin
    PROVE  Applying(m') /\ Healing(m')
<1>1. Sound(m) /\ m \in Manager /\ m.op.what = "idle" /\ m.queue # <<>> /\ m.last \in Last
  BY DEF IInv, Sound, Begin, Due, Idle, Manager
<1>2. PICK y : y = m'
  OBVIOUS
<1>3. PICK h \in Queued : h = Head(m.queue)
  BY <1>1 DEF Manager
<1>4. PICK o : o = [NoOp EXCEPT !.what = h.what, !.plan = h.plan,
                                !.todo = {n \in Names : m.map[n] # Absent} \cup DOMAIN h.plan]
  OBVIOUS
<1>5. /\ o.what = h.what /\ o.plan = h.plan /\ o.errs = {} /\ o.st = "run" /\ h.what # "idle"
      /\ o.todo = {n \in Names : m.map[n] # Absent} \cup DOMAIN h.plan
  BY <1>4, NoOpFields DEF Operation, Queued
<1>6. /\ y.map = m.map /\ y.ad = m.ad /\ y.op = o /\ y.accepting = m.accepting
  BY <1>1, <1>2, <1>3, <1>4 DEF Begin, Manager
<1>7. ASSUME m.accepting, NEW n \in Names, m.map[n] # Absent
      PROVE  Steady(m.ad[n][m.map[n]])
  <2>1. Visible(m, n, m.last.plan, m.last.errs)
    BY <1>1, <1>7 DEF Applying
  <2>2. Planned(m, n, m.last.plan) \/ m.ad[n][m.map[n]].failure
    BY <1>7, <2>1 DEF Visible
  <2> QED BY <1>7, <2>2 DEF Planned, Fits, Steady
<1>8. ASSUME NEW n \in Names, n \notin o.todo
      PROVE  Planned(y, n, o.plan) /\ Visible(y, n, o.plan, {})
  BY <1>5, <1>6, <1>8 DEF Planned, Visible
<1>9. DOMAIN h.plan \subseteq Names /\ o.todo \subseteq Names
  BY <1>5, PlansAssumption DEF Queued, AllPlans
<1>10. ~Busy(y)
  BY <1>5, <1>6 DEF Busy
<1>11. Applying(y)
  <2> SUFFICES ASSUME m.accepting
               PROVE  /\ \A n \in Names : Kept(y, n) /\ \A k \in Kinds : ~y.ad[n][k].forced
                      /\ \A n \in Names \ o.todo : Visible(y, n, o.plan, {})
                      /\ \A n \in o.todo : y.map[n] = Absent \/ Steady(y.ad[n][y.map[n]])
    BY <1>5, <1>6, <1>10 DEF Applying
  <2>1. \A n \in Names : Kept(y, n) /\ \A k \in Kinds : ~y.ad[n][k].forced
    BY <1>6 DEF Applying, Kept
  <2>2. \A n \in o.todo : y.map[n] = Absent \/ Steady(y.ad[n][y.map[n]])
    BY <1>6, <1>7, <1>9
  <2> QED BY <1>8, <2>1, <2>2
<1>12. Healing(y)
  BY <1>5, <1>6, <1>8, <1>10 DEF Healing
<1> QED BY <1>2, <1>11, <1>12

\* The operation returns its result, and the plan is the last one.
LEMMA EndApplies ==
    ASSUME IInv, Applying(m), End
    PROVE  Applying(m') /\ (Healing(m) => Healing(m'))
<1>1. Sound(m) /\ m \in Manager /\ m.last \in Last
  BY DEF IInv, Sound, Manager
<1>2. m.op.what # "idle" /\ m.op.st = "run" /\ m.op.todo = {} /\ ~Busy(m)
  BY DEF End, Idle, Busy
<1>3. PICK y : y = m'
  OBVIOUS
<1>4. y.map = m.map /\ y.ad = m.ad /\ y.op = NoOp /\ y.accepting = m.accepting
  BY <1>1, <1>3 DEF End, Manager
<1>5. CASE ~m.accepting
  <2>1. Applying(y) /\ Healing(y)
    BY <1>4, <1>5 DEF Applying, Healing
  <2> QED BY <1>3, <2>1
<1>6. CASE m.accepting
  <2>1. m.op.what = "reconcile"
    BY <1>1, <1>2, <1>6 DEF Sound, Queueing, Manager, Operation
  <2>2. y.last.plan = m.op.plan /\ y.last.errs = m.op.errs /\ y.last.clean = m.last.clean
    BY <1>1, <1>3, <2>1 DEF End, Manager, Last
  <2>3. \A n \in Names : /\ Kept(m, n) => Kept(y, n)
                         /\ Visible(m, n, m.op.plan, m.op.errs) => Visible(y, n, y.last.plan, y.last.errs)
                         /\ Planned(m, n, m.op.plan) => Planned(y, n, y.last.plan)
    BY <1>4, <2>2 DEF Kept, Visible, Planned, Fits
  <2>4. Applying(y)
    BY <1>2, <1>4, <1>6, <2>3, NoOpFields DEF Applying, At
  <2>5. Healing(m) => Healing(y)
    BY <1>2, <1>4, <1>6, <2>2, <2>3, NoOpFields DEF Healing, At
  <2> QED BY <1>3, <2>4, <2>5
<1> QED BY <1>5, <1>6

\* The manager that has just been made has no adapter, and no plan.
LEMMA InitApplies ==
    ASSUME Init
    PROVE  Applying(m) /\ Healing(m)
<1>1. PICK a : a = NewAdapter([port |-> CHOOSE p \in Ports : TRUE, on |-> FALSE])
  OBVIOUS
<1>2. ~a.forced
  BY <1>1 DEF NewAdapter
<1>3. /\ m.map = [n \in Names |-> Absent] /\ m.ad = [n \in Names |-> [k \in Kinds |-> a]] /\ m.op = NoOp
      /\ m.last = [plan |-> <<>>, errs |-> {}, clean |-> FALSE]
  BY <1>1 DEF Init
<1>4. m.last.plan = <<>> /\ m.last.errs = {} /\ m.last.clean = FALSE
  BY <1>3
<1>5. \A n \in Names : /\ m.map[n] = Absent /\ Kept(m, n) /\ \A k \in Kinds : ~m.ad[n][k].forced
  BY <1>2, <1>3 DEF Kept
<1>6. \A n \in Names : Visible(m, n, m.last.plan, m.last.errs)
  BY <1>4, <1>5 DEF Visible, Planned
<1>7. Applying(m)
  BY <1>3, <1>5, <1>6, NoOpFields DEF Applying
<1>8. Healing(m)
  BY <1>4 DEF Healing
<1> QED BY <1>7, <1>8

\* Every step.
LEMMA NextApplies ==
    ASSUME IInv, Applying(m), [Next]_vars
    PROVE  Applying(m') /\ (PortsApart /\ Healing(m) => Healing(m'))
<1>1. CASE UNCHANGED vars
  BY <1>1 DEF vars
<1>2. CASE (\E p \in Plans : Reconcile(p)) \/ Shutdown \/ ForceRelease \/ Emit \/ EmitSettles
  BY <1>2, QuietApplies
<1>3. CASE Begin
  BY <1>3, BeginApplies
<1>4. CASE NextName
  BY <1>4, NextNameApplies
<1>5. CASE End
  BY <1>5, EndApplies
<1>6. CASE CallMethod
  BY <1>6, CallMethodApplies
<1>7. CASE CallSettles
  BY <1>7, CallSettlesApplies
<1>8. ASSUME NEW n \in Names, ServerFails(n) PROVE Applying(m') /\ Healing(m')
  BY <1>8, ServerFailsApplies
<1>9. ASSUME NEW n \in Names, ClientCloses(n) \/ StaleSocketCloses(n) \/ Reconnect(n)
      PROVE  Applying(m') /\ (Healing(m) => Healing(m'))
  BY <1>9, ClientApplies
<1> QED BY <1>1, <1>2, <1>3, <1>4, <1>5, <1>6, <1>7, <1>8, <1>9 DEF Next

-----------------------------------------------------------------------------
(* The theorems.                                                           *)

\* What AsPlanned says, for an adapter of the right type.
LEMMA PlannedAsPlanned ==
    ASSUME Sound(m), NEW n \in Names, Planned(m, n, m.last.plan)
    PROVE  AsPlanned(n, m.last.plan)
<1>1. m \in Manager /\ m.last.plan \in AllPlans
  BY DEF Sound, Manager, Last
<1>2. CASE n \notin DOMAIN m.last.plan
  BY <1>2 DEF Planned, AsPlanned
<1>3. CASE n \in DOMAIN m.last.plan
  <2>1. PICK d \in Desired : d = m.last.plan[n]
    BY <1>1, <1>3, PlansAssumption DEF AllPlans
  <2>2. PICK ad \in Adapter : ad = m.ad[n][d.kind]
    BY <1>1 DEF Manager, Desired
  <2>3. Fits(m, n, d)
    BY <1>3, <2>1 DEF Planned
  <2>4. /\ m.map[n] = d.kind /\ ~ad.failure /\ ad.cfg = d.cfg
        /\ ad.enabled <=> d.cfg.on
        /\ Holds(ad) <=> d.cfg.on
    BY <2>2, <2>3 DEF Fits
  <2>5. d.cfg.on \in BOOLEAN /\ ad.enabled \in BOOLEAN
    BY DEF Desired, Config, Adapter
  <2>6. ad.enabled = ad.cfg.on
    BY <2>4, <2>5
  <2>7. Holds(ad) = ad.cfg.on
    <3>1. Holds(ad) \in BOOLEAN
      BY DEF Holds
    <3> QED BY <2>4, <2>5, <3>1, Zenon
  <2> QED BY <1>3, <2>1, <2>2, <2>4, <2>6, <2>7 DEF AsPlanned
<1> QED BY <1>2, <1>3

\* Whatever failed, half-opened, rolled back or was restored: between two
\* operations an adapter that shows no failure is what the last plan wants and
\* serves, and a name that lacks its adapter was reported.
THEOREM AppliesOrShows == Spec => []AppliedOrVisible
<1> DEFINE Inv == IInv /\ Applying(m)
<1>1. Init => Inv
  BY InitIInv, InitApplies
<1>2. Inv /\ [Next]_vars => Inv'
  BY NextIInv, NextApplies
<1>3. Inv => AppliedOrVisible
  <2> SUFFICES ASSUME Inv, Idle, m.accepting, NEW n \in Names
               PROVE  \/ AsPlanned(n, m.last.plan)
                      \/ m.map[n] # Absent /\ m.ad[n][m.map[n]].failure
                      \/ m.map[n] = Absent /\ n \in m.last.errs
    BY DEF AppliedOrVisible
  <2>1. Visible(m, n, m.last.plan, m.last.errs) /\ Sound(m)
    BY DEF Applying, Idle, IInv
  <2> QED BY <2>1, PlannedAsPlanned DEF Visible
<1> HIDE DEF Inv
<1> QED BY <1>1, <1>2, <1>3, PTL DEF Spec

\* A reconciliation during which nothing fails applies its plan, from whatever
\* state the ones before it left, for plans that keep the ports of their
\* servers apart.
THEOREM ReconcilingHeals ==
    ASSUME PortsApart
    PROVE  Spec => []ReconcileHeals
<1> DEFINE Inv == IInv /\ Applying(m) /\ Healing(m)
<1>1. Init => Inv
  BY InitIInv, InitApplies
<1>2. Inv /\ [Next]_vars => Inv'
  BY NextIInv, NextApplies
<1>3. Inv => ReconcileHeals
  <2> SUFFICES ASSUME Inv, Idle, m.accepting, m.last.clean
               PROVE  m.last.errs = {} /\ \A n \in Names : AsPlanned(n, m.last.plan)
    BY DEF ReconcileHeals
  <2>1. m.last.errs = {} /\ (\A n \in Names : Planned(m, n, m.last.plan)) /\ Sound(m)
    BY DEF Healing, Idle, IInv
  <2> QED BY <2>1, PlannedAsPlanned
<1> HIDE DEF Inv
<1> QED BY <1>1, <1>2, <1>3, PTL DEF Spec
=============================================================================
