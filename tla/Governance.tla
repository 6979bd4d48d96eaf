----------------------------- MODULE Governance -----------------------------
(***************************************************************************)
(* Referenda, the prime key and the treasury: runtime/src/configs/         *)
(* governance.rs, pallets/prime and the treasury's part of configs/mod.rs. *)
(*                                                                         *)
(* What this repository writes is the table of tracks with its curves, the *)
(* origins the tracks mint, who may open, cancel or kill a referendum, and *)
(* which origin each privileged call asks for.  pallet_referenda, the      *)
(* scheduler, conviction voting and the treasury run on that table; their  *)
(* steps are modelled from how the configuration uses them.                *)
(*                                                                         *)
(* Time counts ten minutes, the shortest period a track has, and jumps     *)
(* from one deadline to the next.  A tally is a pair of an approval and a  *)
(* support in parts of 10000, and is weighed against a curve at 28 points  *)
(* of the decision period, the resolution the curves are written in.       *)
(***************************************************************************)
EXTENDS Integers, FiniteSets, FiniteSetsExt

CONSTANTS
    Accounts,      \* accounts that sign
    Genesis,       \* the prime key of the genesis configuration
    Registered,    \* accounts with an identity carrying a social channel
    Nameless,      \* accounts whose identity carries none
    SuperOf,       \* the parent of each sub account, a function
    Ids,           \* indices of the referenda that can be opened
    Proposals,     \* what each can put to the ballot: records of origin and call
    Tallies,       \* votes a ballot can stand at
    MaxBallots,    \* bound: how often the votes of a referendum change
    MaxIdentity    \* bound: how often judgements and the prime key change

VARIABLES
    now,           \* the time
    key,           \* pallet_prime's Key
    judged,        \* accounts with a Reasonable or KnownGood judgement
    polls,         \* pallet_referenda's ReferendumInfoFor, by index
    code,          \* referenda that replaced the runtime code
    spends,        \* the treasury's spends, by the referendum that approved them
    paid,          \* what the treasury paid for each referendum
    moved          \* how often judgements and the prime key changed

vars == <<now, key, judged, polls, code, spends, paid, moved>>

-----------------------------------------------------------------------------
(* The tracks. *)

MINUTES10 == 1
HOURS == 6
DAYS == 144
Never == -1

percent(x) == 100 * x

per_mille(x) == 10 * x

per_myriad(x) == x

(* Curve::make_linear: from ceil down to floor in `length` of 28 parts, and  *)
(* level from there on.                                                      *)
make_linear(length, floor, ceil) ==
    [k \in 0 .. 28 |->
        IF k >= length THEN floor ELSE ceil - ((ceil - floor) * k) \div length]

(* Curve::make_reciprocal: the hyperbola through ceil at the start, level    *)
(* after `delay` of 28 parts and floor at the end.                           *)
make_reciprocal(delay, level, floor, ceil) ==
    LET fall == delay * (level - floor)
        bend == 28 * (ceil - level) - delay * (ceil - floor)
    IN  [k \in 0 .. 28 |->
            floor + ((ceil - floor) * fall * (28 - k)) \div (bend * k + 28 * fall)]

APP_ROOT == make_reciprocal(4, percent(80), percent(50), percent(100))
SUP_ROOT == make_linear(28, percent(0), percent(50))
SUP_RUNTIME_UPGRADE == make_reciprocal(1, percent(1), percent(0), percent(50))
SUP_IDENTITY_ADMIN == make_reciprocal(12, percent(2), percent(0), percent(50))
APP_REFERENDUM == make_linear(28, percent(50), percent(100))
APP_SMALL_SPENDER == make_linear(7, percent(50), percent(100))
SUP_SMALL_SPENDER == make_reciprocal(12, percent(1), per_mille(5), percent(50))
APP_MEDIUM_SPENDER == make_linear(14, percent(50), percent(100))
SUP_MEDIUM_SPENDER ==
    make_reciprocal(12, per_mille(15), per_myriad(75), percent(50))

APP_BIG_SPENDER == make_linear(28, percent(50), percent(100))
SUP_BIG_SPENDER == make_reciprocal(12, percent(2), percent(1), percent(50))

Track(slots, prepare, decision, confirm, enactment, approval, support) ==
    [max_deciding |-> slots, prepare_period |-> prepare,
     decision_period |-> decision, confirm_period |-> confirm,
     min_enactment_period |-> enactment,
     min_approval |-> approval, min_support |-> support]


canceller ==
    Track(1000, 2 * HOURS, 7 * DAYS, DAYS, MINUTES10,
          APP_REFERENDUM, SUP_IDENTITY_ADMIN)

TRACKS_DATA ==
    [id \in {0, 1, 2, 10, 20, 21, 30, 31, 32} |->
        CASE id = 0 -> Track(1, DAYS, 28 * DAYS, DAYS, DAYS, APP_ROOT, SUP_ROOT)
          [] id = 1 -> Track(1, MINUTES10, 28 * DAYS, MINUTES10, MINUTES10,
                             APP_ROOT, SUP_RUNTIME_UPGRADE)
          [] id = 2 -> Track(10, 2 * HOURS, 28 * DAYS, DAYS, MINUTES10,
                             APP_ROOT, SUP_ROOT)
          [] id = 10 -> Track(10, 2 * HOURS, 28 * DAYS, DAYS, MINUTES10,
                              APP_ROOT, SUP_IDENTITY_ADMIN)
          [] id = 20 -> canceller
          [] id = 21 -> Track(1000, 2 * HOURS, 28 * DAYS, DAYS, MINUTES10,
                              APP_REFERENDUM, SUP_IDENTITY_ADMIN)
          [] id = 30 -> Track(100, 4 * HOURS, 28 * DAYS, DAYS, DAYS,
                              APP_SMALL_SPENDER, SUP_SMALL_SPENDER)
          [] id = 31 -> Track(20, 4 * HOURS, 28 * DAYS, 3 * DAYS, DAYS,
                              APP_MEDIUM_SPENDER, SUP_MEDIUM_SPENDER)
          [] id = 32 -> Track(2, 4 * HOURS, 28 * DAYS, 7 * DAYS, DAYS,
                              APP_BIG_SPENDER, SUP_BIG_SPENDER)]

UndecidingTimeout == 14 * DAYS

(* Mutant: a referendum of the big tier decides on the small tier's track. *)
track_for_swapped(origin) ==
    [Root |-> 0, RuntimeUpgrade |-> 1, WishForChange |-> 2, IdentityAdmin |-> 10,
     ReferendumCanceller |-> 20, ReferendumKiller |-> 21, SmallSpender |-> 30,
     MediumSpender |-> 31, BigSpender |-> 30][origin]

track_for(origin) ==
    [Root |-> 0, RuntimeUpgrade |-> 1, WishForChange |-> 2, IdentityAdmin |-> 10,
     ReferendumCanceller |-> 20, ReferendumKiller |-> 21, SmallSpender |-> 30,
     MediumSpender |-> 31, BigSpender |-> 32][origin]

-----------------------------------------------------------------------------
(* Who may do what. *)

EnsurePrime(origin) == origin = key

(* Caps of the spender origins, in units of 100_000 UNIT. *)
Cap(origin) ==
    CASE origin = "SmallSpender" -> 2
      [] origin = "MediumSpender" -> 10
      [] origin = "BigSpender" -> 100

TreasurySpender(origin, amount) ==
    /\ origin \in {"SmallSpender", "MediumSpender", "BigSpender"}
    /\ amount <= Cap(origin)

spend_caps == {<<30, Cap("SmallSpender")>>, <<31, Cap("MediumSpender")>>,
               <<32, Cap("BigSpender")>>}

account_qualifies(who) == who \in judged /\ who \notin Nameless

QualifiedIdentity(who) ==
    \/ account_qualifies(who)
    \/ who \in DOMAIN SuperOf /\ account_qualifies(SuperOf[who])

(* Mutant: the upgrade track opens to every qualified identity. *)
EnsureSubmitter_open(who, origin) == QualifiedIdentity(who) \/ EnsurePrime(who)

EnsureSubmitter(who, origin) ==
    IF origin = "RuntimeUpgrade" THEN EnsurePrime(who) ELSE QualifiedIdentity(who)

(* The origin each privileged call asks for: pallet_prime's UpgradeOrigin,   *)
(* System::set_code's Root, the treasury's SpendOrigin and RejectOrigin and  *)
(* the referenda's CancelOrigin and KillOrigin.                              *)
Allowed(origin, call) ==
    CASE call.kind = "upgrade" -> origin = "RuntimeUpgrade"
      [] call.kind = "set_code" -> origin = "Root"
      [] call.kind = "spend" -> TreasurySpender(origin, call.amount)
      [] call.kind = "void_spend" -> EnsurePrime(origin)
      [] call.kind = "cancel" ->
            EnsurePrime(origin) \/ origin = "ReferendumCanceller"
      [] call.kind = "kill" -> EnsurePrime(origin) \/ origin = "ReferendumKiller"

-----------------------------------------------------------------------------
(* A referendum on its track. *)

Unopened == [state |-> "none"]

(* A poll that ended keeps its deposits to refund and nothing else. *)
Closed(state) == [state |-> state]

Ongoing(i) == polls[i].state = "ongoing"

TrackOf(p) == TRACKS_DATA[track_for(p.origin)]

Passes(track, votes, k) ==
    /\ votes.approval >= track.min_approval[k]
    /\ votes.support >= track.min_support[k]

Part(track) == track.decision_period \div 28

Elapsed(p) == Min({28, (now - p.deciding) \div Part(TrackOf(p))})

is_passing(p) == Passes(TrackOf(p), p.votes, Elapsed(p))

Deciding(id) ==
    {i \in Ids : /\ Ongoing(i)
                 /\ track_for(polls[i].origin) = id
                 /\ polls[i].deciding # Never}

Prepared(p) == p.placed /\ now >= p.since + TrackOf(p).prepare_period

Confirmed(p) ==
    [p EXCEPT !.confirming = IF is_passing(p)
                             THEN now + TrackOf(p).confirm_period ELSE Never]

(* service_referendum on a poll nobody decides yet: it takes a slot of its   *)
(* track once prepared, queues when there is none, and times out otherwise.  *)
Preparing(p) ==
    LET id == track_for(p.origin)
    IN  IF Prepared(p)
        THEN IF Cardinality(Deciding(id)) < TRACKS_DATA[id].max_deciding
             THEN Confirmed([p EXCEPT !.deciding = now])
             ELSE p
        ELSE IF now >= p.since + UndecidingTimeout
             THEN Closed("timed_out")
             ELSE p

(* service_referendum on a poll that decides. *)
Weighed(p) ==
    IF is_passing(p)
    THEN IF p.confirming = Never
         THEN Confirmed(p)
         ELSE IF now >= p.confirming
              THEN [p EXCEPT !.state = "approved",
                             !.at = now + TrackOf(p).min_enactment_period]
              ELSE p
    ELSE IF now >= p.deciding + TrackOf(p).decision_period
         THEN Closed("rejected")
         ELSE [p EXCEPT !.confirming = Never]

serviced(p) == IF p.deciding = Never THEN Preparing(p) ELSE Weighed(p)

Due(i) ==
    \/ Ongoing(i) /\ serviced(polls[i]) # polls[i]
    \/ polls[i].state = "approved" /\ now >= polls[i].at

(* The times at which something happens to a poll by itself.  Curves fall,   *)
(* so a tally that passes goes on passing.                                   *)
Crossing(p) ==
    LET parts == {k \in 0 .. 28 : Passes(TrackOf(p), p.votes, k)}
    IN  {p.deciding + k * Part(TrackOf(p)) : k \in parts \ {j + 1 : j \in parts}}

Deadlines(p) ==
    CASE p.state = "ongoing" /\ p.deciding = Never ->
            {p.since + UndecidingTimeout, p.since + TrackOf(p).prepare_period}
      [] p.state = "ongoing" /\ p.deciding # Never ->
            {p.confirming, p.deciding + TrackOf(p).decision_period} \cup Crossing(p)
      [] p.state = "approved" -> {p.at}
      [] OTHER -> {}

-----------------------------------------------------------------------------
Init ==
    /\ now = 0
    /\ key = Genesis
    /\ judged = Registered \cup Nameless
    /\ polls = [i \in Ids |-> Unopened]
    /\ code = {}
    /\ spends = [i \in Ids |-> 0]
    /\ paid = [i \in Ids |-> 0]
    /\ moved = 0

(* Referenda::submit.  `prime` remembers whether the prime key signed it. *)
Submit(i, who, proposal) ==
    /\ polls[i] = Unopened
    /\ \A j \in Ids : j < i => polls[j] # Unopened
    /\ EnsureSubmitter(who, proposal.origin)
    /\ polls' = [polls EXCEPT ![i] =
            [state |-> "ongoing", origin |-> proposal.origin,
             call |-> proposal.call, prime |-> EnsurePrime(who), since |-> now,
             placed |-> FALSE, deciding |-> Never, confirming |-> Never,
             votes |-> [approval |-> 0, support |-> 0], ballots |-> 0,
             at |-> Never]]
    /\ UNCHANGED <<now, key, judged, code, spends, paid, moved>>

(* Referenda::place_decision_deposit. *)
PlaceDeposit(i) ==
    /\ Ongoing(i) /\ ~polls[i].placed
    /\ polls' = [polls EXCEPT ![i].placed = TRUE]
    /\ UNCHANGED <<now, key, judged, code, spends, paid, moved>>

(* ConvictionVoting::vote and remove_vote, summed up by the tally. *)
Vote(i, votes) ==
    /\ Ongoing(i)
    /\ polls[i].ballots < MaxBallots /\ votes # polls[i].votes
    /\ polls' = [polls EXCEPT ![i].votes = votes, ![i].ballots = @ + 1]
    /\ UNCHANGED <<now, key, judged, code, spends, paid, moved>>

(* The alarm of a poll, through Referenda::nudge_referendum. *)
Service(i) ==
    /\ Ongoing(i)
    /\ serviced(polls[i]) # polls[i]
    /\ polls' = [polls EXCEPT ![i] = serviced(@)]
    /\ UNCHANGED <<now, key, judged, code, spends, paid, moved>>

(* What a dispatched call does, polls being the polls it finds.  Cancelling  *)
(* and killing ask for a poll that is still ongoing, and voiding a spend for *)
(* one the treasury has not paid.                                            *)
Effect(i, found, call) ==
    CASE call.kind \in {"upgrade", "set_code"} ->
            /\ code' = code \cup {i}
            /\ polls' = found
            /\ UNCHANGED spends
      [] call.kind = "spend" ->
            /\ spends' = [spends EXCEPT ![i] = call.amount]
            /\ polls' = found
            /\ UNCHANGED code
      [] call.kind = "void_spend" ->
            /\ spends' = [spends EXCEPT ![call.target] = 0]
            /\ polls' = found
            /\ UNCHANGED code
      [] call.kind \in {"cancel", "kill"} ->
            /\ polls' = IF found[call.target].state = "ongoing"
                        THEN [found EXCEPT ![call.target] = Closed(call.kind)]
                        ELSE found
            /\ UNCHANGED <<code, spends>>

(* The scheduler dispatches an approved proposal under its track's origin.   *)
(* A call its origin may not make fails and changes nothing.                 *)
Enact(i) ==
    /\ polls[i].state = "approved" /\ now >= polls[i].at
    /\ LET found == [polls EXCEPT ![i].state = "enacted", ![i].at = now]
       IN  IF Allowed(polls[i].origin, polls[i].call)
           THEN Effect(i, found, polls[i].call)
           ELSE polls' = found /\ UNCHANGED <<code, spends>>
    /\ UNCHANGED <<now, key, judged, paid, moved>>

(* A privileged call signed by an account, about the referendum i. *)
SignedCall(who, i, kind) ==
    LET call == [kind |-> kind, target |-> i, amount |-> 1]
    IN  /\ Allowed(who, call)
        /\ kind \in {"cancel", "kill"} => Ongoing(i)
        /\ kind = "void_spend" => spends[i] # 0
        /\ Effect(i, polls, call)
        /\ UNCHANGED <<now, key, judged, paid, moved>>

(* The treasury's payout, within the payout period. *)
PayoutPeriod == 30 * DAYS

Payout(i) ==
    /\ spends[i] # 0
    /\ now <= polls[i].at + PayoutPeriod
    /\ paid' = [paid EXCEPT ![i] = @ + spends[i]]
    /\ spends' = [spends EXCEPT ![i] = 0]
    /\ UNCHANGED <<now, key, judged, polls, code, moved>>

(* Prime::set_key. *)
set_key(who, new) ==
    /\ EnsurePrime(who)
    /\ moved < MaxIdentity /\ new # key
    /\ key' = new
    /\ moved' = moved + 1
    /\ UNCHANGED <<now, judged, polls, code, spends, paid>>

(* A registrar gives a judgement, or the account changes its identity and    *)
(* loses it.                                                                 *)
Judge(who) ==
    /\ moved < MaxIdentity
    /\ judged' = IF who \in judged THEN judged \ {who} ELSE judged \cup {who}
    /\ moved' = moved + 1
    /\ UNCHANGED <<now, key, polls, code, spends, paid>>

(* Time passes to the next deadline once every alarm that is due has gone. *)
Advance ==
    LET ahead == {t \in UNION {Deadlines(polls[i]) : i \in Ids} : t > now}
    IN  /\ \A i \in Ids : ~Due(i)
        /\ ahead # {}
        /\ now' = Min(ahead)
        /\ UNCHANGED <<key, judged, polls, code, spends, paid, moved>>

Next ==
    \/ \E i \in Ids, who \in Accounts :
            \E proposal \in Proposals[i] : Submit(i, who, proposal)
    \/ \E i \in Ids : PlaceDeposit(i)
    \/ \E i \in Ids, votes \in Tallies : Vote(i, votes)
    \/ \E i \in Ids : Service(i)
    \/ \E i \in Ids : Enact(i)
    \/ \E who \in Accounts, i \in Ids,
            kind \in {"cancel", "kill", "void_spend", "upgrade", "spend"} :
            SignedCall(who, i, kind)
    \/ \E i \in Ids : Payout(i)
    \/ \E who, new \in Accounts : set_key(who, new)
    \/ \E who \in Registered : Judge(who)
    \/ Advance

Spec == Init /\ [][Next]_vars

-----------------------------------------------------------------------------
(* The shortest time a poll's track leaves between opening and enactment. *)
Notice(track) ==
    track.prepare_period + track.confirm_period + track.min_enactment_period

(* The prime key holds the brakes, not the code: the runtime code was only   *)
(* ever replaced by a referendum that stood on the ballot for all of its     *)
(* track's periods, on the root track, or on the upgrade track and then      *)
(* opened by whoever held the prime key at that moment.                      *)
CodeNeedsConsent ==
    \A i \in code :
        /\ polls[i].state = "enacted"
        /\ polls[i].at >= polls[i].since + Notice(TrackOf(polls[i]))
        /\ \/ polls[i].origin = "Root"
           \/ polls[i].origin = "RuntimeUpgrade" /\ polls[i].prime

(* What the treasury pays out for a referendum stays within the cap that is  *)
(* published for the track it was decided on (spend_caps), whichever tier's  *)
(* origin it asked for.                                                      *)
SpendWithinTier ==
    \A i \in Ids : paid[i] + spends[i] > 0 =>
        \E cap \in spend_caps :
            /\ cap[1] = track_for(polls[i].origin)
            /\ paid[i] + spends[i] <= cap[2]

(* "Cancelling has to land before its target does": against a canceller poll *)
(* opened no later than itself, with its deposit placed and everybody behind *)
(* it from the start, a referendum on the root track or a spender track is   *)
(* never even approved, after which cancelling would find it closed.         *)
Prompt(p) ==
    /\ p.deciding = p.since + TrackOf(p).prepare_period
    /\ p.confirming = p.deciding + TrackOf(p).confirm_period

=============================================================================
