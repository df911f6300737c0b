------------------------------- MODULE Notifier -------------------------------
(***************************************************************************)
(* Notifications of one process: SendThrottled and what it calls           *)
(* (internal/notify/notifier.go), called by the goroutines asyncNotifier   *)
(* starts and by the health monitor (cmd/composelock/commands.go).         *)
(*                                                                         *)
(* A message has a throttle key; the empty key lifts every throttle. Per   *)
(* sink and key the notifier claims an hour, then posts without holding    *)
(* its mutex, and gives the claim back when posting fails.                 *)
(*                                                                         *)
(* Time is counted in ticks of which an hour has Interval. Instead of the  *)
(* time of a claim its age is kept, saturated at Interval, where a claim   *)
(* no longer counts and claim() deletes it.                                *)
(***************************************************************************)
EXTENDS Integers, FiniteSets

CONSTANTS
    NumSinks,     \* sinks, in the order they are served
    Senders,      \* goroutines that may be sending at once
    Cancellable,  \* those whose context ends with the process
    Keys,         \* throttle keys
    NoKey,        \* the empty key
    Nobody,
    Interval,     \* RepeatInterval, in ticks
    MaxFlight,    \* ticks that may pass while one message is being posted
    RetryAfter,   \* seconds that a 429 answer may ask for; 0: none readable
    MaxWait,      \* maxRateLimitWait
    MaxDuration   \* the seconds a time.Duration can hold

ASSUME NotifierAssumption ==
    /\ NumSinks \in Nat \ {0}
    /\ Cancellable \subseteq Senders
    /\ NoKey \notin Keys
    /\ Nobody \notin Senders
    \* Two posts of ten seconds and a wait of fifteen fit well into an hour.
    /\ MaxFlight \in Nat /\ Interval \in Nat /\ MaxFlight < Interval
    /\ RetryAfter \subseteq Int
    /\ MaxWait \in Nat \ {0}
    /\ MaxDuration \in Nat

Sinks == 1..NumSinks
Ages  == 0..Interval

VARIABLES
    phase,   \* of the process: running, draining after a signal, exited
    sent,    \* sent[s][k]: age of the claim on key k at sink s
    call,    \* call[p]: where sender p is in SendThrottled
    \* history
    owner,   \* owner[s][k]: whose claim sent[s][k] is
    heard,   \* heard[s][k]: time since sink s last accepted a message with key k
    told,    \* told[s][k]: age of the last accepted claim since the last reset
    freed    \* claims removed by a sender other than their owner, since then

history == <<owner, heard, told, freed>>
notifierVars == <<phase, sent, call, owner, heard, told, freed>>

Call == [at        : {"idle", "next", "post", "wait"},
         key       : Keys \cup {NoKey},
         sink      : 1..(NumSinks + 1),
         retried   : BOOLEAN,
         delivered : BOOLEAN,
         age       : 0..MaxFlight]     \* of the claim it posts under

NoCall == [at |-> "idle", key |-> NoKey, sink |-> 1, retried |-> FALSE,
           delivered |-> FALSE, age |-> 0]

NotifierTypeOK ==
    /\ phase \in {"running", "draining", "exited"}
    /\ sent \in [Sinks -> [Keys -> Ages]]
    /\ call \in [Senders -> Call]
    /\ owner \in [Sinks -> [Keys -> Senders \cup {Nobody}]]
    /\ heard \in [Sinks -> [Keys -> Ages]]
    /\ told \in [Sinks -> [Keys -> Ages]]
    /\ freed \subseteq Sinks \X Keys

\* No claim at all: a new Notifier, and what reset() leaves.
Unclaimed == [s \in Sinks |-> [k \in Keys |-> Interval]]
Unowned   == [s \in Sinks |-> [k \in Keys |-> Nobody]]

NotifierInit ==
    /\ phase = "running"
    /\ sent = Unclaimed
    /\ call = [p \in Senders |-> NoCall]
    /\ owner = Unowned
    /\ heard = Unclaimed
    /\ told = Unclaimed
    /\ freed = {}

-----------------------------------------------------------------------------
(* A call of SendThrottled. *)

\* The loop over the sinks turns to this one.
CallAt(k, sink, delivered) ==
    [at |-> "next", key |-> k, sink |-> sink, retried |-> FALSE,
     delivered |-> delivered, age |-> 0]

\* The call begins; the empty key resets the throttle first.
SendThrottled(p, k) ==
    /\ phase = "running"
    /\ call[p].at = "idle"
    /\ call' = [call EXCEPT ![p] = CallAt(k, 1, TRUE)]
    /\ IF k = NoKey
       THEN sent' = Unclaimed /\ owner' = Unowned /\ told' = Unclaimed /\ freed' = {}
       ELSE UNCHANGED <<sent, owner, told, freed>>
    /\ UNCHANGED <<phase, heard>>

AtSink(p) == call[p].at = "next" /\ call[p].sink <= NumSinks

NextSink(p, delivered) ==
    call' = [call EXCEPT ![p] = CallAt(call[p].key, call[p].sink + 1, delivered)]

\* claim succeeds
Claim(p) ==
    LET s == call[p].sink
        k == call[p].key
    IN  /\ AtSink(p)
        /\ k # NoKey
        /\ sent[s][k] = Interval
        /\ sent' = [sent EXCEPT ![s][k] = 0]
        /\ owner' = [owner EXCEPT ![s][k] = p]
        /\ call' = [call EXCEPT ![p].at = "post"]
        /\ UNCHANGED <<phase, heard, told, freed>>

\* claim finds the key taken: the sink is passed over and does not count as a
\* failure.
Suppress(p) ==
    /\ AtSink(p)
    /\ call[p].key # NoKey
    /\ sent[call[p].sink][call[p].key] < Interval
    /\ NextSink(p, call[p].delivered)
    /\ UNCHANGED <<phase, sent, history>>

\* Send posts without a claim.
SendUnthrottled(p) ==
    /\ AtSink(p)
    /\ call[p].key = NoKey
    /\ call' = [call EXCEPT ![p].at = "post"]
    /\ UNCHANGED <<phase, sent, history>>

\* A 2xx answer.
Accepted(p) ==
    LET s == call[p].sink
        k == call[p].key
    IN  /\ call[p].at = "post"
        /\ NextSink(p, call[p].delivered)
        /\ IF k = NoKey
           THEN UNCHANGED <<heard, told>>
           ELSE /\ heard' = [heard EXCEPT ![s][k] = 0]
                /\ told' = IF owner[s][k] = p THEN [told EXCEPT ![s][k] = call[p].age] ELSE told
        /\ UNCHANGED <<phase, sent, owner, freed>>

\* deliver returns false: release, whoever holds the key by now.
Fail(p) ==
    LET s == call[p].sink
        k == call[p].key
    IN  /\ NextSink(p, FALSE)
        /\ IF k = NoKey
           THEN UNCHANGED <<sent, owner, freed>>
           ELSE /\ sent' = [sent EXCEPT ![s][k] = Interval]
                /\ owner' = [owner EXCEPT ![s][k] = Nobody]
                /\ freed' = IF owner[s][k] = p \/ sent[s][k] = Interval
                            THEN freed ELSE freed \cup {<<s, k>>}
        /\ UNCHANGED <<phase, heard, told>>

\* No answer, an answer other than 2xx and 429, or no payload.
PostFails(p) == call[p].at = "post" /\ Fail(p)

\* rateLimitDelay. A value beyond what a Duration can hold is converted to
\* whatever the platform makes of it: the least Duration on amd64, the
\* greatest, which is then cut, on arm64.
RateLimitDelay(h) ==
    IF h <= 0 THEN {1}
    ELSE IF h > MaxDuration THEN {-1, MaxWait}
    ELSE {IF h < MaxWait THEN h ELSE MaxWait}

\* Mutant: a message that is still rate limited counts as delivered.
RateLimitedTwiceIsDelivered(p) ==
    /\ call[p].at = "post"
    /\ IF call[p].retried
       THEN NextSink(p, call[p].delivered)
       ELSE call' = [call EXCEPT ![p].at = "wait"]
    /\ UNCHANGED <<phase, sent, history>>

\* A 429 answer: deliver takes a delay that is not positive for a delivery,
\* waits the first time and gives up the second.
RateLimited(p) ==
    /\ call[p].at = "post"
    /\ \E h \in RetryAfter : \E delay \in RateLimitDelay(h) :
         IF delay <= 0
         THEN NextSink(p, call[p].delivered) /\ UNCHANGED <<phase, sent, history>>
         ELSE IF call[p].retried
         THEN Fail(p)
         ELSE call' = [call EXCEPT ![p].at = "wait"] /\ UNCHANGED <<phase, sent, history>>

\* Mutant: it is not noted that this is the second attempt.
RetryForever(p) ==
    /\ call[p].at = "wait"
    /\ call' = [call EXCEPT ![p].at = "post"]
    /\ UNCHANGED <<phase, sent, history>>

Retry(p) ==
    /\ call[p].at = "wait"
    /\ call' = [call EXCEPT ![p] = [call[p] EXCEPT !.at = "post", !.retried = TRUE]]
    /\ UNCHANGED <<phase, sent, history>>

\* sleepCtx is cut short by the end of the sender's context.
WaitCancelled(p) ==
    /\ call[p].at = "wait"
    /\ p \in Cancellable
    /\ phase = "draining"
    /\ Fail(p)

Return(p) ==
    /\ call[p].at = "next"
    /\ call[p].sink > NumSinks
    /\ call' = [call EXCEPT ![p].at = "idle"]
    /\ UNCHANGED <<phase, sent, history>>

SenderStep(p) ==
    \/ Claim(p) \/ Suppress(p) \/ SendUnthrottled(p) \/ Accepted(p) \/ PostFails(p)
    \/ RateLimited(p) \/ Retry(p) \/ WaitCancelled(p) \/ Return(p)

-----------------------------------------------------------------------------
(* Time and the end of the process. *)

Older(age) == IF age < Interval THEN age + 1 ELSE Interval
AllOlder(f) == [s \in Sinks |-> [k \in Keys |-> Older(f[s][k])]]

InFlight(p) == call[p].at \in {"post", "wait"}

\* Mutant: a claim wears off a tick early.
TickTooFar ==
    /\ \A p \in Senders : InFlight(p) => call[p].age < MaxFlight
    /\ sent' = AllOlder(AllOlder(sent))
    /\ heard' = AllOlder(heard)
    /\ told' = AllOlder(told)
    /\ call' = [p \in Senders |-> IF InFlight(p) THEN [call[p] EXCEPT !.age = @ + 1] ELSE call[p]]
    /\ UNCHANGED <<phase, owner, freed>>

\* Mutant: a post has no timeout.
TickWithoutTimeout ==
    /\ sent' = AllOlder(sent)
    /\ heard' = AllOlder(heard)
    /\ told' = AllOlder(told)
    /\ call' = [p \in Senders |-> IF InFlight(p) THEN [call[p] EXCEPT !.age = @ + 1] ELSE call[p]]
    /\ UNCHANGED <<phase, owner, freed>>

\* The timeouts of client and context bound what passes during a post.
Tick ==
    /\ \A p \in Senders : InFlight(p) => call[p].age < MaxFlight
    /\ sent' = AllOlder(sent)
    /\ heard' = AllOlder(heard)
    /\ told' = AllOlder(told)
    /\ call' = [p \in Senders |-> IF InFlight(p) THEN [call[p] EXCEPT !.age = @ + 1] ELSE call[p]]
    /\ UNCHANGED <<phase, owner, freed>>

\* A signal ends the command's loop, and drain waits for what was started.
Drain ==
    /\ phase = "running"
    /\ phase' = "draining"
    /\ UNCHANGED <<sent, call, history>>

\* drain returns once nothing is under way or its timer fires; a message still
\* being sent is then lost. stopMonitor waits for the monitor without a limit.
Exit ==
    /\ phase = "draining"
    /\ \A p \in Cancellable : call[p].at = "idle"
    /\ phase' = "exited"
    /\ call' = [p \in Senders |-> NoCall]
    /\ sent' = Unclaimed /\ owner' = Unowned /\ told' = Unclaimed /\ freed' = {}
    /\ UNCHANGED heard

\* The supervisor starts the process again; the throttle is not persistent.
Start ==
    /\ phase = "exited"
    /\ phase' = "running"
    /\ UNCHANGED <<sent, call, history>>

ProcessStep == Tick \/ Drain \/ Exit \/ Start

Next ==
    \/ \E p \in Senders, k \in Keys \cup {NoKey} : SendThrottled(p, k)
    \/ \E p \in Senders : SenderStep(p)
    \/ ProcessStep

Spec == NotifierInit /\ [][Next]_notifierVars

\* A sender goes on, since every post has a timeout, and so does the end of
\* the process. Nothing is assumed of signals, of restarts or of the sinks.
FairSpec == Spec /\ WF_notifierVars(Exit) /\ \A p \in Senders : WF_notifierVars(SenderStep(p))

-----------------------------------------------------------------------------

\* docs/notifications.md:5, "a notification that failed to send never consumes
\* that hour": what silences a key at a sink is a message still being posted
\* by the one who claimed it, or one the sink accepted after the claim. Every
\* way out of deliver, and every release that comes late, has to agree.
SilenceIsEarned ==
    \A s \in Sinks, k \in Keys :
        sent[s][k] < Interval =>
            \/ heard[s][k] <= sent[s][k]
            \/ \E p \in Senders : /\ owner[s][k] = p
                                  /\ InFlight(p)
                                  /\ call[p].sink = s /\ call[p].key = k

\* A message a sink accepted silences its key there for the whole hour: only
\* a reset, or the release of a sender that a reset has overtaken, lets the
\* same message through again before.
AcceptedStaysSilent ==
    \A s \in Sinks, k \in Keys :
        told[s][k] < Interval /\ <<s, k>> \notin freed => sent[s][k] <= told[s][k]

\* Every call of SendThrottled returns, unless the process ends first, and a
\* process told to stop does: no sink can hold them up for ever.
SendersReturn ==
    /\ \A p \in Senders : call[p].at # "idle" ~> call[p].at = "idle"
    /\ phase = "draining" ~> phase = "exited"

\* docs/notifications.md:5, "Repeated identical notifications are suppressed for
\* an hour per key": up to a reset, whatever else is being sent.
RepeatsAreSuppressed ==
    \A s \in Sinks, k \in Keys : told[s][k] < Interval => sent[s][k] <= told[s][k]
==============================================================================
