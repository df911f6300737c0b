---------------------------- MODULE NotifierProofs ----------------------------
(***************************************************************************)
(* The throttle claims before it posts, posts without its mutex and gives  *)
(* the claim back afterwards. For any number of sinks, keys and senders at *)
(* once, no key is silent without a reason, and an accepted message keeps  *)
(* its key silent for the whole hour.                                      *)
(***************************************************************************)
EXTENDS Notifier, TLAPS

\* Retry-After values that a Duration can hold (discord.go:342).
InRange == \A h \in RetryAfter : h <= MaxDuration

\* Sender p is posting to sink s under its own claim on key k.
Owns(p, s, k) ==
    /\ owner[s][k] = p
    /\ InFlight(p)
    /\ call[p].sink = s /\ call[p].key = k

\* A call in flight is at a sink, and only then does it have an age.
CallsInOrder ==
    \A p \in Senders :
        /\ InFlight(p) => call[p].sink \in Sinks
        /\ ~InFlight(p) => call[p].age = 0

\* While its owner is posting, a claim is as old as the post, and no message
\* accepted earlier is still supposed to silence the key.
OwnersKnow ==
    \A p \in Senders, s \in Sinks, k \in Keys :
        Owns(p, s, k) => /\ sent[s][k] = call[p].age
                         /\ told[s][k] = Interval \/ <<s, k>> \in freed

NotifierInv ==
    NotifierTypeOK /\ CallsInOrder /\ OwnersKnow /\ SilenceIsEarned /\ AcceptedStaysSilent

Table(S) == [Sinks -> [Keys -> S]]

LEMMA Defaults ==
    /\ Unclaimed \in Table(Ages) /\ Unowned \in Table(Senders \cup {Nobody}) /\ NoCall \in Call
    /\ \A s \in Sinks, k \in Keys : Unclaimed[s][k] = Interval /\ Unowned[s][k] = Nobody
BY NotifierAssumption DEF Unclaimed, Unowned, NoCall, Call, Table, Sinks, Ages

LEMMA OlderAge ==
    ASSUME NEW a \in Ages
    PROVE  /\ Older(a) \in Ages
           /\ Older(a) < Interval => a < Interval
           /\ \A b \in Ages : a <= b => Older(a) <= Older(b)
           /\ a < Interval => Older(a) = a + 1
           /\ a = Interval => Older(a) = Interval
BY NotifierAssumption DEF Older, Ages

\* Everything gets older at once.
LEMMA TableOlder ==
    ASSUME NEW f \in Table(Ages)
    PROVE  /\ AllOlder(f) \in Table(Ages)
           /\ \A s \in Sinks, k \in Keys : AllOlder(f)[s][k] = Older(f[s][k]) /\ f[s][k] \in Ages
BY OlderAge DEF AllOlder, Table

LEMMA CallWrite ==
    ASSUME NotifierTypeOK, NEW p \in Senders, NEW c \in Call, call' = [call EXCEPT ![p] = c]
    PROVE  /\ call' \in [Senders -> Call] /\ call'[p] = c
           /\ \A q \in Senders : q # p => call'[q] = call[q]
BY DEF NotifierTypeOK

LEMMA CallAtType ==
    ASSUME NEW k \in Keys \cup {NoKey}, NEW s \in 1..(NumSinks + 1), NEW d \in BOOLEAN
    PROVE  /\ CallAt(k, s, d) \in Call
           /\ CallAt(k, s, d).at = "next" /\ CallAt(k, s, d).age = 0
<1>1. 0 \in 0..MaxFlight BY NotifierAssumption
<1>2. CallAt(k, s, d) \in Call BY <1>1, Zenon DEF CallAt, Call
<1> QED BY <1>2 DEF CallAt

\* Moving on to the next sink.
LEMMA NextSinkCall ==
    ASSUME NotifierTypeOK, NEW p \in Senders, call[p].sink \in Sinks, NEW d \in BOOLEAN,
           NextSink(p, d)
    PROVE  /\ call' \in [Senders -> Call]
           /\ call'[p].at = "next" /\ call'[p].age = 0
           /\ \A q \in Senders : q # p => call'[q] = call[q]
<1> DEFINE c == CallAt(call[p].key, call[p].sink + 1, d)
<1>1. call[p].key \in Keys \cup {NoKey} /\ call[p].sink + 1 \in 1..(NumSinks + 1)
    BY NotifierAssumption DEF Sinks, Call, NotifierTypeOK
<1>2. c \in Call /\ c.at = "next" /\ c.age = 0
    BY <1>1, CallAtType
<1>3. call' = [call EXCEPT ![p] = c]
    BY DEF NextSink
<1> HIDE DEF c
<1> QED BY <1>2, <1>3, CallWrite

\* Only the progress of a call changes.
LEMMA Moved ==
    ASSUME NotifierTypeOK, NEW p \in Senders, NEW a \in {"idle", "post", "wait"},
           call' = [call EXCEPT ![p].at = a]
    PROVE  /\ call' \in [Senders -> Call]
           /\ call'[p].at = a /\ call'[p].age = call[p].age
           /\ call'[p].sink = call[p].sink /\ call'[p].key = call[p].key
           /\ \A q \in Senders : q # p => call'[q] = call[q]
<1> DEFINE c == [call[p] EXCEPT !.at = a]
<1>1. call[p] \in Call BY DEF NotifierTypeOK
<1>2. c \in Call BY <1>1 DEF Call
<1>3. c.at = a /\ c.age = call[p].age /\ c.sink = call[p].sink /\ c.key = call[p].key
    BY <1>1 DEF Call
<1>4. call' = [call EXCEPT ![p] = c]
    BY DEF NotifierTypeOK
<1> HIDE DEF c
<1> QED BY <1>2, <1>3, <1>4, CallWrite

\* A step that leaves the tables alone, in which p goes on with the claim it
\* has, or has none before and after.
LEMMA CallOnly ==
    ASSUME NotifierInv, UNCHANGED <<phase, sent, owner, heard, told, freed>>,
           NEW p \in Senders, call' \in [Senders -> Call],
           \A q \in Senders : q # p => call'[q] = call[q],
           \/ /\ InFlight(p) /\ InFlight(p)'
              /\ call'[p].sink = call[p].sink /\ call'[p].key = call[p].key
              /\ call'[p].age = call[p].age
           \/ ~InFlight(p) /\ ~InFlight(p)' /\ call'[p].age = 0
           \/ ~InFlight(p) /\ call'[p].key = NoKey /\ call'[p].sink \in Sinks /\ InFlight(p)'
           \/ InFlight(p) /\ call[p].key = NoKey /\ ~InFlight(p)' /\ call'[p].age = 0
    PROVE  NotifierInv'
<1> USE NotifierAssumption DEF NotifierInv
<1>1. \A q \in Senders : q # p => (InFlight(q)' <=> InFlight(q))
    BY DEF InFlight
<1>2. CallsInOrder'
    BY <1>1 DEF CallsInOrder
<1>3. \A q \in Senders, s \in Sinks, k \in Keys : Owns(q, s, k)' <=> Owns(q, s, k)
    BY <1>1 DEF Owns
<1>4. OwnersKnow'
    BY <1>1, <1>3 DEF OwnersKnow, Owns
<1>5. SilenceIsEarned'
    BY <1>3 DEF SilenceIsEarned, Owns
<1> QED BY <1>2, <1>4, <1>5 DEF AcceptedStaysSilent, NotifierTypeOK

\* With no claim at all, nothing has to be explained.
LEMMA Cleared ==
    ASSUME NotifierInv, sent' = Unclaimed, owner' = Unowned, told' = Unclaimed, freed' = {},
           heard' = heard, phase' \in {"running", "draining", "exited"},
           call' \in [Senders -> Call], CallsInOrder'
    PROVE  NotifierInv'
<1> USE NotifierAssumption, Defaults DEF NotifierInv
<1>1. NotifierTypeOK' BY DEF NotifierTypeOK, Table
<1>2. OwnersKnow' BY DEF OwnersKnow, Owns
<1>3. SilenceIsEarned' BY DEF SilenceIsEarned
<1>4. AcceptedStaysSilent' BY DEF AcceptedStaysSilent
<1> QED BY <1>1, <1>2, <1>3, <1>4

LEMMA SendKeeps ==
    ASSUME NotifierInv, NEW p \in Senders, NEW k \in Keys \cup {NoKey}, SendThrottled(p, k)
    PROVE  NotifierInv'
<1> DEFINE c == CallAt(k, 1, TRUE)
<1>1. c \in Call /\ c.at = "next" /\ c.age = 0
    <2>1. 1 \in 1..(NumSinks + 1) BY NotifierAssumption
    <2>2. TRUE \in BOOLEAN OBVIOUS
    <2> QED BY <2>1, <2>2, CallAtType
<1>2. NotifierTypeOK /\ call' = [call EXCEPT ![p] = c] /\ call[p].at = "idle"
    BY DEF SendThrottled, NotifierInv
<1> HIDE DEF c
<1>3. /\ call' \in [Senders -> Call] /\ call'[p] = c
      /\ \A q \in Senders : q # p => call'[q] = call[q]
    BY <1>1, <1>2, CallWrite
<1>4. ~InFlight(p) /\ ~InFlight(p)' /\ call'[p].age = 0
    BY <1>1, <1>2, <1>3 DEF InFlight
<1>5. CASE k = NoKey
    <2>1. CallsInOrder'
        BY <1>3, <1>4 DEF CallsInOrder, InFlight, NotifierInv
    <2> QED BY <1>3, <1>5, <2>1, Cleared DEF SendThrottled, NotifierInv, NotifierTypeOK
<1>6. CASE k # NoKey
    <2>1. UNCHANGED <<phase, sent, owner, heard, told, freed>>
        BY <1>6 DEF SendThrottled
    <2> QED BY <2>1, <1>3, <1>4, CallOnly
<1> QED BY <1>5, <1>6

\* An AtSink call is not in flight and has a sink to turn to.
LEMMA Ready ==
    ASSUME NotifierInv, NEW p \in Senders, AtSink(p)
    PROVE  ~InFlight(p) /\ call[p].sink \in Sinks /\ call[p].age = 0
           /\ call[p].key \in Keys \cup {NoKey} /\ call[p].delivered \in BOOLEAN
<1>1. ~InFlight(p) BY DEF AtSink, InFlight
<1>2. call[p].sink \in 1..(NumSinks + 1) /\ call[p].key \in Keys \cup {NoKey}
      /\ call[p].delivered \in BOOLEAN
    BY Zenon DEF NotifierInv, NotifierTypeOK, Call
<1>3. call[p].sink \in Sinks BY <1>2, NotifierAssumption DEF AtSink, Sinks
<1> QED BY <1>1, <1>2, <1>3 DEF NotifierInv, CallsInOrder

\* A claim is only made where nothing accepted is still to be silent.
LEMMA ClaimKeeps ==
    ASSUME NotifierInv, NEW p \in Senders, Claim(p)
    PROVE  NotifierInv'
<1> DEFINE s == call[p].sink
           k == call[p].key
<1> USE NotifierAssumption
<1>1. ~InFlight(p) /\ s \in Sinks /\ k \in Keys /\ call[p].age = 0
    BY Ready DEF Claim
<1>2. NotifierTypeOK BY DEF NotifierInv
<1>3. /\ call' \in [Senders -> Call] /\ call'[p].at = "post" /\ call'[p].age = 0
      /\ call'[p].sink = s /\ call'[p].key = k
      /\ \A q \in Senders : q # p => call'[q] = call[q]
    BY <1>1, <1>2, Moved DEF Claim
<1>4. InFlight(p)' /\ \A q \in Senders : q # p => (InFlight(q)' <=> InFlight(q))
    BY <1>3 DEF InFlight
<1>5. sent \in Table(Ages) /\ owner \in Table(Senders \cup {Nobody}) /\ told \in Table(Ages)
    BY <1>2 DEF NotifierTypeOK, Table
<1>8. /\ sent[s][k] = Interval /\ UNCHANGED <<phase, heard, told, freed>>
      /\ sent' = [sent EXCEPT ![s][k] = 0] /\ owner' = [owner EXCEPT ![s][k] = p]
    BY DEF Claim
<1> HIDE DEF s, k
<1>6. /\ sent' \in Table(Ages)
      /\ \A t \in Sinks, l \in Keys : sent'[t][l] = IF t = s /\ l = k THEN 0 ELSE sent[t][l]
    <2>1. 0 \in Ages BY DEF Ages
    <2>2. sent \in Table(Ages) /\ s \in Sinks /\ k \in Keys /\ sent' = [sent EXCEPT ![s][k] = 0]
        BY <1>1, <1>5, <1>8
    <2> QED BY <2>1, <2>2 DEF Table
<1>7. /\ owner' \in Table(Senders \cup {Nobody})
      /\ \A t \in Sinks, l \in Keys : owner'[t][l] = IF t = s /\ l = k THEN p ELSE owner[t][l]
    BY <1>1, <1>5, <1>8 DEF Table
<1>9. told[s][k] \in Ages BY <1>1, <1>5 DEF Table
<1>10. NotifierTypeOK'
    BY <1>2, <1>3, <1>6, <1>7, <1>8 DEF NotifierTypeOK, Table
<1>11. CallsInOrder'
    BY <1>1, <1>3, <1>4 DEF CallsInOrder, NotifierInv
<1>12. told[s][k] = Interval \/ <<s, k>> \in freed
    BY <1>1, <1>8, <1>9 DEF NotifierInv, AcceptedStaysSilent, Ages
<1>13. OwnersKnow'
    <2> SUFFICES ASSUME NEW q \in Senders, NEW t \in Sinks, NEW l \in Keys, Owns(q, t, l)'
                 PROVE  /\ sent'[t][l] = call'[q].age
                        /\ told'[t][l] = Interval \/ <<t, l>> \in freed'
        BY DEF OwnersKnow
    <2>1. CASE q = p
        BY <2>1, <1>3, <1>6, <1>8, <1>12 DEF Owns
    <2>2. CASE q # p
        <3>1. ~(t = s /\ l = k) BY <2>2, <1>7 DEF Owns
        <3>2. Owns(q, t, l) BY <2>2, <3>1, <1>3, <1>4, <1>7 DEF Owns
        <3> QED BY <2>2, <3>1, <3>2, <1>3, <1>6, <1>8 DEF NotifierInv, OwnersKnow
    <2> QED BY <2>1, <2>2
<1>14. SilenceIsEarned'
    <2> SUFFICES ASSUME NEW t \in Sinks, NEW l \in Keys, sent'[t][l] < Interval
                 PROVE  heard'[t][l] <= sent'[t][l] \/ \E q \in Senders : Owns(q, t, l)'
        BY DEF SilenceIsEarned, Owns
    <2>1. CASE t = s /\ l = k
        BY <2>1, <1>3, <1>4, <1>7 DEF Owns
    <2>2. CASE ~(t = s /\ l = k)
        <3>1. heard[t][l] <= sent[t][l] \/ \E q \in Senders : Owns(q, t, l)
            BY <2>2, <1>6 DEF NotifierInv, SilenceIsEarned, Owns
        <3>2. \A q \in Senders : Owns(q, t, l) => Owns(q, t, l)'
            BY <2>2, <1>1, <1>3, <1>4, <1>7 DEF Owns
        <3> QED BY <2>2, <3>1, <3>2, <1>6, <1>8
    <2> QED BY <2>1, <2>2
<1>15. AcceptedStaysSilent'
    <2>1. \A t \in Sinks, l \in Keys : told[t][l] \in Ages BY <1>5 DEF Table
    <2> QED BY <2>1, <1>6, <1>8 DEF NotifierInv, AcceptedStaysSilent, Ages
<1> QED BY <1>10, <1>11, <1>13, <1>14, <1>15 DEF NotifierInv

\* A call in flight has a sink.
LEMMA Flying ==
    ASSUME NotifierInv, NEW p \in Senders, InFlight(p)
    PROVE  /\ call[p].sink \in Sinks /\ call[p].age \in 0..MaxFlight
           /\ call[p].key \in Keys \cup {NoKey} /\ call[p].delivered \in BOOLEAN
<1>1. /\ call[p].age \in 0..MaxFlight /\ call[p].key \in Keys \cup {NoKey}
      /\ call[p].delivered \in BOOLEAN
    BY Zenon DEF NotifierInv, NotifierTypeOK, Call
<1> QED BY <1>1 DEF NotifierInv, CallsInOrder

\* What an accepted message silences is as old as the claim it was sent under.
LEMMA AcceptedKeeps ==
    ASSUME NotifierInv, NEW p \in Senders, Accepted(p)
    PROVE  NotifierInv'
<1> DEFINE s == call[p].sink
           k == call[p].key
<1> USE NotifierAssumption
<1>1. NotifierTypeOK /\ InFlight(p) BY DEF Accepted, InFlight, NotifierInv
<1>2. /\ s \in Sinks /\ k \in Keys \cup {NoKey} /\ call[p].age \in 0..MaxFlight
      /\ call[p].delivered \in BOOLEAN
    BY <1>1, Flying
<1>3. /\ call' \in [Senders -> Call] /\ call'[p].at = "next" /\ call'[p].age = 0
      /\ \A q \in Senders : q # p => call'[q] = call[q]
    BY <1>1, <1>2, NextSinkCall DEF Accepted
<1>4. ~InFlight(p)' /\ \A q \in Senders : q # p => (InFlight(q)' <=> InFlight(q))
    BY <1>3 DEF InFlight
<1>5. CASE k = NoKey
    <2>1. UNCHANGED <<phase, sent, owner, heard, told, freed>>
        BY <1>5 DEF Accepted
    <2> QED BY <2>1, <1>1, <1>3, <1>4, <1>5, CallOnly
<1>6. CASE k # NoKey
    <2>1. /\ heard' = [heard EXCEPT ![s][k] = 0] /\ UNCHANGED <<phase, sent, owner, freed>>
          /\ told' = IF owner[s][k] = p THEN [told EXCEPT ![s][k] = call[p].age] ELSE told
        BY <1>6 DEF Accepted
    <2>2. k \in Keys BY <1>2, <1>6
    <2>3. Owns(p, s, k) <=> owner[s][k] = p BY <1>1 DEF Owns
    <2>4. \A t \in Sinks, l \in Keys : Owns(p, t, l) => t = s /\ l = k BY DEF Owns
    <2> HIDE DEF s, k
    <2>5. /\ sent \in Table(Ages) /\ heard \in Table(Ages) /\ told \in Table(Ages)
          /\ 0 \in Ages /\ call[p].age \in Ages
        BY <1>1, <1>2 DEF NotifierTypeOK, Table, Ages
    <2>6. /\ heard' \in Table(Ages)
          /\ \A t \in Sinks, l \in Keys : heard'[t][l] = IF t = s /\ l = k THEN 0 ELSE heard[t][l]
        BY <1>2, <2>1, <2>2, <2>5 DEF Table
    <2>7. /\ told' \in Table(Ages)
          /\ \A t \in Sinks, l \in Keys :
               told'[t][l] = IF t = s /\ l = k /\ owner[s][k] = p THEN call[p].age ELSE told[t][l]
        <3>1. CASE owner[s][k] = p BY <3>1, <1>2, <2>1, <2>2, <2>5 DEF Table
        <3>2. CASE owner[s][k] # p BY <3>2, <2>1, <2>5
        <3> QED BY <3>1, <3>2
    <2>8. NotifierTypeOK'
        BY <1>1, <1>3, <2>1, <2>6, <2>7 DEF NotifierTypeOK, Table
    <2>9. CallsInOrder'
        BY <1>3, <1>4 DEF CallsInOrder, NotifierInv
    <2>10. \A q \in Senders, t \in Sinks, l \in Keys :
               Owns(q, t, l)' => q # p /\ Owns(q, t, l)
        BY <1>3, <1>4, <2>1 DEF Owns
    <2>11. OwnersKnow'
        <3> SUFFICES ASSUME NEW q \in Senders, NEW t \in Sinks, NEW l \in Keys, Owns(q, t, l)'
                     PROVE  /\ sent'[t][l] = call'[q].age
                            /\ told'[t][l] = Interval \/ <<t, l>> \in freed'
            BY DEF OwnersKnow
        <3>1. q # p /\ Owns(q, t, l) /\ owner[t][l] = q BY <2>10 DEF Owns
        <3>2. told'[t][l] = told[t][l] BY <3>1, <2>7
        <3> QED BY <3>1, <3>2, <1>3, <2>1 DEF NotifierInv, OwnersKnow
    <2>12. SilenceIsEarned'
        <3> SUFFICES ASSUME NEW t \in Sinks, NEW l \in Keys, sent'[t][l] < Interval
                     PROVE  heard'[t][l] <= sent'[t][l] \/ \E q \in Senders : Owns(q, t, l)'
            BY DEF SilenceIsEarned, Owns
        <3>1. CASE t = s /\ l = k
            <4>1. sent[t][l] \in Ages BY <2>5 DEF Table
            <4> QED BY <3>1, <4>1, <2>1, <2>6 DEF Ages
        <3>2. CASE ~(t = s /\ l = k)
            <4>1. heard[t][l] <= sent[t][l] \/ \E q \in Senders : Owns(q, t, l)
                BY <2>1 DEF NotifierInv, SilenceIsEarned, Owns
            <4>2. \A q \in Senders : Owns(q, t, l) => Owns(q, t, l)'
                BY <3>2, <2>4, <1>3, <1>4, <2>1 DEF Owns
            <4> QED BY <3>2, <4>1, <4>2, <2>1, <2>6
        <3> QED BY <3>1, <3>2
    <2>13. AcceptedStaysSilent'
        <3> SUFFICES ASSUME NEW t \in Sinks, NEW l \in Keys,
                            told'[t][l] < Interval, <<t, l>> \notin freed'
                     PROVE  sent'[t][l] <= told'[t][l]
            BY DEF AcceptedStaysSilent
        <3>1. CASE t = s /\ l = k /\ owner[s][k] = p
            <4>1. sent[s][k] = call[p].age
                BY <3>1, <2>3, <1>2, <2>2 DEF NotifierInv, OwnersKnow
            <4> QED BY <3>1, <4>1, <2>1, <2>7, <1>2
        <3>2. CASE ~(t = s /\ l = k /\ owner[s][k] = p)
            BY <3>2, <2>1, <2>7 DEF NotifierInv, AcceptedStaysSilent
        <3> QED BY <3>1, <3>2
    <2> QED BY <2>8, <2>9, <2>11, <2>12, <2>13 DEF NotifierInv
<1> QED BY <1>5, <1>6

\* A release that hits the claim of another sender is remembered in freed.
LEMMA FailKeeps ==
    ASSUME NotifierInv, NEW p \in Senders, InFlight(p), Fail(p)
    PROVE  NotifierInv'
<1> DEFINE s == call[p].sink
           k == call[p].key
<1> USE NotifierAssumption
<1>1. NotifierTypeOK BY DEF NotifierInv
<1>2. /\ s \in Sinks /\ k \in Keys \cup {NoKey} BY Flying
<1>3. /\ call' \in [Senders -> Call] /\ call'[p].at = "next" /\ call'[p].age = 0
      /\ \A q \in Senders : q # p => call'[q] = call[q]
    <2>1. FALSE \in BOOLEAN OBVIOUS
    <2> QED BY <1>1, <1>2, <2>1, NextSinkCall DEF Fail
<1>4. ~InFlight(p)' /\ \A q \in Senders : q # p => (InFlight(q)' <=> InFlight(q))
    BY <1>3 DEF InFlight
<1>5. CASE k = NoKey
    <2>1. UNCHANGED <<phase, sent, owner, heard, told, freed>>
        BY <1>5 DEF Fail
    <2> QED BY <2>1, <1>3, <1>4, <1>5, CallOnly
<1>6. CASE k # NoKey
    <2>1. /\ sent' = [sent EXCEPT ![s][k] = Interval] /\ UNCHANGED <<phase, heard, told>>
          /\ owner' = [owner EXCEPT ![s][k] = Nobody]
          /\ freed' = IF owner[s][k] = p \/ sent[s][k] = Interval
                      THEN freed ELSE freed \cup {<<s, k>>}
        BY <1>6 DEF Fail
    <2>2. k \in Keys BY <1>2, <1>6
    <2>3. Owns(p, s, k) <=> owner[s][k] = p BY DEF Owns
    <2>4. \A t \in Sinks, l \in Keys : Owns(p, t, l) => t = s /\ l = k BY DEF Owns
    <2> HIDE DEF s, k
    <2>5. /\ sent \in Table(Ages) /\ owner \in Table(Senders \cup {Nobody})
          /\ told \in Table(Ages) /\ Interval \in Ages
        BY <1>1 DEF NotifierTypeOK, Table, Ages
    <2>6. /\ sent' \in Table(Ages)
          /\ \A t \in Sinks, l \in Keys :
               sent'[t][l] = IF t = s /\ l = k THEN Interval ELSE sent[t][l]
        BY <1>2, <2>1, <2>2, <2>5 DEF Table
    <2>7. /\ owner' \in Table(Senders \cup {Nobody})
          /\ \A t \in Sinks, l \in Keys :
               owner'[t][l] = IF t = s /\ l = k THEN Nobody ELSE owner[t][l]
        BY <1>2, <2>1, <2>2, <2>5 DEF Table
    <2>8. freed \subseteq freed' /\ freed' \subseteq Sinks \X Keys
        BY <1>1, <1>2, <2>1, <2>2 DEF NotifierTypeOK
    <2>9. NotifierTypeOK'
        BY <1>1, <1>3, <2>1, <2>6, <2>7, <2>8 DEF NotifierTypeOK, Table
    <2>10. CallsInOrder'
        BY <1>3, <1>4 DEF CallsInOrder, NotifierInv
    <2>11. \A q \in Senders, t \in Sinks, l \in Keys :
               Owns(q, t, l)' => q # p /\ Owns(q, t, l) /\ ~(t = s /\ l = k)
        BY <1>3, <1>4, <2>7 DEF Owns
    <2>12. OwnersKnow'
        BY <2>11, <2>1, <2>6, <2>8, <1>3 DEF NotifierInv, OwnersKnow
    <2>13. SilenceIsEarned'
        <3> SUFFICES ASSUME NEW t \in Sinks, NEW l \in Keys, sent'[t][l] < Interval
                     PROVE  heard'[t][l] <= sent'[t][l] \/ \E q \in Senders : Owns(q, t, l)'
            BY DEF SilenceIsEarned, Owns
        <3>1. ~(t = s /\ l = k) BY <2>6
        <3>2. heard[t][l] <= sent[t][l] \/ \E q \in Senders : Owns(q, t, l)
            BY <3>1, <2>6 DEF NotifierInv, SilenceIsEarned, Owns
        <3>3. \A q \in Senders : Owns(q, t, l) => Owns(q, t, l)'
            BY <3>1, <2>4, <1>3, <1>4, <2>7 DEF Owns
        <3> QED BY <3>1, <3>2, <3>3, <2>1, <2>6
    <2>14. AcceptedStaysSilent'
        <3> SUFFICES ASSUME NEW t \in Sinks, NEW l \in Keys,
                            told[t][l] < Interval, <<t, l>> \notin freed'
                     PROVE  sent'[t][l] <= told[t][l]
            BY <2>1 DEF AcceptedStaysSilent
        <3>1. <<t, l>> \notin freed /\ sent[t][l] <= told[t][l]
            BY <2>8 DEF NotifierInv, AcceptedStaysSilent
        <3>2. CASE t = s /\ l = k
            <4>1. owner[s][k] = p \/ sent[s][k] = Interval BY <3>2, <2>1
            <4>2. sent[s][k] # Interval
                <5>1. told[t][l] \in Ages /\ sent[t][l] \in Ages BY <2>5 DEF Table
                <5> QED BY <5>1, <3>1, <3>2 DEF Ages
            <4>3. told[s][k] = Interval \/ <<s, k>> \in freed
                BY <4>1, <4>2, <2>2, <2>3, <1>2 DEF NotifierInv, OwnersKnow
            <4> QED BY <4>3, <3>1, <3>2
        <3>3. CASE ~(t = s /\ l = k) BY <3>1, <3>3, <2>6
        <3> QED BY <3>2, <3>3
    <2> QED BY <2>9, <2>10, <2>12, <2>13, <2>14 DEF NotifierInv
<1> QED BY <1>5, <1>6

\* Time passes for claims, messages and posts alike.
LEMMA TickKeeps ==
    ASSUME NotifierInv, Tick
    PROVE  NotifierInv'
<1> USE NotifierAssumption
<1> DEFINE Aged(p) == IF InFlight(p) THEN [call[p] EXCEPT !.age = @ + 1] ELSE call[p]
<1>1. /\ sent \in Table(Ages) /\ heard \in Table(Ages) /\ told \in Table(Ages) /\ NotifierTypeOK
    BY DEF NotifierInv, NotifierTypeOK, Table
<1>2. /\ sent' \in Table(Ages) /\ heard' \in Table(Ages) /\ told' \in Table(Ages)
      /\ \A t \in Sinks, l \in Keys :
           /\ sent'[t][l] = Older(sent[t][l]) /\ sent[t][l] \in Ages
           /\ heard'[t][l] = Older(heard[t][l]) /\ heard[t][l] \in Ages
           /\ told'[t][l] = Older(told[t][l]) /\ told[t][l] \in Ages
    BY <1>1, TableOlder DEF Tick
<1>3. UNCHANGED <<phase, owner, freed>> /\ call' = [p \in Senders |-> Aged(p)]
    BY DEF Tick
<1>4. ASSUME NEW p \in Senders
      PROVE  /\ Aged(p) \in Call /\ Aged(p).at = call[p].at
             /\ Aged(p).sink = call[p].sink /\ Aged(p).key = call[p].key
             /\ Aged(p).age = IF InFlight(p) THEN call[p].age + 1 ELSE call[p].age
    <2>1. call[p] \in Call BY <1>1 DEF NotifierTypeOK
    <2>2. CASE ~InFlight(p) BY <2>1, <2>2
    <2>3. CASE InFlight(p)
        <3>1. call[p].age \in 0..MaxFlight /\ call[p].age < MaxFlight
            BY <2>3, Flying DEF Tick
        <3>2. call[p].age + 1 \in 0..MaxFlight BY <3>1
        <3> QED BY <2>1, <2>3, <3>2 DEF Call
    <2> QED BY <2>2, <2>3
<1> HIDE DEF Aged
<1>5. call' \in [Senders -> Call] BY <1>3, <1>4
<1>6. \A p \in Senders : /\ call'[p].at = call[p].at /\ (InFlight(p)' <=> InFlight(p))
                         /\ call'[p].sink = call[p].sink /\ call'[p].key = call[p].key
                         /\ InFlight(p) => call'[p].age = call[p].age + 1
                         /\ ~InFlight(p) => call'[p].age = call[p].age
    BY <1>3, <1>4 DEF InFlight
<1>7. NotifierTypeOK' BY <1>1, <1>2, <1>3, <1>5 DEF NotifierTypeOK, Table
<1>8. CallsInOrder' BY <1>6 DEF NotifierInv, CallsInOrder
<1>9. \A p \in Senders, t \in Sinks, l \in Keys : Owns(p, t, l)' <=> Owns(p, t, l)
    BY <1>3, <1>6 DEF Owns
<1>10. OwnersKnow'
    <2> SUFFICES ASSUME NEW p \in Senders, NEW t \in Sinks, NEW l \in Keys, Owns(p, t, l)
                 PROVE  /\ sent'[t][l] = call'[p].age
                        /\ told'[t][l] = Interval \/ <<t, l>> \in freed'
        BY <1>9 DEF OwnersKnow
    <2>1. /\ sent[t][l] = call[p].age
          /\ told[t][l] = Interval \/ <<t, l>> \in freed
        BY DEF NotifierInv, OwnersKnow
    <2>2. call'[p].age = call[p].age + 1 /\ call[p].age \in 0..MaxFlight
        BY <1>6, Flying DEF Owns
    <2>3. Older(sent[t][l]) = sent[t][l] + 1 BY <2>1, <2>2, <1>2, OlderAge
    <2>4. told[t][l] = Interval => Older(told[t][l]) = Interval BY <1>2, OlderAge
    <2> QED BY <2>1, <2>2, <2>3, <2>4, <1>2, <1>3
<1>11. SilenceIsEarned'
    <2> SUFFICES ASSUME NEW t \in Sinks, NEW l \in Keys, sent'[t][l] < Interval
                 PROVE  heard'[t][l] <= sent'[t][l] \/ \E p \in Senders : Owns(p, t, l)'
        BY DEF SilenceIsEarned, Owns
    <2>1. sent[t][l] < Interval BY <1>2, OlderAge
    <2>2. heard[t][l] <= sent[t][l] \/ \E p \in Senders : Owns(p, t, l)
        BY <2>1 DEF NotifierInv, SilenceIsEarned, Owns
    <2>3. heard[t][l] <= sent[t][l] => heard'[t][l] <= sent'[t][l] BY <1>2, OlderAge
    <2> QED BY <2>2, <2>3, <1>9
<1>12. AcceptedStaysSilent'
    <2> SUFFICES ASSUME NEW t \in Sinks, NEW l \in Keys,
                        told'[t][l] < Interval, <<t, l>> \notin freed
                 PROVE  sent'[t][l] <= told'[t][l]
        BY <1>3 DEF AcceptedStaysSilent
    <2>1. told[t][l] < Interval BY <1>2, OlderAge
    <2>2. sent[t][l] <= told[t][l] BY <2>1 DEF NotifierInv, AcceptedStaysSilent
    <2> QED BY <2>2, <1>2, OlderAge
<1> QED BY <1>7, <1>8, <1>10, <1>11, <1>12 DEF NotifierInv

\* An answer that is taken at its word is waited out once.
LEMMA RateLimitedKeeps ==
    ASSUME InRange, NotifierInv, NEW p \in Senders, RateLimited(p)
    PROVE  NotifierInv'
<1>1. InFlight(p) /\ NotifierTypeOK BY DEF RateLimited, InFlight, NotifierInv
<1> DEFINE Outcome(delay) ==
         IF delay <= 0
         THEN NextSink(p, call[p].delivered) /\ UNCHANGED <<phase, sent, history>>
         ELSE IF call[p].retried
         THEN Fail(p)
         ELSE call' = [call EXCEPT ![p].at = "wait"] /\ UNCHANGED <<phase, sent, history>>
<1>0. PICK h \in RetryAfter : \E d \in RateLimitDelay(h) : Outcome(d) BY DEF RateLimited
<1>2. PICK delay \in RateLimitDelay(h) : Outcome(delay) BY <1>0
<1>3. ~(delay <= 0)
    BY NotifierAssumption DEF RateLimitDelay, InRange
<1>4. CASE Fail(p) BY <1>1, <1>4, FailKeeps
<1>5. CASE call' = [call EXCEPT ![p].at = "wait"] /\ UNCHANGED <<phase, sent, history>>
    <2>1. /\ call' \in [Senders -> Call]
          /\ call'[p].at = "wait" /\ call'[p].age = call[p].age
          /\ call'[p].sink = call[p].sink /\ call'[p].key = call[p].key
          /\ \A q \in Senders : q # p => call'[q] = call[q]
        BY <1>1, <1>5, Moved
    <2>2. InFlight(p)' BY <2>1 DEF InFlight
    <2> QED BY <1>1, <1>5, <2>1, <2>2, CallOnly DEF history
<1> QED BY <1>2, <1>3, <1>4, <1>5

LEMMA SenderStepKeeps ==
    ASSUME InRange, NotifierInv, NEW p \in Senders, SenderStep(p)
    PROVE  NotifierInv'
<1>1. NotifierTypeOK BY DEF NotifierInv
<1>2. CASE Suppress(p)
    <2>1. ~InFlight(p) /\ call[p].sink \in Sinks /\ call[p].delivered \in BOOLEAN
        BY <1>2, Ready DEF Suppress
    <2>2. /\ call' \in [Senders -> Call] /\ call'[p].at = "next" /\ call'[p].age = 0
          /\ \A q \in Senders : q # p => call'[q] = call[q]
        BY <1>1, <1>2, <2>1, NextSinkCall DEF Suppress
    <2>3. ~InFlight(p)' BY <2>2 DEF InFlight
    <2> QED BY <1>2, <2>1, <2>2, <2>3, CallOnly DEF Suppress, history
<1>3. CASE SendUnthrottled(p)
    <2>1. ~InFlight(p) /\ call[p].sink \in Sinks /\ call[p].key = NoKey
        BY <1>3, Ready DEF SendUnthrottled
    <2>2. /\ call' \in [Senders -> Call] /\ call'[p].at = "post"
          /\ call'[p].sink = call[p].sink /\ call'[p].key = call[p].key
          /\ \A q \in Senders : q # p => call'[q] = call[q]
        BY <1>1, <1>3, Moved DEF SendUnthrottled
    <2>3. InFlight(p)' BY <2>2 DEF InFlight
    <2> QED BY <1>3, <2>1, <2>2, <2>3, CallOnly DEF SendUnthrottled, history
<1>4. CASE Retry(p)
    <2> DEFINE c == [call[p] EXCEPT !.at = "post", !.retried = TRUE]
    <2>1. call[p] \in Call /\ InFlight(p) BY <1>1, <1>4 DEF NotifierTypeOK, Retry, InFlight
    <2>2. c \in Call BY <2>1, Zenon DEF Call
    <2>3. c.at = "post" /\ c.age = call[p].age /\ c.sink = call[p].sink /\ c.key = call[p].key
        BY <2>1 DEF Call
    <2>4. call' = [call EXCEPT ![p] = c] BY <1>4 DEF Retry
    <2> HIDE DEF c
    <2>5. /\ call' \in [Senders -> Call] /\ call'[p] = c
          /\ \A q \in Senders : q # p => call'[q] = call[q]
        BY <1>1, <2>2, <2>4, CallWrite
    <2>6. InFlight(p)' BY <2>3, <2>5 DEF InFlight
    <2> QED BY <1>4, <2>1, <2>3, <2>5, <2>6, CallOnly DEF Retry, history
<1>5. CASE Return(p)
    <2>1. ~InFlight(p) /\ call[p].age = 0
        BY <1>5 DEF Return, InFlight, NotifierInv, CallsInOrder
    <2>2. /\ call' \in [Senders -> Call] /\ call'[p].at = "idle" /\ call'[p].age = call[p].age
          /\ \A q \in Senders : q # p => call'[q] = call[q]
        BY <1>1, <1>5, Moved DEF Return
    <2>3. ~InFlight(p)' BY <2>2 DEF InFlight
    <2> QED BY <1>5, <2>1, <2>2, <2>3, CallOnly DEF Return, history
<1>6. CASE PostFails(p) \/ WaitCancelled(p)
    BY <1>6, FailKeeps DEF PostFails, WaitCancelled, InFlight
<1> QED
    BY <1>2, <1>3, <1>4, <1>5, <1>6, ClaimKeeps, AcceptedKeeps, RateLimitedKeeps DEF SenderStep

LEMMA StepKeeps ==
    ASSUME InRange, NotifierInv, [Next]_notifierVars
    PROVE  NotifierInv'
<1>1. CASE \E p \in Senders, k \in Keys \cup {NoKey} : SendThrottled(p, k)
    BY <1>1, SendKeeps
<1>2. CASE \E p \in Senders : SenderStep(p) BY <1>2, SenderStepKeeps
<1>3. CASE Tick BY <1>3, TickKeeps
<1>4. CASE Exit
    <2>1. call' \in [Senders -> Call] /\ \A p \in Senders : call'[p] = NoCall
        BY <1>4, Defaults DEF Exit
    <2>2. CallsInOrder' BY <2>1 DEF CallsInOrder, InFlight, NoCall
    <2> QED BY <1>4, <2>1, <2>2, Cleared DEF Exit
<1>5. CASE phase' \in {"running", "draining", "exited"} /\ UNCHANGED <<sent, call, history>>
    BY <1>5 DEF history, NotifierInv, NotifierTypeOK, CallsInOrder, OwnersKnow, Owns, InFlight,
                SilenceIsEarned, AcceptedStaysSilent
<1>6. CASE UNCHANGED notifierVars
    BY <1>5, <1>6 DEF notifierVars, history, NotifierInv, NotifierTypeOK
<1> QED BY <1>1, <1>2, <1>3, <1>4, <1>5, <1>6 DEF Next, ProcessStep, Drain, Start

LEMMA InitHolds ==
    ASSUME NotifierInit
    PROVE  NotifierInv
<1> USE NotifierAssumption, Defaults
<1>1. NotifierTypeOK BY DEF NotifierInit, NotifierTypeOK, Table
<1>2. \A p \in Senders : call[p] = NoCall /\ ~InFlight(p)
    BY DEF NotifierInit, InFlight, NoCall
<1>3. CallsInOrder BY <1>2 DEF CallsInOrder, NoCall
<1>4. OwnersKnow BY <1>2 DEF OwnersKnow, Owns
<1>5. SilenceIsEarned BY DEF NotifierInit, SilenceIsEarned
<1>6. AcceptedStaysSilent BY DEF NotifierInit, AcceptedStaysSilent
<1> QED BY <1>1, <1>3, <1>4, <1>5, <1>6 DEF NotifierInv

\* The inductive invariant holds for any number of sinks, keys and senders, as
\* long as no sink asks for more seconds than a Duration can hold.
LEMMA ThrottleInvariant ==
    ASSUME InRange
    PROVE  Spec => []NotifierInv
<1>1. NotifierInit => NotifierInv BY InitHolds
<1>2. NotifierInv /\ [Next]_notifierVars => NotifierInv' BY StepKeeps
<1> QED BY <1>1, <1>2, PTL DEF Spec

\* The state of the throttle and of every call of SendThrottled keeps its form:
\* a claim being posted is never older than the timeouts allow.
THEOREM NotifierTypes ==
    ASSUME InRange
    PROVE  Spec => []NotifierTypeOK
<1>1. NotifierInv => NotifierTypeOK BY DEF NotifierInv
<1> QED BY <1>1, ThrottleInvariant, PTL

\* claim, deliver and release never leave a key silent whose message the sink
\* has not accepted, whatever number of senders overtake each other.
THEOREM SilenceEarned ==
    ASSUME InRange
    PROVE  Spec => []SilenceIsEarned
<1>1. NotifierInv => SilenceIsEarned BY DEF NotifierInv
<1> QED BY <1>1, ThrottleInvariant, PTL

\* An accepted message keeps its key silent for the whole interval, unless a
\* reset or the late release of an overtaken sender comes in between.
THEOREM AcceptedSilences ==
    ASSUME InRange
    PROVE  Spec => []AcceptedStaysSilent
<1>1. NotifierInv => AcceptedStaysSilent BY DEF NotifierInv
<1> QED BY <1>1, ThrottleInvariant, PTL
===============================================================================
