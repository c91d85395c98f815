----------------------------- MODULE MailRelay -----------------------------
(***************************************************************************)
(* The mail relay of one organisation (internal/mailrelay): connections    *)
(* sign in, hold a place in every rate window from MAIL on, and keep it    *)
(* when the upstream takes the message or give it back.  The places are    *)
(* counted in rings whose slots are used again as time goes on.  A tick of *)
(* the clock is a bucket.                                                  *)
(***************************************************************************)
EXTENDS Integers, FiniteSets, FiniteSetsExt

CONSTANTS
    Conn,         \* connections
    MailWindow,       \* the lengths of the rate windows, in buckets
    MaxClock,     \* how long is looked at
    MaxMail,      \* the largest limit of a window
    MaxSessions,  \* connections the organisation may have
    MailHappens

(* step back: the wall clock jumps back; overtaken: a message is counted   *)
(* at a moment that was read before another took the lock and was counted  *)
(* at a later one.                                                         *)
MailIncidents == {"step back", "overtaken"}

ASSUME MailAssumption ==
    /\ IsFiniteSet(Conn) /\ IsFiniteSet(MailWindow) /\ MailWindow \subseteq Nat \ {0}
    /\ MaxClock \in Nat /\ MaxMail \in Nat /\ MaxSessions \in Nat /\ MailHappens \subseteq MailIncidents

Never == -1
Clock == 0 .. MaxClock

VARIABLES
    clock,
    listed,     \* the configuration has the organisation
    rings,      \* window -> slot -> bucket
    sessions,   \* orgCounters.connections
    conn,       \* out, in, asking, mail, sending
    mailAsk,      \* of a connection that asks for a place: the moment and the limits it read
    place,      \* when the message of a connection was counted
    keptMail    \* how many messages were counted at a moment and sent

mailVars == <<clock, listed, rings, sessions, conn, mailAsk, place, keptMail>>

NotAsked == [at |-> 0, limits |-> [w \in MailWindow |-> 0]]

newRing(w) == [slot \in 0 .. w |-> [index |-> 0, count |-> 0]]

MailInit ==
    /\ clock = 0 /\ listed = TRUE
    /\ rings = [w \in MailWindow |-> newRing(w)]
    /\ sessions = 0 /\ conn = [c \in Conn |-> "out"] /\ place = [c \in Conn |-> Never]
    /\ mailAsk = [c \in Conn |-> NotAsked]
    /\ keptMail = [t \in Clock |-> 0]

-----------------------------------------------------------------------------
(* The rings.                                                              *)

Slot(w, index) == index % (w + 1)

Oldest(w, now) == now - w

RingCount(w, now) ==
    MapThenSumSet(LAMBDA s : rings[w][s].count,
                  {s \in 0 .. w : rings[w][s].index >= Oldest(w, now) /\ rings[w][s].index <= now})

Added(ring, w, now) ==
    LET s == Slot(w, now) IN
    [ring EXCEPT ![s] = IF ring[s].index = now THEN [@ EXCEPT !.count = @ + 1] ELSE [index |-> now, count |-> 1]]

(* A mutant: a message is taken out of whatever the slot now counts.       *)
AnyBucket(bucket, index) == bucket.count > 0

SameBucket(bucket, index) == bucket.index = index /\ bucket.count > 0

Removed(ring, w, index) ==
    LET s == Slot(w, index) IN
    IF SameBucket(ring[s], index) THEN [ring EXCEPT ![s].count = @ - 1] ELSE ring

(* release does nothing where nothing is held.                             *)
Released(index) ==
    IF index = Never THEN rings ELSE [w \in MailWindow |-> Removed(rings[w], w, index)]

HasRoom(c) == \A w \in MailWindow : RingCount(w, mailAsk[c].at) < mailAsk[c].limits[w]

-----------------------------------------------------------------------------
(* A connection.                                                           *)

signIn(c) ==
    /\ conn[c] = "out" /\ listed /\ sessions < MaxSessions
    /\ sessions' = sessions + 1 /\ conn' = [conn EXCEPT ![c] = "in"]
    /\ UNCHANGED <<clock, listed, rings, place, keptMail, mailAsk>>

(* The message before is given up first, and others may come in between; a *)
(* sender or a size that is not allowed ends it there.  Then the clock is  *)
(* read before the lock is taken, with the limits that the configuration   *)
(* has at the time, which may be others for every message.                 *)
Mail(c) ==
    /\ conn[c] \in {"in", "mail"} /\ listed
    /\ \/ /\ rings' = Released(place[c]) /\ place' = [place EXCEPT ![c] = Never] /\ conn' = [conn EXCEPT ![c] = "in"]
          /\ UNCHANGED mailAsk
       \/ /\ place[c] = Never /\ conn' = [conn EXCEPT ![c] = "asking"]
          /\ \E limits \in [MailWindow -> 0 .. MaxMail] : mailAsk' = [mailAsk EXCEPT ![c] = [at |-> clock, limits |-> limits]]
          /\ UNCHANGED <<rings, place>>
    /\ UNCHANGED <<clock, listed, sessions, keptMail>>

Overtaken(c) == \E w \in MailWindow : \E s \in 0 .. w : rings[w][s].index > mailAsk[c].at

(* Under the lock, at the moment that was read.                            *)
reserve(c) ==
    /\ conn[c] = "asking" /\ (Overtaken(c) => "overtaken" \in MailHappens)
    /\ IF HasRoom(c)
       THEN /\ rings' = [w \in MailWindow |-> Added(rings[w], w, mailAsk[c].at)]
            /\ place' = [place EXCEPT ![c] = mailAsk[c].at] /\ conn' = [conn EXCEPT ![c] = "mail"]
       ELSE conn' = [conn EXCEPT ![c] = "in"] /\ UNCHANGED <<rings, place>>
    /\ mailAsk' = [mailAsk EXCEPT ![c] = NotAsked] /\ UNCHANGED <<clock, listed, sessions, keptMail>>

(* Rcpt changes nothing that is counted.  The message goes to the upstream *)
(* while other connections and the clock go on.                            *)
Data(c) ==
    /\ conn[c] = "mail" /\ listed /\ conn' = [conn EXCEPT ![c] = "sending"]
    /\ UNCHANGED <<clock, listed, rings, sessions, place, keptMail, mailAsk>>

Keep(c) ==
    /\ conn[c] = "sending" /\ conn' = [conn EXCEPT ![c] = "in"]
    /\ place' = [place EXCEPT ![c] = Never] /\ keptMail' = [keptMail EXCEPT ![place[c]] = @ + 1]
    /\ UNCHANGED <<clock, listed, rings, sessions, mailAsk>>

Dropped(c) ==
    /\ conn' = [conn EXCEPT ![c] = "in"]
    /\ rings' = Released(place[c]) /\ place' = [place EXCEPT ![c] = Never]
    /\ UNCHANGED <<clock, listed, sessions, keptMail, mailAsk>>

(* It is over the size limit, cannot be read, or the upstream fails.       *)
SendFails(c) == conn[c] = "sending" /\ Dropped(c)

(* The client says RSET, or an organisation that is gone sends DATA.       *)
Reset(c) == conn[c] = "mail" /\ Dropped(c)

OneLess == sessions - 1

Logout(c) ==
    /\ conn[c] \in {"in", "mail"} /\ conn' = [conn EXCEPT ![c] = "out"]
    /\ rings' = Released(place[c]) /\ place' = [place EXCEPT ![c] = Never]
    /\ sessions' = OneLess
    /\ UNCHANGED <<clock, listed, keptMail, mailAsk>>

(* A new configuration has the organisation or not; what was counted is    *)
(* kept.                                                                   *)
SetConfig ==
    /\ listed' \in BOOLEAN
    /\ UNCHANGED <<clock, rings, sessions, conn, place, keptMail, mailAsk>>

Tick ==
    /\ clock' \in Clock /\ (clock' = clock + 1 \/ "step back" \in MailHappens)
    /\ UNCHANGED <<listed, rings, sessions, conn, place, keptMail, mailAsk>>

MailNext ==
    \/ \E c \in Conn : signIn(c) \/ Mail(c) \/ reserve(c) \/ Data(c) \/ Keep(c) \/ SendFails(c) \/ Reset(c) \/ Logout(c)
    \/ SetConfig \/ Tick

MailSpec == MailInit /\ [][MailNext]_mailVars

-----------------------------------------------------------------------------
(* What is said to be connected is connected, and no more than may be.     *)
MailTypeOK ==
    /\ clock \in Clock /\ listed \in BOOLEAN
    /\ conn \in [Conn -> {"out", "in", "asking", "mail", "sending"}] /\ place \in [Conn -> Clock \cup {Never}]
    /\ mailAsk \in [Conn -> [at : Clock, limits : [MailWindow -> 0 .. MaxMail]]]
    /\ \A c \in Conn : place[c] # Never <=> conn[c] \in {"mail", "sending"}
    /\ sessions = Cardinality({c \in Conn : conn[c] # "out"}) /\ sessions <= MaxSessions
    /\ keptMail \in [Clock -> 0 .. MaxMail * (MaxClock + 1)]

(* The messages counted at moment t that were sent or still may be.        *)
Counted(t) == keptMail[t] + Cardinality({c \in Conn : place[c] = t})

InWindow(w, now) == MapThenSumSet(Counted, {t \in Clock : t \in (now - w) .. now})

(* A ring counts every message of its window and none besides, however its *)
(* slots are used again and however late a message is given back: the      *)
(* reference is a plain sum over moments (ring.count, add, remove).        *)
RingsCountRight ==
    \A w \in MailWindow : RingCount(w, clock) = InWindow(w, clock)

(* "So no window of that length ever holds more messages than the limit"   *)
(* (limiter.go): a message takes a place only if every window that it      *)
(* falls into, ending when it is counted or since then, had room for it,   *)
(* whichever connections hold places at the time and however long this one *)
(* waited for the lock.                                                    *)
NoWindowOver ==
    \A c \in Conn : place[c] = Never /\ place'[c] # Never =>
        \A w \in MailWindow : \A now \in mailAsk[c].at .. clock : now - mailAsk[c].at <= w => InWindow(w, now) < mailAsk[c].limits[w]

(* Mail that connections send at the same time (Mail, reserve, ring):      *)
(* counted right in every window, and never over a limit.                  *)
MailSafe == [][mailVars' # mailVars => (MailTypeOK /\ RingsCountRight)' /\ NoWindowOver]_mailVars
=============================================================================
