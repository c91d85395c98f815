---------------------------- MODULE SsoSessions ----------------------------
(***************************************************************************)
(* The sessions of one person who signs in through the identity provider,  *)
(* and the pass that asks the provider again about them (internal/         *)
(* dashboard/auth_sso.go and sso_refresh.go).  A session carries what the  *)
(* provider said when it was made; the refresh entry, one for the person,  *)
(* keeps a digest of it.  What the provider says is a number, 0 when it no *)
(* longer lets the person in.                                              *)
(***************************************************************************)
EXTENDS Naturals, FiniteSets

CONSTANTS
    Browser,     \* where the person may be signed in
    MaxSaying,   \* the provider's answers are 1 .. MaxSaying
    SsoHappens

(* second: a sign-in while another session of the person is open; overlap: *)
(* a sign-in is remembered while a pass is at work; unwritten: the write   *)
(* that ends the sessions fails; unkept: a sign-in leaves no entry (the    *)
(* provider gave no token, or the write failed); unreadable: a kept token  *)
(* cannot be opened any more; untold: an answer says nothing of the person.*)
SsoIncidents == {"second", "overlap", "unwritten", "unkept", "unreadable", "untold"}

ASSUME SsoAssumption ==
    IsFiniteSet(Browser) /\ MaxSaying \in Nat \ {0} /\ SsoHappens \subseteq SsoIncidents

Saying == 0 .. MaxSaying

VARIABLES
    says,      \* what the provider says of the person now
    signing,   \* sign-ins under way: idle, exchanged, issued
    got,       \* what the exchange of the code gave
    session,   \* what each open session was made with, 0 is none
    entry,     \* the digest in the refresh Secret, 0 is no entry
    late,      \* StaleGrace has passed since the last answer
    refresh,   \* the pass: idle, ask, write, forget, revoke, drop
    record,    \* the entry as the pass read it
    logout     \* a back-channel logout: idle, revoke

signIns == <<signing, got>>
ssoVars == <<says, signIns, session, entry, late, refresh, record, logout>>

SsoInit ==
    /\ says = 1 /\ signing = [b \in Browser |-> "idle"] /\ got = [b \in Browser |-> 0]
    /\ session = [b \in Browser |-> 0] /\ entry = 0 /\ late = FALSE
    /\ refresh = "idle" /\ record = 0 /\ logout = "idle"

ProviderChanges ==
    /\ says' \in Saying \ {says}
    /\ UNCHANGED <<signIns, session, entry, late, refresh, record, logout>>

CookieEnds(b) ==
    /\ session[b] # 0 /\ session' = [session EXCEPT ![b] = 0]
    /\ UNCHANGED <<says, signIns, entry, late, refresh, record, logout>>

GraceEnds ==
    /\ entry # 0 /\ ~late /\ late' = TRUE
    /\ UNCHANGED <<says, signIns, session, entry, refresh, record, logout>>

-----------------------------------------------------------------------------
(* A sign-in: the code is exchanged, the cookie made, the entry written.   *)

handleOIDCCallback(b) ==
    /\ signing[b] = "idle" /\ says # 0
    /\ (\E c \in Browser : session[c] # 0 \/ signing[c] # "idle") => "second" \in SsoHappens
    /\ signing' = [signing EXCEPT ![b] = "exchanged"] /\ got' = [got EXCEPT ![b] = says]
    /\ UNCHANGED <<says, session, entry, late, refresh, record, logout>>

finishSSO(b) ==
    /\ signing[b] = "exchanged" /\ signing' = [signing EXCEPT ![b] = "issued"]
    /\ session' = [session EXCEPT ![b] = got[b]]
    /\ UNCHANGED <<says, got, entry, late, refresh, record, logout>>

rememberRefresh(b) ==
    /\ signing[b] = "issued"
    /\ refresh # "idle" => "overlap" \in SsoHappens
    /\ signing' = [signing EXCEPT ![b] = "idle"] /\ got' = [got EXCEPT ![b] = 0]
    /\ \/ entry' = got[b] /\ late' = FALSE
       \/ "unkept" \in SsoHappens /\ UNCHANGED <<entry, late>>
    /\ UNCHANGED <<says, session, refresh, record, logout>>

-----------------------------------------------------------------------------
(* The pass.  An entry whose session has expired is dropped; the sessions  *)
(* of a person whose organization no longer uses its provider are ended.   *)

refreshSessionsOnce ==
    /\ refresh = "idle" /\ entry # 0
    /\ \/ refresh' \in {"ask", "forget"} /\ record' = entry /\ UNCHANGED entry
       \/ (\A b \in Browser : session[b] = 0 /\ signing[b] = "idle") /\ entry' = 0 /\ UNCHANGED <<refresh, record>>
    /\ UNCHANGED <<says, signIns, session, late, logout>>

(* A mutant: a person is the same by name alone.                           *)
SameByName == TRUE

SameDigest == says = record

refreshOne ==
    /\ refresh = "ask"
    /\ \/ refresh' = IF says # 0 /\ SameDigest THEN "write" ELSE "forget"
       \/ says # 0 /\ "untold" \in SsoHappens /\ refresh' = "write"
       \/ "unreadable" \in SsoHappens /\ refresh' = "drop"
    /\ UNCHANGED <<says, signIns, session, entry, late, record, logout>>

Stops == refresh' = "idle" /\ record' = 0

(* The provider is out of reach, or not even its settings could be read.   *)
NoAnswer ==
    /\ refresh = "ask"
    /\ (late /\ refresh' = "forget" /\ UNCHANGED record) \/ Stops
    /\ UNCHANGED <<says, signIns, session, entry, late, logout>>

(* A mutant: the entry is written whatever became of it.                   *)
OverEntry == record

KeptEntry == IF entry # 0 THEN record ELSE 0

keepsAnswer ==
    /\ refresh = "write" /\ Stops
    /\ entry' = KeptEntry /\ late' = FALSE
    /\ UNCHANGED <<says, signIns, session, logout>>

(* The entry goes, or the write fails, which nobody is told.               *)
Forgets == (entry' = 0 /\ late' = FALSE) \/ UNCHANGED <<entry, late>>

(* revokeSSOIdentity: the entry is forgotten before the sessions are ended *)
(* by the moment that is written, which only sessions after it survive.    *)
forgetRefresh ==
    /\ refresh = "forget" /\ refresh' = "revoke" /\ Forgets
    /\ UNCHANGED <<says, signIns, session, record, logout>>

revokeSSOIdentity ==
    /\ refresh = "revoke" /\ refresh' = "drop"
    /\ session' = [b \in Browser |-> 0]
    /\ UNCHANGED <<says, signIns, entry, late, record, logout>>

dropRefreshEntry ==
    /\ refresh = "drop" /\ Stops /\ Forgets
    /\ UNCHANGED <<says, signIns, session, logout>>

(* The dashboard restarts, or a write fails.                               *)
PassLost ==
    /\ refresh # "idle" /\ (refresh = "revoke" => "unwritten" \in SsoHappens)
    /\ Stops
    /\ UNCHANGED <<says, signIns, session, entry, late, logout>>

(* The provider signs the person out, and a sign-out in the dashboard: the *)
(* same two writes.  A logout that fails is sent again.                    *)
handleOIDCBackchannelLogout ==
    /\ \/ logout = "idle" /\ logout' = "revoke" /\ Forgets /\ UNCHANGED session
       \/ logout = "revoke" /\ logout' = "idle" /\ session' = [b \in Browser |-> 0] /\ UNCHANGED <<entry, late>>
    /\ UNCHANGED <<says, signIns, refresh, record>>

SsoSign(b) == finishSSO(b) \/ rememberRefresh(b)
SsoPass == \/ refreshSessionsOnce \/ refreshOne \/ keepsAnswer \/ forgetRefresh \/ revokeSSOIdentity \/ dropRefreshEntry

SsoNext ==
    \/ ProviderChanges \/ GraceEnds \/ \E b \in Browser : CookieEnds(b) \/ handleOIDCCallback(b) \/ SsoSign(b)
    \/ SsoPass \/ NoAnswer \/ PassLost \/ handleOIDCBackchannelLogout

SsoSpec == SsoInit /\ [][SsoNext]_ssoVars

(* A ticker starts the passes; restarts and silences of the provider end.  *)
SsoFair ==
    /\ WF_ssoVars(SsoPass) /\ \A b \in Browser : SF_ssoVars(SsoSign(b))
    /\ WF_ssoVars(handleOIDCBackchannelLogout /\ logout = "revoke")
    /\ <>[][(PassLost \/ NoAnswer) => SsoPass]_ssoVars

SsoFairSpec == SsoSpec /\ SsoFair

-----------------------------------------------------------------------------
SsoTypeOK ==
    /\ says \in Saying /\ signing \in [Browser -> {"idle", "exchanged", "issued"}]
    /\ got \in [Browser -> Saying] /\ session \in [Browser -> Saying]
    /\ entry \in Saying /\ late \in BOOLEAN /\ record \in Saying /\ logout \in {"idle", "revoke"}
    /\ refresh \in {"idle", "ask", "write", "forget", "revoke", "drop"}
    /\ refresh = "idle" <=> record = 0

(* What is forgotten stays forgotten: a pass that read the entry before    *)
(* the person signed out does not put it back (refreshOne's last write).   *)
SignedOutStaysForgotten ==
    entry = 0 /\ entry' # 0 => \E b \in Browser : rememberRefresh(b)

(* A refresh (refreshOne) that goes on while the person signs in and out   *)
(* does not bring back an entry that was forgotten meanwhile.  (One that a *)
(* newer sign-in wrote meanwhile it does write over.)                      *)
SsoSafe == [][ssoVars' # ssoVars => SsoTypeOK' /\ SignedOutStaysForgotten]_ssoVars

(* A session that is not what the provider says of the person any more is  *)
(* ended ("or what it says of them is not what the session was made with   *)
(* ..., their sessions are ended", sso_refresh.go:31).                     *)
StaleSessionEnds ==
    SsoFair => \A b \in Browser : \A r \in Saying \ {0} :
        (session[b] = r /\ says # r) ~> (session[b] # r \/ says = r)
=============================================================================
