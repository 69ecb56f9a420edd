--------------------------------- MODULE Access ---------------------------------
(***************************************************************************)
(* Which devices the host trusts: one-time pairing codes in a file, and    *)
(* sessions in the store that are renewed on use (control/api.py,          *)
(* control/store.py).  Each action is one transaction, one file operation  *)
(* or one reading; requests of the devices interleave between them.        *)
(*                                                                         *)
(* Time passes in units long beside a request.  Abstracted: CSRF tokens,   *)
(* origins, the limit on failed pairings, and labels of devices.           *)
(***************************************************************************)
EXTENDS Integers, FiniteSets

CONSTANTS
  Devices,       \* pairings: a device that pairs again is another one, with a cookie of its own
  Codes,
  Issuers,       \* processes and threads that mint codes: the host's command, the API
  Slots,         \* requests served at the same time
  CodeLife,      \* PAIRING_CODE_SECONDS
  SessionLife, RenewAfter, MaxSession, Away,   \* SESSION_, RENEW_AFTER_, MAX_SESSION_, AWAY_SECONDS
  MaxClock,      \* bound: time
  Off

VARIABLES
  clock,
  pairing, tmp,    \* pairing.json and pairing.json.tmp: code -> when it expires, <<>> for no file
  issuer,          \* issuer -> the codes it read, and where it is
  used,            \* meta: codes that paired a device
  sessions,        \* device -> its row
  cookie,          \* device -> when its cookie expires, 0 when it has none
  request,         \* slot -> the request it serves
  pairs, gone, looked  \* history: <<code, device>> pairings; devices signed out; when the owner last looked

\* The periods are periods.
AccessAssumption ==
  /\ SessionLife \in Nat /\ RenewAfter \in Nat /\ MaxSession \in Nat \ {0} /\ Away \in Nat \ {0}

acvars == <<clock, pairing, tmp, issuer, used, sessions, cookie, request, pairs, gone, looked>>

NoRow == [created |-> 0, expires |-> 0, last |-> 0, away |-> 0]
NoRequest == [device |-> Off, kind |-> "none", auth |-> NoRow, read |-> NoRow, step |-> "idle"]

\* Time 0 is before everything, so that 0 can stand for SQL's NULL.
AccessInit ==
  /\ clock = 1
  /\ pairing = <<>> /\ tmp = <<>>
  /\ issuer = [i \in Issuers |-> [step |-> "idle", codes |-> <<>>]]
  /\ used = {} /\ pairs = {} /\ gone = {} /\ looked = [d \in Devices |-> 0]
  /\ sessions = [d \in Devices |-> NoRow]
  /\ cookie = [d \in Devices |-> 0]
  /\ request = [s \in Slots |-> NoRequest]

-------------------------------------------------------------------------------
(* issue_pairing_code() *)

Outstanding(file) == {c \in DOMAIN file : file[c] > clock}
Handed == DOMAIN pairing \cup UNION {DOMAIN issuer[i].codes : i \in Issuers}
          \cup {p[1] : p \in pairs} \cup DOMAIN tmp

ReadCodes(i) ==
  /\ issuer[i].step = "idle"
  /\ \E c \in Codes \ Handed :
       issuer' = [issuer EXCEPT ![i] = [step |-> "read", codes |->
                    [k \in Outstanding(pairing) \cup {c} |->
                       IF k = c THEN clock + CodeLife ELSE pairing[k]]]]
  /\ UNCHANGED <<clock, pairing, tmp, used, sessions, cookie, request, pairs, gone, looked>>

WriteCodes(i) ==
  /\ issuer[i].step = "read"
  /\ tmp' = issuer[i].codes
  /\ issuer' = [issuer EXCEPT ![i].step = "written"]
  /\ UNCHANGED <<clock, pairing, used, sessions, cookie, request, pairs, gone, looked>>

\* The rename takes whatever the file holds; it fails when another issuer has renamed it.
ReplaceCodes(i) ==
  /\ issuer[i].step = "written"
  /\ IF tmp = <<>> THEN UNCHANGED <<pairing, tmp>> ELSE pairing' = tmp /\ tmp' = <<>>
  /\ issuer' = [issuer EXCEPT ![i] = [step |-> "idle", codes |-> <<>>]]
  /\ UNCHANGED <<clock, used, sessions, cookie, request, pairs, gone, looked>>

-------------------------------------------------------------------------------
\* pair(): one transaction.
Pair(d, c) ==
  /\ c \in Outstanding(pairing) \ used
  /\ \A p \in pairs : p[2] # d
  /\ sessions' = [sessions EXCEPT ![d] =
       [created |-> clock, expires |-> clock + SessionLife, last |-> clock, away |-> 0]]
  /\ used' = used \cup {c}
  /\ pairs' = pairs \cup {<<c, d>>}
  /\ cookie' = [cookie EXCEPT ![d] = clock + SessionLife]
  /\ UNCHANGED <<clock, pairing, tmp, issuer, request, gone, looked>>

\* session(): the row of a cookie that has not expired.
LiveRow(d) == IF sessions[d].expires > clock THEN sessions[d] ELSE NoRow

\* security(): a request with a session goes on to its handler.
Arrive(s, d, kind) ==
  /\ request[s] = NoRequest
  /\ cookie[d] > clock /\ LiveRow(d) # NoRow
  /\ request' = [request EXCEPT ![s] =
       [device |-> d, kind |-> kind, auth |-> LiveRow(d), read |-> NoRow, step |-> "handler"]]
  /\ UNCHANGED <<clock, pairing, tmp, issuer, used, sessions, cookie, pairs, gone, looked>>

At(s, kind, step) == request[s].kind = kind /\ request[s].step = step
GoesOn(s, step) == request' = [request EXCEPT ![s].step = step]
Served(s) == request' = [request EXCEPT ![s] = NoRequest]
Of(s) == request[s].device

\* Any other request that is not about sessions.
Poll(s) ==
  /\ At(s, "poll", "handler")
  /\ GoesOn(s, "touch")
  /\ UNCHANGED <<clock, pairing, tmp, issuer, used, sessions, cookie, pairs, gone, looked>>

\* get_session(): it reads the row, and writes an absence it finds in a transaction of its own.
ReadSession(s) ==
  LET row == LiveRow(Of(s)) IN
  /\ At(s, "session", "handler")
  /\ IF row = NoRow THEN Served(s)
     ELSE request' = [request EXCEPT ![s].read = row, ![s].step =
                        IF clock - row.last >= Away THEN "absent" ELSE "touch"]
  /\ UNCHANGED <<clock, pairing, tmp, issuer, used, sessions, cookie, pairs, gone, looked>>

\* Mutant: the newest absence is what is shown.
SinceNow(row) == row.last
Since(row) == IF row.away # 0 /\ row.away < row.last THEN row.away ELSE row.last

WriteAbsence(s) ==
  LET d == Of(s) IN
  /\ At(s, "session", "absent")
  /\ sessions' = IF sessions[d] = NoRow THEN sessions
                 ELSE [sessions EXCEPT ![d].away = Since(request[s].read)]
  /\ GoesOn(s, "touch")
  /\ UNCHANGED <<clock, pairing, tmp, issuer, used, cookie, pairs, gone, looked>>

\* session_seen()
Seen(s) ==
  LET d == Of(s) IN
  /\ At(s, "seen", "handler")
  /\ IF LiveRow(d) = NoRow THEN Served(s) /\ UNCHANGED <<sessions, looked>>
     ELSE /\ sessions' = [sessions EXCEPT ![d].away = 0]
          /\ looked' = [looked EXCEPT ![d] = clock]
          /\ GoesOn(s, "touch")
  /\ UNCHANGED <<clock, pairing, tmp, issuer, used, cookie, pairs, gone>>

SignedOut(out) ==
  /\ sessions' = [d \in Devices |-> IF d \in out THEN NoRow ELSE sessions[d]]
  /\ gone' = gone \cup {d \in out : sessions[d] # NoRow}

\* revoke_device()
Revoke(s) ==
  /\ At(s, "revoke", "handler")
  /\ \E d \in Devices : SignedOut({d})
  /\ GoesOn(s, "touch")
  /\ UNCHANGED <<clock, pairing, tmp, issuer, used, cookie, pairs, looked>>

\* logout()
Logout(s) ==
  /\ At(s, "logout", "handler")
  /\ IF LiveRow(Of(s)) = NoRow THEN UNCHANGED <<sessions, gone, cookie>>
     ELSE SignedOut({Of(s)}) /\ cookie' = [cookie EXCEPT ![Of(s)] = 0]
  /\ Served(s)
  /\ UNCHANGED <<clock, pairing, tmp, issuer, used, pairs, looked>>

\* The host's command revoke-sessions.
RevokeAll ==
  /\ SignedOut(Devices)
  /\ UNCHANGED <<clock, pairing, tmp, issuer, used, cookie, request, pairs, looked>>

Renews(auth) == auth.expires - clock < SessionLife - RenewAfter /\ clock - auth.created < MaxSession

\* Mutants: the row is written back as the request found it; a slow request shortens the session.
WrittenBack(d, auth, renew) ==
  IF renew THEN [auth EXCEPT !.last = clock, !.expires = clock + SessionLife]
  ELSE [auth EXCEPT !.last = clock]
TouchedOnly(d, auth, renew) ==
  IF sessions[d] = NoRow THEN NoRow ELSE [sessions[d] EXCEPT !.last = clock]
Touched(d, auth, renew) ==
  IF sessions[d] = NoRow THEN NoRow
  ELSE [sessions[d] EXCEPT !.last = clock,
          !.expires = IF renew /\ @ < clock + SessionLife THEN clock + SessionLife ELSE @]

\* touch(), after the response is made: activity is recorded and the session renewed, in a
\* transaction that may fail; with the session the response renews the cookie, if it arrives.
Touch(s) ==
  LET d == Of(s)
      auth == request[s].auth
      renew == Renews(auth) IN
  /\ request[s].step = "touch"
  /\ \/ UNCHANGED <<sessions, cookie>>
     \/ /\ renew \/ auth.last < clock
        /\ sessions' = [sessions EXCEPT ![d] = Touched(d, auth, renew)]
        /\ \/ UNCHANGED cookie
           \/ renew /\ cookie' = [cookie EXCEPT ![d] = clock + SessionLife]
  /\ Served(s)
  /\ UNCHANGED <<clock, pairing, tmp, issuer, used, pairs, gone, looked>>

\* A request is over long before the next unit of time.
Tick ==
  /\ clock < MaxClock
  /\ \A s \in Slots : request[s] = NoRequest
  /\ clock' = clock + 1
  /\ UNCHANGED <<pairing, tmp, issuer, used, sessions, cookie, request, pairs, gone, looked>>

AccessNext ==
  \/ \E i \in Issuers : ReadCodes(i) \/ WriteCodes(i) \/ ReplaceCodes(i)
  \/ \E d \in Devices, c \in Codes : Pair(d, c)
  \/ \E s \in Slots, d \in Devices, kind \in {"poll", "session", "seen", "revoke", "logout"} :
       Arrive(s, d, kind)
  \/ \E s \in Slots : \/ Poll(s) \/ ReadSession(s) \/ WriteAbsence(s) \/ Seen(s)
                      \/ Revoke(s) \/ Logout(s) \/ Touch(s)
  \/ RevokeAll \/ Tick

AccessSpec == AccessInit /\ [][AccessNext]_acvars

-------------------------------------------------------------------------------
\* A code pairs one device, whatever the file says of it later; a device signed out has no row
\* again, with requests of its own still being served; the row of one in use does not lapse while
\* it may be renewed (its cookie may: a renewal's response can be lost), nor long after; an absence
\* the owner has not looked at only grows longer, if it is written at all.
Trusted ==
  /\ \A p, q \in pairs : p[1] = q[1] => p = q
  /\ \A d \in gone : sessions[d] = NoRow
  /\ \A d \in Devices : LET row == sessions[d] IN row # NoRow =>
       /\ row.expires < row.created + MaxSession + SessionLife
       /\ row.last - row.created < MaxSession => row.expires >= row.last + SessionLife - RenewAfter
AbsencesGrow ==
  \A d \in Devices :
    0 \notin {sessions[d].away, sessions'[d].away} /\ looked[d] < clock
      => sessions'[d].away <= sessions[d].away
DevicesAreKept == []Trusted /\ [][AbsencesGrow]_acvars
===============================================================================
