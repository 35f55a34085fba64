-------------------------- MODULE HttpServerProofs --------------------------
(***************************************************************************)
(* Theorems about HttpServer, for every set of connections, every scenario *)
(* and every bound: the GeoIP database that is read, the counters of       *)
(* requests, the sessions that were logged out, and the limit on requests. *)
(***************************************************************************)
EXTENDS HttpServer, FiniteSetTheorems, WellFoundedInduction, TLAPS

Callers == (UNION {p.callers : p \in Plans}) \cup {None}
Kinds   == (UNION {p.kinds : p \in Plans}) \cup {"none"}

Places  == {"none", "limit", "geo", "lookup", "begin", "bucket", "handler", "sum", "refresh", "delete"}

Request == [pc : Places, caller : Callers, kind : Kinds, cookie : Nat, reader : Nat, at : Int]

\* The types that the proof needs, and no request shows a cookie that was not made.
ReqTypes ==
  /\ plan \in Plans /\ now \in Int
  /\ req \in [Conns -> Request]
  /\ ids \in Nat /\ \A r \in Conns : req[r].cookie \in 0..ids

GeoTypes ==
  /\ disk \in Nat /\ loads \in Nat /\ versions \in Nat
  /\ reader \in [id : Nat, version : Nat]
  /\ upd \in [Updaters -> [pc : {"idle", "download", "load"}, version : Nat]]
  /\ command \in Nat

StatTypes ==
  /\ total \in Int /\ finished \in Int /\ panics \in Int /\ active \in Int /\ gauge \in Int
  /\ starts \in Seq(Int)

\* Between a download and the reload that follows it the file may be newer, and
\* once a command has replaced it.
GeoInv ==
  /\ (~unseen /\ \A u \in Updaters : upd[u].pc # "load") => reader.version = disk
  /\ open = {reader.id} \ {0}

\* Every session has a number of its own, and none of those to come.
SessionInv ==
  /\ DOMAIN sessions \subseteq 1..ids
  /\ gone \subseteq 0..ids
  /\ LogoutSticks

\* The inductive invariant, by the variables that each part is about.
GeoPart     == GeoTypes /\ GeoInv
StatPart    == StatTypes /\ CountsHold
IInv        == ReqTypes /\ GeoPart /\ SessionInv /\ StatPart

LEMMA Parts == IInv => Fresh /\ CountsHold /\ LogoutSticks
BY DEF IInv, GeoTypes, GeoPart, StatPart, GeoInv, SessionInv, Fresh

LEMMA NoRequestType == NoRequest \in Request /\ NoRequest.cookie = 0 /\ NoRequest.pc = "none"
<1>1. None \in Callers BY DEF Callers
<1>2. "none" \in Kinds BY DEF Kinds
<1> QED BY <1>1, <1>2 DEF NoRequest, Request, Places

LEMMA InitIInv == Init => IInv
<1> SUFFICES ASSUME Init PROVE IInv OBVIOUS
<1> USE DEF Init, RequestsInit, LimiterInit, GeoInit, StatsInit, SessionsInit
<1>1. \A r \in Conns : req[r] = NoRequest OBVIOUS
<1>2. NoRequest \in Request /\ NoRequest.cookie = 0 /\ NoRequest.pc = "none"
  BY NoRequestType
<1>3. ReqTypes /\ GeoTypes /\ StatTypes
  <2>1. req \in [Conns -> Request] BY <1>2
  <2>2. upd \in [Updaters -> [pc : {"idle", "download", "load"}, version : Nat]] BY DEF Waiting
  <2>3. reader \in [id : Nat, version : Nat] BY DEF NoReader
  <2>4. starts \in Seq(Int) OBVIOUS
  <2> QED BY <1>1, <1>2, <2>1, <2>2, <2>3, <2>4 DEF ReqTypes, GeoTypes, StatTypes
<1>4. GeoInv BY DEF GeoInv, NoReader
<1>5. SessionInv BY DEF SessionInv, LogoutSticks, NoSessions
<1>6. InHandler = {} /\ InBegin = {} BY <1>1, <1>2 DEF InHandler, InBegin, At
<1>7. CountsHold BY <1>6, FS_EmptySet DEF CountsHold
<1> QED BY <1>3, <1>4, <1>5, <1>7 DEF IInv, GeoPart, StatPart

-----------------------------------------------------------------------------
\* A step of one request, which comes to the place pc.
Moves(r, pc) ==
  /\ req' \in [Conns -> Request]
  /\ req'[r].pc = pc /\ req'[r].cookie \in 0..ids
  /\ \A s \in Conns \ {r} : req'[s] = req[s]

LEMMA GoMoves == ASSUME ReqTypes, NEW r \in Conns, NEW pc \in Places, Go(r, pc)
                 PROVE  Moves(r, pc)
BY DEF ReqTypes, Go, Moves, Request

LEMMA AnswerMoves == ASSUME ReqTypes, NEW r \in Conns, Answer(r)
                     PROVE  Moves(r, "none")
BY NoRequestType DEF ReqTypes, Answer, Moves

LEMMA MovesKeepsTypes ==
  ASSUME ReqTypes, NEW r \in Conns, NEW pc, Moves(r, pc), UNCHANGED <<plan, now>>, ids' \in Nat, ids' >= ids
  PROVE  ReqTypes'
BY DEF ReqTypes, Moves

LEMMA GeoSame == ASSUME GeoPart, UNCHANGED geoVars PROVE GeoPart'
BY DEF GeoPart, GeoTypes, GeoInv, geoVars

LEMMA SessionsSame == ASSUME SessionInv, UNCHANGED sessionVars PROVE SessionInv'
BY DEF SessionInv, LogoutSticks, sessionVars

HandlerPlaces == {"handler", "sum", "refresh", "delete"}

LEMMA StatsSame ==
  ASSUME StatPart, NEW r \in Conns, NEW pc, Moves(r, pc), UNCHANGED statsVars,
         req[r].pc \in HandlerPlaces <=> pc \in HandlerPlaces,
         req[r].pc = "bucket" <=> pc = "bucket"
  PROVE  StatPart'
<1>1. InHandler' = InHandler BY DEF InHandler, HandlerPlaces, Moves
<1>2. InBegin' = InBegin BY DEF InBegin, At, Moves
<1> QED BY <1>1, <1>2 DEF StatPart, StatTypes, CountsHold, statsVars

LEMMA Finiteness == /\ IsFiniteSet(InHandler) /\ Cardinality(InHandler) \in Nat
                    /\ IsFiniteSet(InBegin) /\ Cardinality(InBegin) \in Nat
<1>1. InHandler \subseteq Conns /\ InBegin \subseteq Conns BY DEF InHandler, InBegin
<1>2. IsFiniteSet(InHandler) /\ IsFiniteSet(InBegin) BY <1>1, FS_Subset, RequestsAssumption DEF RequestsAssumption
<1> QED BY <1>2, FS_CardinalityType

\* The request that arrives.
New(q, pc, c, k, id) == [q EXCEPT !.pc = pc, !.caller = c, !.kind = k, !.cookie = id]

LEMMA NewRequestType ==
  ASSUME NEW q \in Request, NEW pc \in Places, NEW c \in Callers, NEW k \in Kinds, NEW id \in Nat
  PROVE  New(q, pc, c, k, id) \in Request /\ New(q, pc, c, k, id).pc = pc /\ New(q, pc, c, k, id).cookie = id
BY DEF Request, New

LEMMA ArriveStep == ASSUME IInv, NEW r \in Conns, NewRequest(r), UNCHANGED plan PROVE IInv'
<1>1. PICK c \in plan.callers, k \in plan.kinds, id \in 0..ids :
        req' = [req EXCEPT ![r] = New(NoRequest, Outermost, c, k, id)]
  BY DEF NewRequest, Arrive, New
<1>2. Outermost \in {"limit", "geo", "begin"} BY DEF Outermost
<1>3. c \in Callers /\ k \in Kinds /\ id \in Nat BY DEF Callers, Kinds, IInv, ReqTypes
<1> DEFINE new == New(NoRequest, Outermost, c, k, id)
<1>4. new \in Request /\ new.pc = Outermost /\ new.cookie = id
  <2>1. Outermost \in Places BY <1>2 DEF Places
  <2> QED BY <1>3, <2>1, NoRequestType, NewRequestType
<1>5. req' = [req EXCEPT ![r] = new] BY <1>1
<1> HIDE DEF new
<1>6. Moves(r, Outermost) BY <1>4, <1>5 DEF Moves, IInv, ReqTypes
<1>7. req[r].pc = "none" /\ UNCHANGED <<plan, now, geoVars, statsVars, sessionVars>>
  BY DEF NewRequest, Arrive, At
<1>8. ids' \in Nat /\ ids' >= ids BY <1>7 DEF sessionVars, IInv, ReqTypes
<1>9. ReqTypes' BY <1>6, <1>7, <1>8, MovesKeepsTypes DEF IInv
<1>10. StatPart' BY <1>2, <1>6, <1>7, StatsSame DEF IInv, HandlerPlaces
<1> QED BY <1>7, <1>9, <1>10, GeoSame, SessionsSame DEF IInv

LEMMA BehindGeoMoves == ASSUME ReqTypes, NEW r \in Conns, BehindGeo(r)
                        PROVE  \E pc \in {"none", "begin"} : Moves(r, pc)
BY AnswerMoves, GoMoves DEF BehindGeo, Places

LEMMA BehindLimitMoves == ASSUME ReqTypes, NEW r \in Conns, BehindLimit(r)
                          PROVE  \E pc \in {"none", "geo", "begin"} : Moves(r, pc)
<1>1. CASE plan.geo BY <1>1, GoMoves DEF BehindLimit, Places
<1>2. CASE ~plan.geo BY <1>2, BehindGeoMoves DEF BehindLimit
<1> QED BY <1>1, <1>2

\* A step of a request before the statistics.
LEMMA OuterStep ==
  ASSUME IInv, NEW r \in Conns, req[r].pc \in {"limit", "geo", "lookup"},
         \E pc \in {"none", "geo", "lookup", "begin"} : Moves(r, pc),
         UNCHANGED <<plan, now, geoVars, statsVars, sessionVars>>
  PROVE  IInv'
<1>1. PICK pc \in {"none", "geo", "lookup", "begin"} : Moves(r, pc) OBVIOUS
<1>2. ids' \in Nat /\ ids' >= ids BY DEF sessionVars, IInv, ReqTypes
<1>3. ReqTypes' BY <1>1, <1>2, MovesKeepsTypes DEF IInv
<1>4. StatPart' BY <1>1, StatsSame DEF IInv, HandlerPlaces
<1> QED BY <1>3, <1>4, GeoSame, SessionsSame DEF IInv

LEMMA LimitingStep == ASSUME IInv, NEW r \in Conns, Limiting(r), UNCHANGED plan PROVE IInv'
<1>1. req[r].pc = "limit" /\ (BehindLimit(r) \/ Answer(r)) BY DEF Limiting, Allow, At
<1>2. \E pc \in {"none", "geo", "begin"} : Moves(r, pc)
  BY <1>1, BehindLimitMoves, AnswerMoves DEF IInv
<1>3. UNCHANGED <<plan, now, geoVars, statsVars, sessionVars>> BY DEF Limiting
<1> QED BY <1>1, <1>2, <1>3, OuterStep

LEMMA LocatingStep == ASSUME IInv, NEW r \in Conns, Locating(r), UNCHANGED plan PROVE IInv'
<1>1. UNCHANGED <<plan, now, geoVars, statsVars, sessionVars>>
  BY DEF Locating, TakeReader, Lookup
<1>2. req[r].pc \in {"geo", "lookup"} BY DEF Locating, TakeReader, Lookup, At
<1>3. \/ BehindGeo(r) \/ Answer(r)
      \/ req' = [req EXCEPT ![r].pc = "lookup", ![r].reader = reader.id]
  BY DEF Locating, TakeReader, Lookup
<1>4. CASE BehindGeo(r) BY <1>1, <1>2, <1>4, BehindGeoMoves, OuterStep DEF IInv
<1>5. CASE Answer(r) BY <1>1, <1>2, <1>5, AnswerMoves, OuterStep DEF IInv
<1>6. CASE req' = [req EXCEPT ![r].pc = "lookup", ![r].reader = reader.id]
  <2>1. reader.id \in Nat BY DEF IInv, GeoPart, GeoTypes
  <2>2. Moves(r, "lookup") BY <1>6, <2>1 DEF Moves, IInv, ReqTypes, Request, Places
  <2> QED BY <1>1, <1>2, <2>2, OuterStep
<1> QED BY <1>3, <1>4, <1>5, <1>6

-----------------------------------------------------------------------------
\* The arithmetic of the steps that count.
LEMMA Counted ==
  ASSUME StatPart, StatTypes',
         \/ /\ total' = total + 1 /\ active' = active + 1
            /\ gauge' = gauge /\ finished' = finished /\ panics' = panics /\ starts' = starts
            /\ Cardinality(InHandler') = Cardinality(InHandler)
            /\ Cardinality(InBegin') = Cardinality(InBegin) + 1
         \/ /\ gauge' = gauge + 1 /\ Len(starts') = Len(starts) + 1
            /\ total' = total /\ active' = active /\ finished' = finished /\ panics' = panics
            /\ Cardinality(InHandler') = Cardinality(InHandler) + 1
            /\ Cardinality(InBegin') = Cardinality(InBegin) - 1
         \/ /\ active' = active - 1 /\ gauge' = gauge - 1 /\ total' = total /\ starts' = starts
            /\ \/ finished' = finished + 1 /\ panics' = panics
               \/ finished' = finished /\ panics' = panics + 1
            /\ Cardinality(InHandler') = Cardinality(InHandler) - 1
            /\ Cardinality(InBegin') = Cardinality(InBegin)
  PROVE  StatPart'
<1> DEFINE h == Cardinality(InHandler)
           b == Cardinality(InBegin)
           h1 == Cardinality(InHandler')
           b1 == Cardinality(InBegin')
           n == Len(starts)
           n1 == Len(starts')
<1>1. h \in Nat /\ b \in Nat BY Finiteness
<1>2. n \in Nat /\ n1 \in Nat BY DEF StatPart, StatTypes
<1>3. active = h + b /\ gauge = h /\ total = finished + panics + active /\ n + b = total
  BY DEF StatPart, CountsHold
<1>4. \/ /\ total' = total + 1 /\ active' = active + 1
         /\ gauge' = gauge /\ finished' = finished /\ panics' = panics /\ n1 = n /\ h1 = h /\ b1 = b + 1
      \/ /\ gauge' = gauge + 1 /\ n1 = n + 1
         /\ total' = total /\ active' = active /\ finished' = finished /\ panics' = panics
         /\ h1 = h + 1 /\ b1 = b - 1
      \/ /\ active' = active - 1 /\ gauge' = gauge - 1 /\ total' = total /\ n1 = n
         /\ \/ finished' = finished + 1 /\ panics' = panics
            \/ finished' = finished /\ panics' = panics + 1
         /\ h1 = h - 1 /\ b1 = b
  OBVIOUS
<1>5. CountsHold' <=> active' = h1 + b1 /\ gauge' = h1 /\ total' = finished' + panics' + active' /\ n1 + b1 = total'
  BY DEF CountsHold
<1> HIDE DEF h, b, h1, b1, n, n1
<1>6. /\ total \in Int /\ finished \in Int /\ panics \in Int /\ active \in Int /\ gauge \in Int
  BY DEF StatPart, StatTypes
<1>7. active' = h1 + b1 /\ gauge' = h1 /\ total' = finished' + panics' + active' /\ n1 + b1 = total'
  <2>1. active' = h1 + b1 BY <1>1, <1>3, <1>4, <1>6
  <2>2. gauge' = h1 BY <1>1, <1>3, <1>4, <1>6
  <2>3. total' = finished' + panics' + active' BY <1>1, <1>3, <1>4, <1>6
  <2>4. n1 + b1 = total' BY <1>1, <1>2, <1>3, <1>4, <1>6
  <2> QED BY <2>1, <2>2, <2>3, <2>4
<1> QED BY <1>5, <1>7 DEF StatPart

\* The steps that count. A request enters begin ...
LEMMA BeginStep == ASSUME IInv, NEW r \in Conns, Begin(r), UNCHANGED <<plan, now, geoVars, sessionVars>>
                   PROVE  IInv'
<1>1. Moves(r, "bucket") BY DEF Begin, Moves, IInv, ReqTypes, Request, Places
<1>2. req[r].pc = "begin" BY DEF Begin, At
<1>3. InHandler' = InHandler BY <1>1, <1>2 DEF InHandler, Moves
<1>4. InBegin' = InBegin \cup {r} /\ r \notin InBegin BY <1>1, <1>2 DEF InBegin, At, Moves
<1>5. Cardinality(InBegin') = Cardinality(InBegin) + 1 BY <1>4, Finiteness, FS_AddElement
<1>6. /\ total' = total + 1 /\ active' = active + 1
      /\ gauge' = gauge /\ finished' = finished /\ panics' = panics /\ starts' = starts
  BY DEF Begin
<1>9. StatPart'
  <2>1. StatTypes' BY <1>6 DEF IInv, StatPart, StatTypes
  <2> QED BY <1>3, <1>5, <1>6, <2>1, Counted DEF IInv
<1>7. ids' \in Nat /\ ids' >= ids BY DEF sessionVars, IInv, ReqTypes
<1>8. ReqTypes' BY <1>1, <1>7, MovesKeepsTypes DEF IInv
<1> QED BY <1>9, <1>8, GeoSame, SessionsSame DEF IInv

\* ... and leaves it for the handler, ...
LEMMA BucketStep == ASSUME IInv, NEW r \in Conns, Bucket(r), UNCHANGED <<plan, now, geoVars, sessionVars>>
                    PROVE  IInv'
<1>1. Moves(r, "handler") BY GoMoves DEF Bucket, IInv, Places
<1>2. req[r].pc = "bucket" BY DEF Bucket, At
<1>3. InHandler' = InHandler \cup {r} /\ r \notin InHandler BY <1>1, <1>2 DEF InHandler, Moves
<1>4. InBegin' = InBegin \ {r} /\ r \in InBegin BY <1>1, <1>2 DEF InBegin, At, Moves
<1>5. Cardinality(InHandler') = Cardinality(InHandler) + 1 BY <1>3, Finiteness, FS_AddElement
<1>6. Cardinality(InBegin') = Cardinality(InBegin) - 1 BY <1>4, Finiteness, FS_RemoveElement
<1>7. req[r].at \in Int BY DEF IInv, ReqTypes, Request
<1>8. starts' \in Seq(Int) /\ Len(starts') = Len(starts) + 1
  BY <1>7 DEF Bucket, IInv, StatPart, StatTypes
<1>9. /\ gauge' = gauge + 1
      /\ total' = total /\ active' = active /\ finished' = finished /\ panics' = panics
  BY DEF Bucket
<1>10. StatPart'
  <2>1. StatTypes' BY <1>8, <1>9 DEF IInv, StatPart, StatTypes
  <2> QED BY <1>5, <1>6, <1>8, <1>9, <2>1, Counted DEF IInv
<1>11. ids' \in Nat /\ ids' >= ids BY DEF sessionVars, IInv, ReqTypes
<1>12. ReqTypes' BY <1>1, <1>11, MovesKeepsTypes DEF IInv
<1> QED BY <1>10, <1>12, GeoSame, SessionsSame DEF IInv

\* ... which it leaves by its answer or by a panic.
LEMMA LeaveCounts ==
  ASSUME IInv, NEW r \in Conns, req[r].pc \in HandlerPlaces, Finish(r) \/ Panic(r)
  PROVE  Moves(r, "none") /\ StatPart'
<1>1. Moves(r, "none") BY AnswerMoves DEF Finish, Panic, IInv
<1>2. InHandler' = InHandler \ {r} /\ r \in InHandler BY <1>1 DEF InHandler, Moves, HandlerPlaces
<1>3. InBegin' = InBegin BY <1>1 DEF InBegin, At, Moves, HandlerPlaces
<1>4. Cardinality(InHandler') = Cardinality(InHandler) - 1 BY <1>2, Finiteness, FS_RemoveElement
<1>5. /\ active' = active - 1 /\ gauge' = gauge - 1 /\ total' = total /\ starts' = starts
      /\ \/ finished' = finished + 1 /\ panics' = panics
         \/ finished' = finished /\ panics' = panics + 1
  BY DEF Finish, Panic
<1>6. StatTypes' BY <1>5 DEF IInv, StatPart, StatTypes
<1> QED BY <1>1, <1>3, <1>4, <1>5, <1>6, Counted DEF IInv

LEMMA CountingStep == ASSUME IInv, NEW r \in Conns, Counting(r), UNCHANGED plan PROVE IInv'
<1>0. UNCHANGED <<plan, now, geoVars, sessionVars>> BY DEF Counting
<1>a. ids' \in Nat /\ ids' >= ids BY <1>0 DEF sessionVars, IInv, ReqTypes
<1>1. CASE Begin(r) BY <1>0, <1>1, BeginStep
<1>2. CASE Bucket(r) BY <1>0, <1>2, BucketStep
<1>3. CASE Panic(r) \/ SnapSum(r)
  <2>1. req[r].pc \in HandlerPlaces /\ (Finish(r) \/ Panic(r))
    BY <1>3 DEF Panic, SnapSum, At, HandlerPlaces
  <2>2. Moves(r, "none") /\ StatPart' BY <2>1, LeaveCounts
  <2>3. ReqTypes' BY <1>0, <1>a, <2>2, MovesKeepsTypes DEF IInv
  <2> QED BY <1>0, <2>2, <2>3, GeoSame, SessionsSame DEF IInv
<1>4. CASE SnapTotal(r)
  <2>1. Moves(r, "sum") BY <1>4 DEF SnapTotal, Moves, IInv, ReqTypes, Request, Places
  <2>2. req[r].pc = "handler" /\ UNCHANGED statsVars BY <1>4 DEF SnapTotal, At
  <2>3. ReqTypes' BY <1>0, <1>a, <2>1, MovesKeepsTypes DEF IInv
  <2>4. StatPart' BY <2>1, <2>2, StatsSame DEF IInv, HandlerPlaces
  <2> QED BY <1>0, <2>3, <2>4, GeoSame, SessionsSame DEF IInv
<1> QED BY <1>1, <1>2, <1>3, <1>4 DEF Counting

-----------------------------------------------------------------------------
\* The sessions: a new one has a new number, and no other step adds one.
LEMMA LoginKeepsSessions == ASSUME IInv, NEW r \in Conns, Login(r) PROVE SessionInv' /\ ids' = ids + 1
<1>1. ids' = ids + 1 /\ gone' = gone /\ DOMAIN sessions' = {ids'} \cup DOMAIN sessions
  BY DEF Login
<1>2. ids \in Nat BY DEF IInv, ReqTypes
<1> QED BY <1>1, <1>2 DEF IInv, SessionInv, LogoutSticks

LEMMA SessionsLeft ==
  ASSUME IInv, DOMAIN sessions' \subseteq DOMAIN sessions, UNCHANGED <<ids, gone>>
  PROVE  SessionInv'
BY DEF IInv, SessionInv, LogoutSticks

LEMMA RefreshKeepsSessions == ASSUME IInv, NEW r \in Conns, Refresh(r) PROVE SessionInv' /\ ids' = ids
<1>1. DOMAIN sessions' \subseteq DOMAIN sessions /\ UNCHANGED <<ids, gone>>
  BY DEF Refresh
<1> QED BY <1>1, SessionsLeft

LEMMA DeleteKeepsSessions == ASSUME IInv, NEW r \in Conns, Delete(r) PROVE SessionInv' /\ ids' = ids
<1>1. /\ DOMAIN sessions' = DOMAIN sessions \ {req[r].cookie}
      /\ gone' = gone \cup {req[r].cookie} /\ ids' = ids
  BY DEF Delete, Restrict
<1>2. req[r].cookie \in 0..ids BY DEF IInv, ReqTypes
<1> QED BY <1>1, <1>2 DEF IInv, SessionInv, LogoutSticks

LEMMA ServingStep == ASSUME IInv, NEW r \in Conns, Serving(r), UNCHANGED plan PROVE IInv'
<1>1. UNCHANGED <<plan, now, geoVars>> BY DEF Serving
<1>2. ids \in Nat BY DEF IInv, ReqTypes
<1>3. GeoPart' BY <1>1, GeoSame DEF IInv
<1>4. CASE (CheckSession(r) \/ Logout(r)) /\ UNCHANGED statsVars
  <2>1. \E pc \in {"refresh", "delete"} : Moves(r, pc)
    BY <1>4, GoMoves DEF CheckSession, Logout, IInv, Places
  <2>2. req[r].pc = "handler" /\ UNCHANGED sessionVars BY <1>4 DEF CheckSession, Logout, At
  <2>3. ids' \in Nat /\ ids' >= ids BY <1>2, <2>2 DEF sessionVars
  <2>4. ReqTypes' BY <1>1, <2>1, <2>3, MovesKeepsTypes DEF IInv
  <2>5. StatPart' BY <1>4, <2>1, <2>2, StatsSame DEF IInv, HandlerPlaces
  <2> QED BY <1>3, <2>2, <2>4, <2>5, SessionsSame DEF IInv
<1>5. CASE Finish(r) /\ (Page(r) \/ Login(r) \/ LoginFails(r) \/ NoSession(r) \/ Refresh(r) \/ Delete(r))
  <2>1. req[r].pc \in HandlerPlaces
    BY <1>5 DEF Page, Login, LoginFails, NoSession, Refresh, Delete, At, HandlerPlaces
  <2>2. Moves(r, "none") /\ StatPart' BY <1>5, <2>1, LeaveCounts
  <2>3. SessionInv' /\ ids' \in Nat /\ ids' >= ids
    <3>1. CASE Login(r) BY <1>2, <3>1, LoginKeepsSessions
    <3>2. CASE Refresh(r) BY <1>2, <3>2, RefreshKeepsSessions
    <3>3. CASE Delete(r) BY <1>2, <3>3, DeleteKeepsSessions
    <3>4. CASE Page(r) \/ LoginFails(r) \/ NoSession(r)
      <4>1. UNCHANGED sessionVars BY <3>4 DEF Page, LoginFails, NoSession
      <4> QED BY <1>2, <4>1, SessionsSame DEF IInv, sessionVars
    <3> QED BY <1>5, <3>1, <3>2, <3>3, <3>4
  <2>4. ReqTypes' BY <1>1, <2>2, <2>3, MovesKeepsTypes DEF IInv
  <2> QED BY <1>3, <2>2, <2>3, <2>4 DEF IInv
<1> QED BY <1>4, <1>5 DEF Serving, Page

-----------------------------------------------------------------------------
\* Steps that leave the requests alone.
LEMMA RequestsSame ==
  ASSUME IInv, UNCHANGED <<plan, req, ids, statsVars>>, now' \in Int
  PROVE  ReqTypes' /\ StatPart'
<1>1. ReqTypes' BY DEF IInv, ReqTypes
<1>2. InHandler' = InHandler /\ InBegin' = InBegin BY DEF InHandler, InBegin, At
<1> QED BY <1>1, <1>2 DEF IInv, StatPart, StatTypes, CountsHold, statsVars

\* A load reads what is on the disk, and leaves one reader open.
LEMMA LoadReads ==
  ASSUME disk \in Nat, loads \in Nat, Load
  PROVE  /\ loads' \in Nat /\ reader' \in [id : Nat, version : Nat]
         /\ reader'.version = disk /\ open' = {reader'.id} \ {0}
<1>1. CASE disk = 0 BY <1>1 DEF Load, NoReader
<1>2. CASE disk # 0
  <2>1. loads' = loads + 1 /\ reader' = [id |-> loads', version |-> disk] /\ open' = {loads'}
    BY <1>2 DEF Load
  <2> QED BY <2>1
<1> QED BY <1>1, <1>2

LEMMA UpdatingStep == ASSUME IInv, NEW u \in Updaters, Updating(u), UNCHANGED plan PROVE IInv'
<1>1. UNCHANGED <<plan, reqVars, statsVars, sessionVars>> BY DEF Updating
<1>2. ReqTypes' /\ StatPart' BY <1>1, RequestsSame DEF reqVars, sessionVars, IInv, ReqTypes
<1>3. GeoPart'
  <2> USE DEF IInv, GeoPart, GeoTypes, GeoInv
  <2>1. CASE BeginUpdate(u)
    <3>1. /\ UNCHANGED <<disk, reader, open, loads, command, unseen>> /\ versions' = versions + 1
          /\ upd' = [upd EXCEPT ![u] = [pc |-> "download", version |-> versions']]
          /\ upd[u].pc = "idle"
      BY <2>1 DEF BeginUpdate
    <3> QED BY <3>1
  <2>2. CASE Download(u)
    <3>1. /\ UNCHANGED <<reader, open, loads, versions, command>> /\ (disk' = upd[u].version \/ disk' = disk)
          /\ upd' = [upd EXCEPT ![u].pc = "load"]
      BY <2>2 DEF Download, GoUpd
    <3>2. upd'[u].pc = "load" /\ upd' \in [Updaters -> [pc : {"idle", "download", "load"}, version : Nat]]
      BY <3>1
    <3> QED BY <3>1, <3>2
  <2>3. CASE Reload(u)
    <3>1. UNCHANGED <<disk, versions, command>> /\ Load /\ upd' = [upd EXCEPT ![u].pc = "idle"]
      BY <2>3 DEF Reload, GoUpd
    <3> QED BY <3>1, LoadReads
  <2> QED BY <2>1, <2>2, <2>3 DEF Updating
<1> QED BY <1>1, <1>2, <1>3, SessionsSame DEF IInv

\* A command changes the file alone, and what it leaves is not the server's.
LEMMA CommandingStep == ASSUME IInv, Commanding, UNCHANGED plan PROVE IInv'
<1>1. UNCHANGED <<plan, reqVars, statsVars, sessionVars>> BY DEF Commanding
<1>2. ReqTypes' /\ StatPart' BY <1>1, RequestsSame DEF reqVars, sessionVars, IInv, ReqTypes
<1>3. GeoPart'
  <2> USE DEF IInv, GeoPart, GeoTypes, GeoInv
  <2>1. CASE BeginCommand BY <2>1 DEF BeginCommand
  <2>2. CASE CommandDownload
    <3>1. UNCHANGED <<reader, open, loads, versions, upd>> /\ command' = 0 BY <2>2 DEF CommandDownload
    <3>2. (disk' = command /\ unseen' = TRUE) \/ UNCHANGED <<disk, unseen>> BY <2>2 DEF CommandDownload
    <3> QED BY <3>1, <3>2
  <2> QED BY <2>1, <2>2 DEF Commanding
<1> QED BY <1>1, <1>2, <1>3, SessionsSame DEF IInv

LEMMA SweepStep == ASSUME IInv, Sweep, UNCHANGED plan PROVE IInv'
<1>1. UNCHANGED <<plan, reqVars, geoVars, statsVars, ids, gone>> BY DEF Sweep, Cleanup
<1>2. DOMAIN sessions' \subseteq DOMAIN sessions BY DEF Sweep, Cleanup, Restrict
<1>3. ReqTypes' /\ StatPart' BY <1>1, RequestsSame DEF reqVars, IInv, ReqTypes
<1> QED BY <1>1, <1>2, <1>3, SessionsLeft, GeoSame DEF IInv

LEMMA TickStep == ASSUME IInv, Tick, UNCHANGED plan PROVE IInv'
<1>1. UNCHANGED <<plan, req, geoVars, statsVars, sessionVars>> /\ now' \in Int
  BY DEF Tick, IInv, ReqTypes
<1>2. ReqTypes' /\ StatPart' BY <1>1, RequestsSame DEF sessionVars
<1> QED BY <1>1, <1>2, GeoSame, SessionsSame DEF IInv

\* A new process has no request, counts from zero, and loads what is there.
LEMMA DiesStep == ASSUME IInv, Dies, UNCHANGED plan PROVE IInv'
<1>1. /\ req' = [r \in Conns |-> NoRequest] /\ now' = now
      /\ GeoRestarts /\ StatsRestart /\ SessionsLost
  BY DEF Dies
<1>2. \A r \in Conns : req'[r] = NoRequest BY <1>1
<1>3. ids' = ids /\ gone' = gone /\ DOMAIN sessions' = {} BY <1>1 DEF SessionsLost, NoSessions
<1>4. ReqTypes' BY <1>1, <1>2, <1>3, NoRequestType DEF IInv, ReqTypes
<1>5. SessionInv' BY <1>3, SessionsLeft
<1>6. GeoPart'
  <2>1. UNCHANGED <<disk, versions, command>> /\ upd' = [u \in Updaters |-> Waiting] /\ Load
    BY <1>1 DEF GeoRestarts
  <2>2. upd' \in [Updaters -> [pc : {"idle", "download", "load"}, version : Nat]]
    BY <2>1 DEF Waiting
  <2> QED BY <2>1, <2>2, LoadReads DEF IInv, GeoPart, GeoTypes, GeoInv
<1>7. StatPart'
  <2>1. InHandler' = {} /\ InBegin' = {} BY <1>2, NoRequestType DEF InHandler, InBegin, At
  <2>2. Cardinality({}) = 0 BY FS_EmptySet
  <2>3. starts' \in Seq(Int) /\ Len(starts') = 0 BY <1>1 DEF StatsRestart
  <2> QED BY <1>1, <2>1, <2>2, <2>3 DEF StatsRestart, StatPart, StatTypes, CountsHold
<1> QED BY <1>4, <1>5, <1>6, <1>7 DEF IInv

LEMMA NextKeepsIInv == IInv /\ [Next]_<<plan, vars>> => IInv'
<1> SUFFICES ASSUME IInv, [Next]_<<plan, vars>> PROVE IInv' OBVIOUS
<1>1. CASE UNCHANGED <<plan, vars>>
  <2>1. UNCHANGED <<plan, req, now, geoVars, statsVars, sessionVars>> BY <1>1 DEF vars, reqVars
  <2>2. now' \in Int BY <2>1 DEF IInv, ReqTypes
  <2>3. ReqTypes' /\ StatPart' BY <2>1, <2>2, RequestsSame DEF sessionVars
  <2> QED BY <2>1, <2>3, GeoSame, SessionsSame DEF IInv
<1>2. CASE Next
  <2>1. UNCHANGED plan BY <1>2 DEF Next
  <2>2. CASE \E r \in Conns : NewRequest(r) BY <2>1, <2>2, ArriveStep
  <2>3. CASE \E r \in Conns : RequestStep(r)
    BY <2>1, <2>3, LimitingStep, LocatingStep, CountingStep, ServingStep DEF RequestStep
  <2>4. CASE \E u \in Updaters : Updating(u) BY <2>1, <2>4, UpdatingStep
  <2>8. CASE Commanding BY <2>1, <2>8, CommandingStep
  <2>5. CASE Sweep BY <2>1, <2>5, SweepStep
  <2>6. CASE Tick BY <2>1, <2>6, TickStep
  <2>7. CASE Dies BY <2>1, <2>7, DiesStep
  <2> QED BY <1>2, <2>2, <2>3, <2>4, <2>5, <2>6, <2>7, <2>8 DEF Next
<1> QED BY <1>1, <1>2

LEMMA AlwaysIInv == Spec => []IInv
BY InitIInv, NextKeepsIInv, PTL DEF Spec

\* A session that was logged out admits nobody again, whatever requests that had
\* looked it up do later: RefreshSession looks for it again under its lock.
THEOREM LoggedOutStays == Spec => []LogoutSticks
<1>1. IInv => LogoutSticks BY Parts
<1> QED BY <1>1, AlwaysIInv, PTL

\* The counters of statsCollector and metricsMiddleware agree with the requests
\* at work, for every number of connections and through panics.
THEOREM CountersAgree == Spec => []CountsHold
<1>1. IInv => CountsHold BY Parts
<1> QED BY <1>1, AlwaysIInv, PTL

\* Outside of an update the loaded database is the one on the disk, and no other
\* reader stays open, for every number of updates at once; only a file that a
\* command put there since the last load (scheduler_wire.go) is not in use yet.
THEOREM DatabaseIsFresh == Spec => []Fresh
<1>1. IInv => Fresh BY Parts
<1> QED BY <1>1, AlwaysIInv, PTL
-----------------------------------------------------------------------------
\* The limiter. What it has to keep is said of the set A of admissions at the
\* time n, so that the lemmas about it need no step: V holds those of w from t1
\* to t2.
V(A, w, t1, t2) == {a \in A : a[1] = w /\ a[2] \in t1..t2}
N(A, w, t1, t2) == Cardinality(V(A, w, t1, t2))

\* The window of a bucket b began at Begins(b), its client was admitted as often
\* as b says since, at most lim times in the window before, and not after its end.
Begins(b) == b.reset - Window

Bucketed(A, n, lim, w, b) ==
  /\ DOMAIN b = {"count", "reset"} /\ b.reset \in Int /\ b.count \in Int
  /\ Begins(b) <= n /\ b.count <= lim
  /\ N(A, w, Begins(b), n) = b.count
  /\ N(A, w, Begins(b) - Window, Begins(b) - 1) <= lim
  /\ \A a \in A : a[1] = w => a[2] <= b.reset

\* A client without a bucket, or with one that is over, may begin a window.
Idle(A, n, lim, w) ==
  /\ N(A, w, n - Window, n) <= lim
  /\ \A a \in A : a[1] = w => a[2] < n

\* The admissions are those of the past, and are told apart.
Past(A, n) ==
  /\ IsFiniteSet(A)
  /\ \A a \in A : a[2] \in Int /\ a[2] <= n
  /\ \A a \in A : a[3] \in Nat /\ a[3] <= N(A, a[1], a[2], a[2])

LEMMA Admitted ==
  ASSUME NEW A, IsFiniteSet(A), NEW w, NEW t1, NEW t2
  PROVE  IsFiniteSet(V(A, w, t1, t2)) /\ N(A, w, t1, t2) \in Nat
<1>1. V(A, w, t1, t2) \in SUBSET A
  BY DEF V
<1> QED
  BY <1>1, FS_Subset, FS_CardinalityType DEF N

LEMMA AdmittedWithin ==
  ASSUME NEW A, NEW B, IsFiniteSet(B), NEW w, NEW t1, NEW t2, NEW u1, NEW u2,
         V(A, w, t1, t2) \subseteq V(B, w, u1, u2)
  PROVE  N(A, w, t1, t2) <= N(B, w, u1, u2)
BY Admitted, FS_Subset DEF N

\* Two stretches that meet.
LEMMA AdmittedTwice ==
  ASSUME NEW A, IsFiniteSet(A), NEW w, NEW t1 \in Int, NEW t2 \in Int,
         NEW s1 \in Int, NEW s2 \in Int, NEW s3 \in Int, s1 <= t1, t2 <= s3
  PROVE  N(A, w, t1, t2) <= N(A, w, s1, s2 - 1) + N(A, w, s2, s3)
<1> DEFINE P == V(A, w, s1, s2 - 1)
           Q == V(A, w, s2, s3)
           R == V(A, w, t1, t2)
<1>1. IsFiniteSet(P) /\ IsFiniteSet(Q) /\ IsFiniteSet(R)
  BY Admitted
<1>2. \A a \in R : a \in P \cup Q
  <2> SUFFICES ASSUME NEW a \in R PROVE a \in P \cup Q
    OBVIOUS
  <2>1. a \in A /\ a[1] = w /\ a[2] \in t1..t2
    BY DEF V
  <2>2. a[2] \in s1..(s2 - 1) \/ a[2] \in s2..s3
    BY <2>1
  <2> QED
    BY <2>1, <2>2 DEF V
<1> HIDE DEF P, Q, R
<1>3. IsFiniteSet(P \cup Q) /\ Cardinality(P \cup Q) <= Cardinality(P) + Cardinality(Q)
  <2>1. /\ IsFiniteSet(P \cup Q)
        /\ Cardinality(P \cup Q) = Cardinality(P) + Cardinality(Q) - Cardinality(P \cap Q)
    BY <1>1, FS_Union
  <2>2. IsFiniteSet(P \cap Q)
    BY <1>1, FS_Intersection
  <2>3. /\ Cardinality(P) \in Nat /\ Cardinality(Q) \in Nat
        /\ Cardinality(P \cap Q) \in Nat
    BY <1>1, <2>2, FS_CardinalityType
  <2> QED
    BY <2>1, <2>3
<1>4. R \in SUBSET (P \cup Q)
  BY <1>2
<1>5. Cardinality(R) <= Cardinality(P \cup Q)
  BY <1>3, <1>4, FS_Subset
<1>6. /\ Cardinality(P) \in Nat /\ Cardinality(Q) \in Nat /\ Cardinality(R) \in Nat
      /\ Cardinality(P \cup Q) \in Nat
  BY <1>1, <1>3, FS_CardinalityType
<1>7. Cardinality(R) <= Cardinality(P) + Cardinality(Q)
  BY <1>3, <1>5, <1>6
<1> QED
  BY <1>7 DEF N, P, Q, R

\* When its window is over a client may begin another, ...
LEMMA OverIsIdle ==
  ASSUME NEW A, NEW n \in Int, NEW lim \in Nat, NEW w, NEW b,
         Past(A, n), Bucketed(A, n, lim, w, b), n > b.reset
  PROVE  Idle(A, n, lim, w)
<1>1. Window \in Nat /\ b.reset \in Int /\ Begins(b) = b.reset - Window
  BY WindowAssumption DEF Bucketed, Begins
<1>2. V(A, w, n - Window, n) \subseteq V(A, w, Begins(b), n)
  BY <1>1 DEF V, Past
<1>3. N(A, w, n - Window, n) <= N(A, w, Begins(b), n)
  BY <1>2, AdmittedWithin DEF Past
<1>4. N(A, w, n - Window, n) \in Nat /\ N(A, w, Begins(b), n) = b.count /\ b.count <= lim
      /\ b.count \in Int
  BY Admitted DEF Past, Bucketed
<1>5. N(A, w, n - Window, n) <= lim
  BY <1>3, <1>4
<1>6. \A a \in A : a[1] = w => a[2] < n
  BY <1>1 DEF Bucketed, Past
<1> QED
  BY <1>5, <1>6 DEF Idle

\* ... and time alone changes nothing.
LEMMA TimePasses ==
  ASSUME NEW A, NEW n \in Int, NEW lim \in Nat, NEW w, Past(A, n)
  PROVE  /\ Past(A, n + 1)
         /\ Idle(A, n, lim, w) => Idle(A, n + 1, lim, w)
         /\ \A b : Bucketed(A, n, lim, w, b) => Bucketed(A, n + 1, lim, w, b)
<1>0. Window \in Nat
  BY WindowAssumption
<1>1. Past(A, n + 1)
  BY DEF Past
<1>2. Idle(A, n, lim, w) => Idle(A, n + 1, lim, w)
  <2>1. V(A, w, (n + 1) - Window, n + 1) \subseteq V(A, w, n - Window, n)
    BY <1>0 DEF V, Past
  <2>2. N(A, w, (n + 1) - Window, n + 1) <= N(A, w, n - Window, n)
    BY <2>1, AdmittedWithin DEF Past
  <2>3. N(A, w, (n + 1) - Window, n + 1) \in Nat /\ N(A, w, n - Window, n) \in Nat
    BY Admitted DEF Past
  <2>4. Idle(A, n, lim, w) => N(A, w, (n + 1) - Window, n + 1) <= lim
    BY <2>2, <2>3 DEF Idle
  <2> QED
    BY <2>4 DEF Idle, Past
<1>3. ASSUME NEW b, Bucketed(A, n, lim, w, b) PROVE Bucketed(A, n + 1, lim, w, b)
  <2>1. V(A, w, Begins(b), n + 1) = V(A, w, Begins(b), n)
    BY <1>0, <1>3 DEF V, Past, Bucketed, Begins
  <2>2. Begins(b) \in Int
    BY <1>0, <1>3 DEF Begins, Bucketed
  <2> QED
    BY <1>3, <2>1, <2>2 DEF Bucketed, N
<1> QED
  BY <1>1, <1>2, <1>3

\* Admitting w once more at n.
Plus(A, w, n) == A \cup {<<w, n, N(A, w, n, n) + 1>>}

LEMMA Admit ==
  ASSUME NEW A, NEW n \in Int, NEW w, Past(A, n)
  PROVE  /\ Past(Plus(A, w, n), n)
         /\ \A t \in Int : t <= n => N(Plus(A, w, n), w, t, n) = N(A, w, t, n) + 1
         /\ \A v, t1, t2 : (v # w \/ n \notin t1..t2) =>
              V(Plus(A, w, n), v, t1, t2) = V(A, v, t1, t2)
<1> DEFINE x == <<w, n, N(A, w, n, n) + 1>>
           B == Plus(A, w, n)
<1>1. N(A, w, n, n) \in Nat /\ IsFiniteSet(A)
  BY Admitted DEF Past
<1>2. x \notin A
  <2>1. x[1] = w /\ x[2] = n /\ x[3] = N(A, w, n, n) + 1
    OBVIOUS
  <2> HIDE DEF x
  <2> QED
    BY <1>1, <2>1 DEF Past
<1>3. IsFiniteSet(B) /\ B = A \cup {x}
  BY <1>1, FS_AddElement DEF Plus
<1>4. \A v, t1, t2 : (v # w \/ n \notin t1..t2) => V(B, v, t1, t2) = V(A, v, t1, t2)
  BY <1>3 DEF V
<1>5. ASSUME NEW t \in Int, t <= n PROVE N(B, w, t, n) = N(A, w, t, n) + 1
  <2>1. V(B, w, t, n) = V(A, w, t, n) \cup {x}
    BY <1>3, <1>5 DEF V
  <2>2. x \notin V(A, w, t, n)
    BY <1>2 DEF V
  <2>3. IsFiniteSet(V(A, w, t, n))
    BY <1>1, Admitted
  <2> HIDE DEF x, B
  <2> QED
    BY <2>1, <2>2, <2>3, FS_AddElement DEF N
<1>6. \A a \in B : a[2] \in Int /\ a[2] <= n
  BY <1>3 DEF Past
<1>7. ASSUME NEW a \in B PROVE a[3] \in Nat /\ a[3] <= N(B, a[1], a[2], a[2])
  <2>1. CASE a = x
    <3>1. a[1] = w /\ a[2] = n /\ a[3] = N(A, w, n, n) + 1
      BY <2>1
    <3>2. N(B, w, n, n) = N(A, w, n, n) + 1
      BY <1>5
    <3> HIDE DEF x, B
    <3> QED
      BY <1>1, <3>1, <3>2
  <2>2. CASE a \in A
    <3>1. V(A, a[1], a[2], a[2]) \subseteq V(B, a[1], a[2], a[2])
      BY <1>3 DEF V
    <3>2. N(A, a[1], a[2], a[2]) <= N(B, a[1], a[2], a[2])
      BY <1>3, <3>1, AdmittedWithin
    <3>3. a[3] \in Nat /\ a[3] <= N(A, a[1], a[2], a[2])
      BY <2>2 DEF Past
    <3>4. N(A, a[1], a[2], a[2]) \in Nat /\ N(B, a[1], a[2], a[2]) \in Nat
      BY <1>1, <1>3, Admitted
    <3> QED
      BY <3>2, <3>3, <3>4
  <2> QED
    BY <1>3, <2>1, <2>2
<1> QED
  BY <1>3, <1>4, <1>5, <1>6, <1>7 DEF Past

\* The first request of a window, and one that is within it.
LEMMA FirstOfWindow ==
  ASSUME NEW A, NEW n \in Int, NEW lim \in Nat, lim > 0, NEW w, Past(A, n),
         Idle(A, n, lim, w)
  PROVE  Bucketed(Plus(A, w, n), n, lim, w, [count |-> 1, reset |-> n + Window])
<1> DEFINE b == [count |-> 1, reset |-> n + Window]
           B == Plus(A, w, n)
<1>1. Window \in Nat /\ Begins(b) = n /\ b.reset = n + Window /\ b.count = 1
  BY WindowAssumption DEF Begins
<1>2. N(A, w, n, n) = 0
  <2>1. V(A, w, n, n) = {}
    BY DEF Idle, V
  <2> QED
    BY <2>1, FS_EmptySet DEF N
<1>3. N(B, w, n, n) = 1
  BY <1>2, Admit
<1>4. N(B, w, n - Window, n - 1) <= lim
  <2>1. V(B, w, n - Window, n - 1) \subseteq V(A, w, n - Window, n)
    <3>1. n \notin (n - Window)..(n - 1)
      OBVIOUS
    <3>2. V(B, w, n - Window, n - 1) = V(A, w, n - Window, n - 1)
      BY <3>1, Admit
    <3> QED
      BY <1>1, <3>2 DEF V
  <2>2. N(B, w, n - Window, n - 1) <= N(A, w, n - Window, n)
    BY <2>1, AdmittedWithin DEF Past
  <2>3. N(B, w, n - Window, n - 1) \in Nat /\ N(A, w, n - Window, n) \in Nat
    BY Admitted, Admit DEF Past
  <2> QED
    BY <2>2, <2>3 DEF Idle
<1>5. \A a \in B : a[2] <= n + Window
  <2>1. \A a \in B : a[2] \in Int /\ a[2] <= n
    BY Admit DEF Past
  <2> QED
    BY <1>1, <2>1
<1>6. DOMAIN b = {"count", "reset"} /\ b.reset \in Int /\ b.count \in Int
  BY <1>1
<1> HIDE DEF b, B
<1>7. Bucketed(B, n, lim, w, b)
  BY <1>1, <1>3, <1>4, <1>5, <1>6 DEF Bucketed
<1> QED
  BY <1>7 DEF b, B

LEMMA OneMore ==
  ASSUME NEW A, NEW n \in Int, NEW lim \in Nat, NEW w, NEW b, NEW c, Past(A, n),
         Bucketed(A, n, lim, w, b), n <= b.reset, b.count < lim,
         DOMAIN c = DOMAIN b, c.reset = b.reset, c.count = b.count + 1
  PROVE  Bucketed(Plus(A, w, n), n, lim, w, c)
<1> DEFINE B == Plus(A, w, n)
<1>1. /\ Window \in Nat /\ Begins(b) \in Int /\ Begins(c) = Begins(b)
      /\ Begins(b) <= n /\ c.count \in Int /\ c.reset \in Int /\ c.count <= lim
  BY WindowAssumption DEF Begins, Bucketed
<1>2. N(B, w, Begins(b), n) = c.count
  BY <1>1, Admit DEF Bucketed
<1>3. N(B, w, Begins(b) - Window, Begins(b) - 1) <= lim
  <2>1. n \notin (Begins(b) - Window)..(Begins(b) - 1)
    BY <1>1
  <2>2. V(B, w, Begins(b) - Window, Begins(b) - 1) = V(A, w, Begins(b) - Window, Begins(b) - 1)
    BY <2>1, Admit
  <2> QED
    BY <2>2 DEF Bucketed, N
<1>4. \A a \in B : a[1] = w => a[2] <= c.reset
  BY <1>1 DEF Bucketed, Plus
<1> QED
  BY <1>1, <1>2, <1>3, <1>4 DEF Bucketed

LEMMA OthersStay ==
  ASSUME NEW A, NEW n \in Int, NEW lim, NEW w, NEW v, v # w, Past(A, n)
  PROVE  /\ Idle(A, n, lim, v) => Idle(Plus(A, w, n), n, lim, v)
         /\ \A b : Bucketed(A, n, lim, v, b) => Bucketed(Plus(A, w, n), n, lim, v, b)
<1>1. \A t1, t2 : N(Plus(A, w, n), v, t1, t2) = N(A, v, t1, t2)
  BY Admit DEF N
<1>2. \A a \in Plus(A, w, n) : a[1] = v => a \in A
  BY DEF Plus
<1> QED
  BY <1>1, <1>2 DEF Idle, Bucketed

\* What LimitHolds says of the admissions and the refusals.
Bounds(A, R, lim) ==
  /\ \A a \in A : N(A, a[1], a[2] - Window + 1, a[2]) <= 2 * lim
  /\ \A e \in R : e[2] \in Int /\ N(A, e[1], e[2] - Window, e[2]) >= lim

LEMMA TwiceAtMost ==
  ASSUME NEW A, NEW n \in Int, NEW lim \in Nat, NEW w, NEW b,
         Past(A, n), Bucketed(A, n, lim, w, b)
  PROVE  N(A, w, n - Window + 1, n) <= 2 * lim
<1>1. Window \in Nat \ {0} /\ Begins(b) \in Int /\ Begins(b) <= n /\ b.count \in Int
  BY WindowAssumption DEF Begins, Bucketed
<1> DEFINE early == N(A, w, Begins(b) - Window, Begins(b) - 1)
           late  == N(A, w, Begins(b), n)
           both  == N(A, w, n - Window + 1, n)
<1>2. both <= early + late
  BY <1>1, AdmittedTwice DEF Past
<1>3. early <= lim /\ late = b.count /\ b.count <= lim
  BY DEF Bucketed
<1>4. early \in Nat /\ late \in Nat /\ both \in Nat
  BY Admitted DEF Past
<1> HIDE DEF early, late, both
<1>5. both <= 2 * lim
  BY <1>2, <1>3, <1>4
<1> QED
  BY <1>5 DEF both

LEMMA BoundsAfterAdmission ==
  ASSUME NEW A, NEW R, NEW n \in Int, NEW lim \in Nat, NEW w, NEW b,
         Past(A, n), Bounds(A, R, lim), Bucketed(Plus(A, w, n), n, lim, w, b)
  PROVE  Bounds(Plus(A, w, n), R, lim)
<1> DEFINE B == Plus(A, w, n)
<1>1. Past(B, n) /\ IsFiniteSet(A) /\ IsFiniteSet(B) /\ Window \in Nat
  BY Admit, WindowAssumption DEF Past
<1>2. ASSUME NEW a \in B PROVE N(B, a[1], a[2] - Window + 1, a[2]) <= 2 * lim
  <2>1. CASE a[1] = w /\ a[2] = n
    BY <1>1, <2>1, TwiceAtMost
  <2>2. CASE a[1] # w \/ a[2] # n
    <3>1. a \in A /\ a[2] \in Int /\ a[2] <= n
      BY <2>2 DEF Plus, Past
    <3>2. a[1] # w \/ n \notin (a[2] - Window + 1)..a[2]
      BY <2>2, <3>1
    <3>3. V(B, a[1], a[2] - Window + 1, a[2]) = V(A, a[1], a[2] - Window + 1, a[2])
      BY <3>2, Admit
    <3> QED
      BY <3>1, <3>3 DEF Bounds, N
  <2> QED
    BY <2>1, <2>2
<1>3. ASSUME NEW e \in R PROVE e[2] \in Int /\ N(B, e[1], e[2] - Window, e[2]) >= lim
  <2>1. V(A, e[1], e[2] - Window, e[2]) \subseteq V(B, e[1], e[2] - Window, e[2])
    BY DEF V, Plus
  <2>2. N(A, e[1], e[2] - Window, e[2]) <= N(B, e[1], e[2] - Window, e[2])
    BY <1>1, <2>1, AdmittedWithin
  <2>3. /\ N(A, e[1], e[2] - Window, e[2]) \in Nat
        /\ N(B, e[1], e[2] - Window, e[2]) \in Nat
    BY <1>1, Admitted
  <2>4. e[2] \in Int /\ N(A, e[1], e[2] - Window, e[2]) >= lim
    BY DEF Bounds
  <2> HIDE DEF B
  <2> QED
    BY <2>2, <2>3, <2>4
<1> QED
  BY <1>2, <1>3 DEF Bounds

\* Who is refused has used up what the bucket allows, within the last window.
LEMMA BoundsAfterRefusal ==
  ASSUME NEW A, NEW R, NEW n \in Int, NEW lim \in Nat, NEW w, NEW b,
         Past(A, n), Bounds(A, R, lim), Bucketed(A, n, lim, w, b),
         n <= b.reset, b.count >= lim
  PROVE  Bounds(A, R \cup {<<w, n>>}, lim)
<1>1. Window \in Nat /\ b.reset \in Int /\ b.count \in Int /\ Begins(b) = b.reset - Window
  BY WindowAssumption DEF Begins, Bucketed
<1>2. V(A, w, Begins(b), n) \subseteq V(A, w, n - Window, n)
  BY <1>1 DEF V, Past
<1>3. N(A, w, Begins(b), n) <= N(A, w, n - Window, n)
  BY <1>2, AdmittedWithin DEF Past
<1>4. N(A, w, Begins(b), n) = b.count /\ N(A, w, n - Window, n) \in Nat
  BY Admitted DEF Past, Bucketed
<1>5. N(A, w, n - Window, n) >= lim
  BY <1>1, <1>3, <1>4
<1> DEFINE e == <<w, n>>
<1>6. e[1] = w /\ e[2] = n
  OBVIOUS
<1> HIDE DEF e
<1>7. Bounds(A, R \cup {e}, lim)
  BY <1>5, <1>6 DEF Bounds
<1> QED
  BY <1>7 DEF e

\* Each caller of the plan has a bucket that counts its admissions, or none that
\* matter.
Clients(A, n, H, lim) ==
  \A c \in plan.callers :
    IF ClientIP(c) \in DOMAIN H THEN Bucketed(A, n, lim, c.who, H[ClientIP(c)])
    ELSE Idle(A, n, lim, c.who)

LimInv ==
  /\ \A r \in Conns : At(r, "limit") => req[r].caller \in plan.callers
  /\ plan.limit > 0 => /\ Past(admitted, now)
                       /\ Clients(admitted, now, hits, plan.limit)
                       /\ Bounds(admitted, refused, plan.limit)

LEMMA LimitIsNat == ReqTypes => plan.limit \in Nat /\ now \in Int
BY AddressAssumption DEF ReqTypes

LEMMA NobodyYet ==
  ASSUME NEW n \in Int, NEW lim \in Nat
  PROVE  Past({}, n) /\ Bounds({}, {}, lim) /\ Clients({}, n, NoBuckets, lim)
<1>1. \A w, t1, t2 : N({}, w, t1, t2) = 0
  <2>1. \A w, t1, t2 : V({}, w, t1, t2) = {}
    BY DEF V
  <2> QED
    BY <2>1, FS_EmptySet DEF N
<1>2. DOMAIN NoBuckets = {}
  BY DEF NoBuckets
<1> QED
  BY <1>1, <1>2, FS_EmptySet DEF Past, Bounds, Clients, Idle

LEMMA LimInit == Init => LimInv
<1> SUFFICES ASSUME Init PROVE LimInv
  OBVIOUS
<1>1. \A r \in Conns : req[r].pc = "none"
  BY NoRequestType DEF Init, RequestsInit
<1>2. plan.limit \in Nat /\ now \in Int
  BY InitIInv, LimitIsNat DEF IInv
<1>3. admitted = {} /\ refused = {} /\ hits = NoBuckets
  BY DEF Init, LimiterInit
<1> QED
  BY <1>1, <1>2, <1>3, NobodyYet DEF LimInv, At

\* A step that lets no request arrive at the limiter.
LEMMA LimQuiet ==
  ASSUME LimInv, UNCHANGED <<plan, now, limitVars>>,
         \A q \in Conns : At(q, "limit")' =>
           At(q, "limit") /\ req'[q].caller = req[q].caller
  PROVE  LimInv'
<1>1. \A q \in Conns : At(q, "limit")' => req'[q].caller \in plan'.callers
  BY DEF LimInv
<1>2. plan.limit > 0 => /\ Past(admitted', now')
                        /\ Clients(admitted, now, hits, plan.limit)'
                        /\ Bounds(admitted', refused', plan'.limit)
  BY DEF LimInv, limitVars, Clients, ClientIP, TrustedPeer
<1> QED
  BY <1>1, <1>2 DEF LimInv

LEMMA SweepForgetsNothing ==
  ASSUME ReqTypes, NEW lim \in Nat, Past(admitted, now), Clients(admitted, now, hits, lim)
  PROVE  Clients(admitted, now, Swept, lim)
<1> SUFFICES ASSUME NEW c \in plan.callers
             PROVE  IF ClientIP(c) \in DOMAIN Swept
                    THEN Bucketed(admitted, now, lim, c.who, Swept[ClientIP(c)])
                    ELSE Idle(admitted, now, lim, c.who)
  BY DEF Clients
<1> DEFINE ip == ClientIP(c)
<1>1. IF ip \in DOMAIN hits THEN Bucketed(admitted, now, lim, c.who, hits[ip])
      ELSE Idle(admitted, now, lim, c.who)
  BY DEF Clients
<1>2. CASE ip \in DOMAIN Swept
  <2>1. ip \in DOMAIN hits /\ Swept[ip] = hits[ip]
    BY <1>2 DEF Swept, Restrict
  <2> QED
    BY <1>1, <1>2, <2>1
<1>3. CASE ip \notin DOMAIN Swept
  <2>1. CASE ip \in DOMAIN hits
    <3>1. ~(hits[ip].reset >= now)
      BY <1>3, <2>1 DEF Swept, Restrict
    <3>2. Bucketed(admitted, now, lim, c.who, hits[ip]) /\ hits[ip].reset \in Int
      BY <1>1, <2>1 DEF Bucketed
    <3>3. now > hits[ip].reset
      BY <3>1, <3>2, LimitIsNat
    <3> QED
      BY <1>3, <3>2, <3>3, OverIsIdle, LimitIsNat
  <2> QED
    BY <1>1, <1>3, <2>1
<1> QED
  BY <1>2, <1>3

\* allow.
LEMMA AllowKeeps ==
  ASSUME ReqTypes, LimInv, NEW r \in Conns, Allow(r), UNCHANGED <<plan, now>>, plan.limit > 0
  PROVE  /\ Past(admitted, now)'
         /\ Clients(admitted, now, hits, plan.limit)'
         /\ Bounds(admitted, refused, plan.limit)'
<1> DEFINE w     == req[r].caller.who
           ip    == ClientIP(req[r].caller)
           left0 == Swept
           new   == ip \notin DOMAIN left0 \/ now > left0[ip].reset
           ok    == new \/ Within(left0[ip])
           lim   == plan.limit
<1>1. lim \in Nat /\ lim > 0 /\ now \in Int /\ req[r].caller \in plan.callers /\ plan \in Plans
  BY LimitIsNat DEF LimInv, Allow, ReqTypes
<1>2. /\ Past(admitted, now) /\ Bounds(admitted, refused, lim)
      /\ Clients(admitted, now, left0, lim)
  BY <1>1, SweepForgetsNothing DEF LimInv
<1>3. /\ hits' = IF new THEN Opened(left0, ip)
                 ELSE IF ok THEN [left0 EXCEPT ![ip].count = @ + 1] ELSE left0
      /\ Record(r, ok)
  BY DEF Allow
<1>4. \A c \in plan.callers : c.who = w <=> ClientIP(c) = ip
  BY <1>1, AddressAssumption
<1>5. Clients(admitted', now, hits', lim) => Clients(admitted, now, hits, plan.limit)'
  BY DEF Clients, ClientIP, TrustedPeer
<1>6. Record(r, ok) <=>
        IF ok THEN admitted' = Plus(admitted, w, now) /\ UNCHANGED refused
        ELSE refused' = refused \cup {<<w, now>>} /\ UNCHANGED admitted
  BY DEF Record, Plus, Admissions, Visits, N, V
<1> HIDE DEF w, ip, left0, lim
<1>7. CASE new
  <2> DEFINE b == [count |-> 1, reset |-> now + Window]
             B == Plus(admitted, w, now)
  <2>1. hits' = Opened(left0, ip) /\ admitted' = B /\ UNCHANGED refused
    BY <1>3, <1>6, <1>7
  <2>2. DOMAIN hits' = {ip} \cup DOMAIN left0 /\ hits'[ip] = b
        /\ \A k \in DOMAIN left0 \ {ip} : hits'[k] = left0[k]
    BY <2>1 DEF Opened
  <2> HIDE DEF b
  <2>3. Idle(admitted, now, lim, w)
    <3>1. CASE ip \notin DOMAIN left0
      BY <1>1, <1>2, <1>4, <3>1 DEF Clients, w, ip
    <3>2. CASE ip \in DOMAIN left0 /\ now > left0[ip].reset
      <4>1. Bucketed(admitted, now, lim, w, left0[ip])
        BY <1>1, <1>2, <3>2 DEF Clients, w, ip
      <4> QED
        BY <1>1, <1>2, <3>2, <4>1, OverIsIdle
    <3> QED
      BY <1>7, <3>1, <3>2
  <2>4. Bucketed(B, now, lim, w, b)
    BY <1>1, <1>2, <2>3, FirstOfWindow DEF b
  <2>5. Past(B, now) /\ Bounds(B, refused, lim)
    BY <1>1, <1>2, <2>4, Admit, BoundsAfterAdmission
  <2>6. Clients(B, now, hits', lim)
    BY <1>1, <1>2, <1>4, <2>2, <2>4, OthersStay DEF Clients
  <2> QED
    BY <1>5, <2>1, <2>5, <2>6 DEF lim
<1>8. CASE ~new /\ ok
  <2> DEFINE b == left0[ip]
             c == [left0[ip] EXCEPT !.count = @ + 1]
             B == Plus(admitted, w, now)
  <2>1. hits' = [left0 EXCEPT ![ip] = c] /\ admitted' = B /\ UNCHANGED refused
    BY <1>3, <1>6, <1>8
  <2>2. Bucketed(admitted, now, lim, w, b)
    BY <1>1, <1>2, <1>8 DEF Clients, w, ip
  <2>3. now <= b.reset /\ b.count < lim
    BY <1>1, <1>8, <2>2 DEF Within, Bucketed, lim
  <2>4. DOMAIN c = DOMAIN b /\ c.reset = b.reset /\ c.count = b.count + 1
    BY <2>2 DEF Bucketed
  <2>5. DOMAIN hits' = DOMAIN left0 /\ hits'[ip] = c
        /\ \A k \in DOMAIN left0 \ {ip} : hits'[k] = left0[k]
    BY <1>8, <2>1
  <2> HIDE DEF b, c
  <2>6. Bucketed(B, now, lim, w, c)
    BY <1>1, <1>2, <2>2, <2>3, <2>4, OneMore
  <2>7. Past(B, now) /\ Bounds(B, refused, lim)
    BY <1>1, <1>2, <2>6, Admit, BoundsAfterAdmission
  <2>8. Clients(B, now, hits', lim)
    BY <1>1, <1>2, <1>4, <1>8, <2>5, <2>6, OthersStay DEF Clients
  <2> QED
    BY <1>5, <2>1, <2>7, <2>8 DEF lim
<1>9. CASE ~ok
  <2> DEFINE b == left0[ip]
  <2>1. hits' = left0 /\ refused' = refused \cup {<<w, now>>} /\ UNCHANGED admitted
    BY <1>3, <1>6, <1>9
  <2>2. Bucketed(admitted, now, lim, w, b)
    BY <1>1, <1>2, <1>9 DEF Clients, w, ip
  <2>3. now <= b.reset /\ b.count >= lim
    BY <1>1, <1>9, <2>2 DEF Within, Bucketed, lim
  <2> HIDE DEF b
  <2>4. Bounds(admitted, refused', lim)
    BY <1>1, <1>2, <2>1, <2>2, <2>3, BoundsAfterRefusal
  <2> QED
    BY <1>2, <1>5, <2>1, <2>4 DEF lim
<1> QED
  BY <1>7, <1>8, <1>9

\* A step of a request to another place than the limiter's.
Leaves(r) ==
  \A q \in Conns : req'[q] = req[q] \/ (q = r /\ req'[q].pc # "limit")

LEMMA GoLeaves == ASSUME ReqTypes, NEW r \in Conns, NEW pc \in Places \ {"limit"}, Moves(r, pc)
                  PROVE  Leaves(r)
BY DEF Moves, Leaves

LEMMA LimitingLim == ASSUME IInv, LimInv, NEW r \in Conns, Limiting(r), UNCHANGED plan
                     PROVE  LimInv'
<1>1. ReqTypes /\ Allow(r) /\ UNCHANGED now
  BY DEF Limiting, IInv
<1>2. BehindLimit(r) \/ Answer(r)
  BY <1>1 DEF Allow
<1>3. \E pc \in {"none", "geo", "begin"} : Moves(r, pc)
  BY <1>1, <1>2, BehindLimitMoves, AnswerMoves
<1>4. Leaves(r)
  BY <1>3 DEF Moves, Leaves
<1>5. \A q \in Conns : At(q, "limit")' => req'[q].caller \in plan'.callers
  BY <1>4 DEF Leaves, LimInv, At
<1> QED
  BY <1>1, <1>5, AllowKeeps DEF LimInv

LEMMA BeginMoves == ASSUME ReqTypes, NEW r \in Conns
                    PROVE  /\ Begin(r) => Moves(r, "bucket")
                           /\ SnapTotal(r) => Moves(r, "sum")
<1>1. ASSUME Begin(r) PROVE Moves(r, "bucket")
  BY <1>1 DEF Begin, Moves, ReqTypes, Request, Places
<1>2. ASSUME SnapTotal(r) PROVE Moves(r, "sum")
  BY <1>2 DEF SnapTotal, Moves, ReqTypes, Request, Places
<1> QED
  BY <1>1, <1>2

\* Where a step behind the limiter takes its request.
LEMMA InnerMoves ==
  ASSUME IInv, NEW r \in Conns, Locating(r) \/ Counting(r) \/ Serving(r)
  PROVE  \/ Begin(r) /\ Moves(r, "bucket")
         \/ SnapTotal(r) /\ Moves(r, "sum")
         \/ \E pc \in Places \ {"limit", "bucket", "sum"} : Moves(r, pc)
<1>1. ReqTypes
  BY DEF IInv
<1>2. CASE Locating(r)
  <2>1. BehindGeo(r) \/ Answer(r)
        \/ req' = [req EXCEPT ![r].pc = "lookup", ![r].reader = reader.id]
    BY <1>2 DEF Locating, TakeReader, Lookup
  <2>2. reader.id \in Nat
    BY DEF IInv, GeoPart, GeoTypes
  <2>3. CASE req' = [req EXCEPT ![r].pc = "lookup", ![r].reader = reader.id]
    <3>1. Moves(r, "lookup")
      BY <1>1, <2>2, <2>3 DEF Moves, ReqTypes, Request, Places
    <3> QED
      BY <3>1 DEF Places
  <2> QED
    BY <1>1, <2>1, <2>3, BehindGeoMoves, AnswerMoves DEF Places
<1>3. CASE Go(r, "handler") \/ Go(r, "refresh") \/ Go(r, "delete") \/ Answer(r)
  BY <1>1, <1>3, GoMoves, AnswerMoves DEF Places
<1>4. CASE Counting(r)
  BY <1>1, <1>3, <1>4, BeginMoves DEF Counting, Bucket, Panic, SnapSum, Finish
<1>5. CASE Serving(r)
  BY <1>3, <1>5 DEF Serving, Page, Finish, CheckSession, Logout
<1> QED
  BY <1>2, <1>4, <1>5

LEMMA OtherLim ==
  ASSUME IInv, LimInv, NEW r \in Conns, Locating(r) \/ Counting(r) \/ Serving(r), UNCHANGED plan
  PROVE  LimInv'
<1>1. ReqTypes /\ UNCHANGED <<now, limitVars>>
  BY DEF Locating, Counting, Serving, IInv
<1>2. \E pc \in Places \ {"limit"} : Moves(r, pc)
  BY InnerMoves DEF Places
<1>3. Leaves(r)
  BY <1>1, <1>2, GoLeaves
<1> QED
  BY <1>1, <1>3, LimQuiet DEF Leaves, At

LEMMA ArriveLim == ASSUME IInv, LimInv, NEW r \in Conns, NewRequest(r), UNCHANGED plan
                   PROVE  LimInv'
<1>1. PICK c \in plan.callers, k \in plan.kinds, id \in 0..ids :
        req' = [req EXCEPT ![r] = [NoRequest EXCEPT !.pc = Outermost, !.caller = c,
                                                    !.kind = k, !.cookie = id]]
  BY DEF NewRequest, Arrive
<1>2. UNCHANGED <<now, limitVars>>
  BY DEF NewRequest, Arrive
<1>3. req'[r].caller = c /\ \A q \in Conns \ {r} : req'[q] = req[q]
  BY <1>1 DEF IInv, ReqTypes, NoRequest
<1>4. \A q \in Conns : At(q, "limit")' => req'[q].caller \in plan'.callers
  BY <1>3 DEF LimInv, At
<1>5. plan.limit > 0 => /\ Past(admitted', now')
                        /\ Clients(admitted, now, hits, plan.limit)'
                        /\ Bounds(admitted', refused', plan'.limit)
  BY <1>2 DEF LimInv, limitVars, Clients, ClientIP, TrustedPeer
<1> QED
  BY <1>4, <1>5 DEF LimInv

LEMMA TickLim == ASSUME IInv, LimInv, Tick, UNCHANGED plan PROVE LimInv'
<1>1. UNCHANGED <<req, limitVars>> /\ now' = now + 1 /\ ReqTypes
  BY DEF Tick, IInv
<1>2. plan.limit \in Nat /\ now \in Int
  BY <1>1, LimitIsNat
<1>3. ASSUME plan.limit > 0
      PROVE  /\ Past(admitted, now + 1)
             /\ Clients(admitted, now + 1, hits, plan.limit)
             /\ Bounds(admitted, refused, plan.limit)
  <2>1. Past(admitted, now)
    BY <1>3 DEF LimInv
  <2>2. Past(admitted, now + 1)
    BY <1>2, <2>1, TimePasses
  <2>3. Clients(admitted, now + 1, hits, plan.limit)
    BY <1>2, <1>3, <2>1, TimePasses DEF LimInv, Clients
  <2> QED
    BY <1>3, <2>2, <2>3 DEF LimInv
<1>4. \A q \in Conns : At(q, "limit")' => req'[q].caller \in plan'.callers
  BY <1>1 DEF LimInv, At
<1>5. plan.limit > 0 => /\ Past(admitted', now')
                        /\ Clients(admitted, now, hits, plan.limit)'
                        /\ Bounds(admitted', refused', plan'.limit)
  BY <1>1, <1>3 DEF limitVars, Clients, ClientIP, TrustedPeer
<1> QED
  BY <1>4, <1>5 DEF LimInv

LEMMA DiesLim == ASSUME IInv, LimInv, Dies, UNCHANGED plan PROVE LimInv'
<1>1. /\ \A q \in Conns : req'[q] = NoRequest
      /\ admitted' = {} /\ refused' = {} /\ hits' = NoBuckets /\ now' = now
  BY DEF Dies, LimiterRestarts
<1>2. plan.limit \in Nat /\ now \in Int
  BY LimitIsNat DEF IInv
<1>3. \A q \in Conns : ~At(q, "limit")'
  BY <1>1 DEF At, NoRequest
<1>4. Clients({}, now, NoBuckets, plan.limit)
      /\ Past({}, now) /\ Bounds({}, {}, plan.limit)
  BY <1>2, NobodyYet
<1>5. Clients(admitted, now, hits, plan.limit)'
  BY <1>1, <1>4 DEF Clients, ClientIP, TrustedPeer
<1> QED
  BY <1>1, <1>3, <1>4, <1>5 DEF LimInv

LEMMA NextLim == IInv /\ LimInv /\ [Next]_<<plan, vars>> => LimInv'
<1> SUFFICES ASSUME IInv, LimInv, [Next]_<<plan, vars>> PROVE LimInv'
  OBVIOUS
<1>1. CASE UNCHANGED <<plan, vars>>
  BY <1>1, LimQuiet DEF vars, reqVars, At
<1>2. CASE Next
  <2>1. UNCHANGED plan
    BY <1>2 DEF Next
  <2>2. CASE \E u \in Updaters : Updating(u)
    BY <2>1, <2>2, LimQuiet DEF Updating, reqVars, At
  <2>3. CASE Commanding \/ Sweep
    BY <2>1, <2>3, LimQuiet DEF Commanding, Sweep, reqVars, At
  <2> QED
    BY <1>2, <2>1, <2>2, <2>3, ArriveLim, LimitingLim, OtherLim, TickLim, DiesLim
    DEF Next, RequestStep
<1> QED
  BY <1>1, <1>2

\* However many clients there are, whatever the limit and the window, and whether
\* the sweep has dropped its bucket in between: rateLimiter.allow admits a client
\* at most twice the limit in any window, and refuses it only when it has used up
\* the limit within the last one.
THEOREM LimiterHolds == Spec => []LimitHolds
<1>1. IInv /\ LimInv => LimitHolds
  <2> SUFFICES ASSUME IInv, LimInv, plan.limit > 0
               PROVE  /\ \A a \in admitted : Admissions(a[1], a[2] - Window + 1, a[2]) <= 2 * plan.limit
                      /\ \A e \in refused : Admissions(e[1], e[2] - Window, e[2]) >= plan.limit
    BY DEF LimitHolds
  <2>1. Bounds(admitted, refused, plan.limit)
    BY DEF LimInv
  <2> QED
    BY <2>1 DEF Bounds, Admissions, Visits, N, V
<1>2. Spec => []LimInv
  BY LimInit, NextLim, AlwaysIInv, PTL DEF Spec
<1> QED
  BY <1>1, <1>2, AlwaysIInv, PTL
-----------------------------------------------------------------------------
\* The statistics. MapThenSumSet adds the buckets up in the order of a CHOOSE, by
\* a function on the subsets of the set; Tally satisfies the same equation, and
\* a smallest subset where the two differ is impossible.
Pick(s) == CHOOSE x \in s : TRUE

SumStep(g, S) == [s \in SUBSET S |-> IF s = {} THEN 0 ELSE buckets[Pick(s)] + g[s \ {Pick(s)}]]

\* The definition of the sum, spelled out.
LEMMA SumIs == ASSUME NEW S PROVE MapThenSumSet(InBucket, S) = (CHOOSE g : g = SumStep(g, S))[S]
BY DEF MapThenSumSet, MapThenFoldSet, InBucket, SumStep, Pick

\* The elements of D that are filed under a key in s.
Under(D, key, s) == {j \in D : key[j] \in s}
Tally(D, key, s) == Cardinality(Under(D, key, s))

\* Tally goes down with its set as the sum does.
LEMMA TallyStep ==
  ASSUME NEW D, IsFiniteSet(D), NEW key, NEW s, s # {},
         \A i \in s : buckets[i] = Tally(D, key, {i})
  PROVE  /\ Pick(s) \in s
         /\ Tally(D, key, s) = buckets[Pick(s)] + Tally(D, key, s \ {Pick(s)})
<1> DEFINE x == Pick(s)
           P == Under(D, key, {x})
           Q == Under(D, key, s \ {x})
<1>1. x \in s
  BY DEF Pick
<1>2. Under(D, key, s) = P \cup Q /\ P \cap Q = {}
  BY <1>1 DEF Under
<1>3. P \in SUBSET D /\ Q \in SUBSET D
  BY DEF Under
<1>4. IsFiniteSet(P) /\ IsFiniteSet(Q)
  BY <1>3, FS_Subset
<1>5. buckets[x] = Cardinality(P)
  BY <1>1 DEF Tally
<1> HIDE DEF P, Q, x
<1>6. Cardinality(P \cup Q) = Cardinality(P) + Cardinality(Q)
  <2>1. Cardinality(P \cup Q) = Cardinality(P) + Cardinality(Q) - Cardinality(P \cap Q)
    BY <1>4, FS_Union
  <2>2. Cardinality(P \cap Q) = 0
    BY <1>2, FS_EmptySet
  <2>3. Cardinality(P) \in Nat /\ Cardinality(Q) \in Nat
    BY <1>4, FS_CardinalityType
  <2> QED
    BY <2>1, <2>2, <2>3
<1>7. Tally(D, key, s) = buckets[x] + Cardinality(Q)
  BY <1>2, <1>5, <1>6 DEF Tally
<1> QED
  BY <1>1, <1>7 DEF Tally, x, Q

LEMMA TallyNone == ASSUME NEW D, NEW key PROVE Tally(D, key, {}) = 0
<1>1. Under(D, key, {}) = {}
  BY DEF Under
<1> QED
  BY <1>1, FS_EmptySet DEF Tally

\* The sum of buckets that hold a tally each is the tally of all their keys.
LEMMA SumTallies ==
  ASSUME NEW D, IsFiniteSet(D), NEW key, NEW S, IsFiniteSet(S),
         \A i \in S : buckets[i] = Tally(D, key, {i})
  PROVE  MapThenSumSet(InBucket, S) = Tally(D, key, S)
<1> DEFINE G == [s \in SUBSET S |-> Tally(D, key, s)]
           g == CHOOSE g : g = SumStep(g, S)
<1>1. G = SumStep(G, S)
  <2>1. ASSUME NEW s \in SUBSET S
        PROVE  G[s] = IF s = {} THEN 0 ELSE buckets[Pick(s)] + G[s \ {Pick(s)}]
    <3>1. CASE s = {}
      BY <3>1, TallyNone
    <3>2. CASE s # {}
      <4>1. s \ {Pick(s)} \in SUBSET S
        OBVIOUS
      <4>2. Tally(D, key, s) = buckets[Pick(s)] + Tally(D, key, s \ {Pick(s)})
        <5>1. \A i \in s : buckets[i] = Tally(D, key, {i})
          OBVIOUS
        <5> QED
          BY <3>2, <5>1, TallyStep
      <4> QED
        BY <3>2, <4>1, <4>2
    <3> QED
      BY <3>1, <3>2
  <2> QED
    BY <2>1 DEF SumStep
<1>2. g = SumStep(g, S)
  <2> HIDE DEF G
  <2> QED
    BY <1>1
<1> HIDE DEF g
<1>3. \A s \in SUBSET S : g[s] = IF s = {} THEN 0 ELSE buckets[Pick(s)] + g[s \ {Pick(s)}]
  BY <1>2 DEF SumStep
<1> DEFINE Bad == {s \in SUBSET S : g[s] # Tally(D, key, s)}
<1>4. ASSUME Bad # {} PROVE FALSE
  <2>1. IsWellFoundedOn(StrictSubsetOrdering(S), SUBSET S)
    BY FS_StrictSubsetOrderingWellFounded, FS_FiniteSubsetsOfFinite
  <2>2. PICK s \in Bad : \A u \in Bad : ~(<<u, s>> \in StrictSubsetOrdering(S))
    <3>1. Bad \subseteq SUBSET S
      OBVIOUS
    <3> HIDE DEF Bad
    <3> QED
      BY <1>4, <2>1, <3>1, WFMin
  <2>3. CASE s = {}
    BY <1>3, <2>3, TallyNone
  <2>4. CASE s # {}
    <3> DEFINE u == s \ {Pick(s)}
    <3>1. Pick(s) \in s /\ Tally(D, key, s) = buckets[Pick(s)] + Tally(D, key, u)
      <4>1. \A i \in s : buckets[i] = Tally(D, key, {i})
        OBVIOUS
      <4> HIDE DEF Bad, G
      <4> QED
        BY <2>4, <4>1, TallyStep
    <3>2. <<u, s>> \in StrictSubsetOrdering(S)
      BY <3>1 DEF StrictSubsetOrdering
    <3>3. g[u] = Tally(D, key, u)
      BY <2>2, <3>2
    <3> QED
      BY <1>3, <2>4, <3>1, <3>3
  <2> QED
    BY <2>3, <2>4
<1>5. g[S] = Tally(D, key, S)
  BY <1>4
<1> QED
  BY <1>5, SumIs DEF g

\* Two hours of one bucket, less than a day apart, are one hour.
LEMMA SameSlot ==
  ASSUME NEW x \in Int, NEW y \in Int, x % Slots = y % Slots, x <= y, y - x < Slots
  PROVE  x = y
<1> DEFINE p == x \div Slots
           q == y \div Slots
           m == x % Slots
           n == y % Slots
<1>1. Slots \in Int /\ Slots > 0
  BY SlotsAssumption DEF SlotsAssumption
<1>2. /\ x = Slots * p + m /\ y = Slots * q + n
      /\ p \in Int /\ q \in Int /\ m \in 0..(Slots - 1)
  BY <1>1
<1>3. m = n
  OBVIOUS
<1> HIDE DEF p, q, m, n
<1>4. y - x = Slots * (q - p) /\ q - p \in Int
  BY <1>1, <1>2, <1>3
<1> DEFINE d == q - p
<1>5. d \in Int /\ y - x = Slots * d
  BY <1>4
<1> HIDE DEF d
<1>6. CASE d >= 1
  <2>1. Slots * d >= Slots
    BY <1>1, <1>5, <1>6
  <2> QED
    BY <1>1, <1>5, <2>1
<1>7. CASE d <= -1
  <2>1. Slots * d <= -1
    BY <1>1, <1>5, <1>7
  <2> QED
    BY <1>5, <2>1
<1>8. CASE d = 0
  BY <1>1, <1>5, <1>8
<1> QED
  BY <1>5, <1>6, <1>7, <1>8

LEMMA SlotIsIdx == ASSUME NEW x \in Int PROVE x % Slots \in Idx
BY SlotsAssumption DEF SlotsAssumption, Idx

\* The requests that bucket i counts: those of the hour that it is for.
Slot(h)  == h % Slots
Filed(i) == {j \in DOMAIN starts : starts[j] = bucketHour[i] /\ Slot(starts[j]) = i}

\* A bucket counts its requests, and is for the latest hour of those that were
\* ever filed in it.
FileInv ==
  /\ buckets \in [Idx -> Nat] /\ bucketHour \in [Idx -> Int]
  /\ \A i \in Idx : bucketHour[i] <= now /\ buckets[i] = Cardinality(Filed(i))
  /\ \A j \in DOMAIN starts :
       LET i == Slot(starts[j]) IN Slot(bucketHour[i]) = i /\ starts[j] <= bucketHour[i]

\* The inductive invariant: besides, no request is a day behind the clock.
DayInv ==
  /\ now >= 0
  /\ FileInv
  /\ \A r \in Conns :
       req[r].pc \in {"bucket", "sum"} => req[r].at <= now /\ now - req[r].at < Slots

\* So the sum is a number of requests: of those whose bucket was not used again.
LEMMA SumIsCount ==
  ASSUME IInv, DayInv, NEW h
  PROVE  Last24h(h) = Cardinality({j \in DOMAIN starts : /\ starts[j] = bucketHour[Slot(starts[j])]
                                                         /\ h - starts[j] < Slots})
<1> DEFINE S   == {i \in Idx : h - bucketHour[i] < Slots}
           D   == {j \in DOMAIN starts : starts[j] = bucketHour[Slot(starts[j])]}
           key == [j \in DOMAIN starts |-> Slot(starts[j])]
<1>1. starts \in Seq(Int) /\ DOMAIN starts = 1..Len(starts) /\ Len(starts) \in Nat
  BY DEF IInv, StatPart, StatTypes
<1>2. IsFiniteSet(DOMAIN starts)
  BY <1>1, FS_Interval
<1>3. D \in SUBSET DOMAIN starts
  OBVIOUS
<1>4. IsFiniteSet(D)
  BY <1>2, <1>3, FS_Subset
<1>5. IsFiniteSet(S)
  <2>1. S \in SUBSET (0..(Slots - 1))
    BY DEF Idx
  <2>2. IsFiniteSet(0..(Slots - 1))
    BY FS_Interval, SlotsAssumption DEF SlotsAssumption
  <2> QED
    BY <2>1, <2>2, FS_Subset
<1>6. \A i \in S : buckets[i] = Tally(D, key, {i})
  <2> SUFFICES ASSUME NEW i \in Idx PROVE buckets[i] = Tally(D, key, {i})
    OBVIOUS
  <2>1. Under(D, key, {i}) = Filed(i)
    BY DEF Under, Filed
  <2> QED
    BY <2>1 DEF Tally, DayInv, FileInv
<1>7. Under(D, key, S) = {j \in DOMAIN starts : /\ starts[j] = bucketHour[Slot(starts[j])]
                                                /\ h - starts[j] < Slots}
  <2>1. \A j \in DOMAIN starts : Slot(starts[j]) \in Idx
    BY <1>1, SlotIsIdx DEF Slot
  <2> QED
    BY <2>1 DEF Under
<1>8. Last24h(h) = MapThenSumSet(InBucket, S)
  BY DEF Last24h
<1> HIDE DEF S, D, key
<1>9. MapThenSumSet(InBucket, S) = Tally(D, key, S)
  BY <1>4, <1>5, <1>6, SumTallies
<1> QED
  BY <1>7, <1>8, <1>9 DEF Tally

\* A request of the last day is one of these.
LEMMA DayFollows == IInv /\ DayInv => DayHolds
<1> SUFFICES ASSUME IInv, DayInv, NEW r \in Conns, At(r, "sum")
             PROVE  /\ now = req[r].at =>
                         Last24h(now) = Cardinality({j \in DOMAIN starts : req[r].at - starts[j] < Slots})
                    /\ Last24h(req[r].at) <= total
  BY DEF DayHolds
<1>1. /\ starts \in Seq(Int) /\ DOMAIN starts = 1..Len(starts) /\ Len(starts) \in Nat
      /\ now \in Int /\ total \in Int
  BY DEF IInv, ReqTypes, StatPart, StatTypes
<1>2. ASSUME NEW j \in DOMAIN starts, now - starts[j] < Slots
      PROVE  starts[j] = bucketHour[Slot(starts[j])]
  <2>1. starts[j] \in Int /\ Slot(starts[j]) \in Idx
    BY <1>1, SlotIsIdx DEF Slot
  <2>2. bucketHour[Slot(starts[j])] \in Int /\ bucketHour[Slot(starts[j])] <= now
    BY <2>1 DEF DayInv, FileInv
  <2>3. bucketHour[Slot(starts[j])] % Slots = starts[j] % Slots /\ starts[j] <= bucketHour[Slot(starts[j])]
    BY DEF DayInv, FileInv, Slot
  <2>4. bucketHour[Slot(starts[j])] - starts[j] < Slots
    BY <1>1, <1>2, <2>1, <2>2, <2>3, SlotsAssumption DEF SlotsAssumption
  <2> QED
    BY <2>1, <2>2, <2>3, <2>4, SameSlot
<1>3. ASSUME now = req[r].at
      PROVE  Last24h(now) = Cardinality({j \in DOMAIN starts : req[r].at - starts[j] < Slots})
  <2>1. {j \in DOMAIN starts : starts[j] = bucketHour[Slot(starts[j])] /\ now - starts[j] < Slots}
        = {j \in DOMAIN starts : req[r].at - starts[j] < Slots}
    BY <1>2, <1>3
  <2> QED
    BY <2>1, SumIsCount
<1>4. Last24h(req[r].at) <= total
  <2> DEFINE C == {j \in DOMAIN starts : starts[j] = bucketHour[Slot(starts[j])] /\ req[r].at - starts[j] < Slots}
  <2>1. C \in SUBSET (1..Len(starts))
    BY <1>1
  <2>2. Last24h(req[r].at) = Cardinality(C)
    BY SumIsCount
  <2> HIDE DEF C
  <2>3. IsFiniteSet(1..Len(starts)) /\ Cardinality(1..Len(starts)) = Len(starts)
    BY <1>1, FS_Interval
  <2>4. Cardinality(C) \in Nat /\ Cardinality(C) <= Len(starts)
    BY <2>1, <2>3, FS_Subset, FS_CardinalityType
  <2>5. Len(starts) <= total
    BY <1>1, Finiteness DEF IInv, StatPart, CountsHold
  <2> QED
    BY <1>1, <2>2, <2>4, <2>5
<1> QED
  BY <1>3, <1>4

LEMMA DayInit == Init => DayInv
<1> SUFFICES ASSUME Init PROVE DayInv
  OBVIOUS
<1>1. now = 1 /\ starts = <<>> /\ (\A r \in Conns : req[r] = NoRequest)
      /\ buckets = [i \in Idx |-> 0] /\ bucketHour = [i \in Idx |-> 0]
  BY DEF Init, RequestsInit, StatsInit
<1>2. \A i \in Idx : Filed(i) = {}
  BY <1>1 DEF Filed
<1>3. Cardinality({}) = 0
  BY FS_EmptySet
<1>4. FileInv
  <2>1. DOMAIN starts = {}
    BY <1>1
  <2>2. ASSUME NEW i \in Idx PROVE bucketHour[i] <= now /\ buckets[i] = Cardinality(Filed(i))
    <3>1. bucketHour[i] = 0 /\ buckets[i] = 0
      BY <1>1
    <3>2. Cardinality(Filed(i)) = 0
      BY <1>2, <1>3
    <3> QED
      BY <1>1, <3>1, <3>2
  <2> QED
    BY <1>1, <2>1, <2>2 DEF FileInv
<1> QED
  BY <1>1, <1>4, NoRequestType DEF DayInv

\* A step that leaves the buckets alone, with what requests read of the clock.
LEMMA DayQuiet ==
  ASSUME DayInv, SlotsAssumption, now \in Int, UNCHANGED <<now, buckets, bucketHour, starts>>,
         \A q \in Conns : \/ req'[q] = req[q]
                          \/ req'[q].pc \notin {"bucket", "sum"}
                          \/ req'[q].at = now
  PROVE  DayInv'
<1>1. \A i \in Idx : Filed(i)' = Filed(i)
  BY DEF Filed
<1>2. \A r \in Conns : req'[r].pc \in {"bucket", "sum"} => req'[r].at <= now /\ now - req'[r].at < Slots
  BY DEF DayInv, FileInv, SlotsAssumption
<1> QED
  BY <1>1, <1>2 DEF DayInv, FileInv

\* The bucket of the request's hour is that of this hour already, or one that no
\* request of the hour is filed in.
LEMMA BucketFiles ==
  ASSUME IInv, DayInv, NEW at \in Int, at <= now, now - at < Slots, UNCHANGED now,
         buckets' = [buckets EXCEPT ![Slot(at)] = IF bucketHour[Slot(at)] = at THEN @ + 1 ELSE 1],
         bucketHour' = [bucketHour EXCEPT ![Slot(at)] = at],
         starts' = Append(starts, at)
  PROVE  (FileInv)'
<1> DEFINE i == Slot(at)
           n == Len(starts)
<1>1. /\ starts \in Seq(Int) /\ DOMAIN starts = 1..n /\ n \in Nat
      /\ now \in Int /\ i \in Idx
  BY SlotIsIdx DEF IInv, ReqTypes, StatPart, StatTypes, Slot
<1> HIDE DEF n
<1>2. /\ DOMAIN starts' = 1..(n + 1) /\ starts'[n + 1] = at
      /\ \A j \in 1..n : starts'[j] = starts[j] /\ starts[j] \in Int
  BY <1>1 DEF n
<1>3. /\ bucketHour'[i] = at /\ \A k \in Idx \ {i} : bucketHour'[k] = bucketHour[k]
      /\ \A k \in Idx \ {i} : buckets'[k] = buckets[k]
      /\ bucketHour' \in [Idx -> Int]
  BY <1>1 DEF DayInv, FileInv
<1>4. /\ bucketHour[i] = at => buckets'[i] = buckets[i] + 1
      /\ bucketHour[i] # at => buckets'[i] = 1
  BY <1>1 DEF DayInv, FileInv
<1>5. /\ bucketHour[i] \in Int /\ buckets[i] \in Nat /\ bucketHour[i] <= now
      /\ buckets[i] = Cardinality(Filed(i))
  BY <1>1 DEF DayInv, FileInv
<1>6. \A k \in Idx :
        Filed(k)' = {j \in 1..(n + 1) : starts'[j] = bucketHour'[k] /\ Slot(starts'[j]) = k}
  BY <1>2 DEF Filed
<1>7. \A k \in Idx :
        Filed(k) = {j \in 1..n : starts[j] = bucketHour[k] /\ Slot(starts[j]) = k}
  BY <1>1 DEF Filed
<1>8. \A j \in 1..n : Slot(starts[j]) \in Idx
  BY <1>2, SlotIsIdx DEF Slot
<1>9. DOMAIN buckets' = Idx /\ buckets' = [k \in Idx |-> buckets'[k]]
  BY DEF DayInv, FileInv
<1>10. \A j \in 1..n : /\ Slot(bucketHour[Slot(starts[j])]) = Slot(starts[j])
                       /\ starts[j] <= bucketHour[Slot(starts[j])]
  BY <1>1 DEF DayInv, FileInv
<1>11. ASSUME NEW j \in 1..n, Slot(starts[j]) = i
       PROVE  starts[j] <= bucketHour[i] /\ bucketHour[i] <= at
  <2>1. Slot(bucketHour[i]) = i /\ starts[j] <= bucketHour[i]
    BY <1>10, <1>11
  <2>2. CASE bucketHour[i] > at
    <3>1. at % Slots = bucketHour[i] % Slots
      BY <2>1 DEF Slot
    <3>2. bucketHour[i] - at < Slots
      BY <1>1, <1>5, SlotsAssumption DEF SlotsAssumption
    <3>3. at = bucketHour[i]
      BY <1>5, <2>2, <3>1, <3>2, SameSlot
    <3> QED
      BY <1>5, <2>2, <3>3
  <2> QED
    BY <1>5, <2>1, <2>2
<1> HIDE DEF i
<1>12. \A k \in Idx \ {i} : Filed(k)' = Filed(k)
  <2> SUFFICES ASSUME NEW k \in Idx \ {i} PROVE Filed(k)' = Filed(k)
    OBVIOUS
  <2>1. Slot(starts'[n + 1]) # k
    BY <1>2 DEF i
  <2>2. \A j \in 1..(n + 1) : j \in 1..n \/ j = n + 1
    BY <1>1
  <2>3. \A j \in 1..n : j \in 1..(n + 1)
    BY <1>1
  <2>4. \A j \in 1..n : starts'[j] = starts[j] /\ bucketHour'[k] = bucketHour[k]
    BY <1>2, <1>3
  <2>5. Filed(k)' \subseteq Filed(k)
    BY <1>6, <1>7, <2>1, <2>2, <2>4
  <2>6. Filed(k) \subseteq Filed(k)'
    BY <1>6, <1>7, <2>3, <2>4
  <2> QED
    BY <2>5, <2>6
<1>13. buckets'[i] = Cardinality(Filed(i)') /\ buckets'[i] \in Nat
  <2>1. Filed(i)' = {j \in 1..n : starts[j] = at /\ Slot(starts[j]) = i} \cup {n + 1}
    <3>1. \A j \in 1..(n + 1) : j \in 1..n \/ j = n + 1
      BY <1>1
    <3>2. \A j \in 1..n : j \in 1..(n + 1)
      BY <1>1
    <3>3. n + 1 \in 1..(n + 1) /\ Slot(starts'[n + 1]) = i
      BY <1>1, <1>2 DEF i
    <3> QED
      BY <1>1, <1>2, <1>3, <1>6, <3>1, <3>2, <3>3
  <2>2. CASE bucketHour[i] = at
    <3>1. Filed(i)' = Filed(i) \cup {n + 1} /\ n + 1 \notin Filed(i)
      BY <1>1, <1>7, <2>1, <2>2
    <3>2. Filed(i) \in SUBSET (1..n)
      BY <1>1, <1>7
    <3>3. IsFiniteSet(Filed(i))
      <4>1. IsFiniteSet(1..n)
        BY <1>1, FS_Interval
      <4> QED
        BY <3>2, <4>1, FS_Subset
    <3>4. Cardinality(Filed(i)') = Cardinality(Filed(i)) + 1
      BY <3>1, <3>3, FS_AddElement
    <3> QED
      BY <1>4, <1>5, <2>2, <3>4
  <2>3. CASE bucketHour[i] # at
    <3>1. ASSUME NEW j \in 1..n, starts[j] = at, Slot(starts[j]) = i PROVE FALSE
      BY <1>5, <1>11, <2>3, <3>1
    <3>2. Filed(i)' = {n + 1}
      BY <2>1, <3>1
    <3>3. Cardinality({n + 1}) = 1
      BY FS_Singleton
    <3> QED
      BY <1>4, <2>3, <3>2, <3>3
  <2> QED
    BY <2>2, <2>3
<1>14. \A k \in Idx : bucketHour'[k] <= now' /\ buckets'[k] = Cardinality(Filed(k)') /\ buckets'[k] \in Nat
  <2>1. ASSUME NEW k \in Idx \ {i}
        PROVE  bucketHour'[k] <= now' /\ buckets'[k] = Cardinality(Filed(k)') /\ buckets'[k] \in Nat
    BY <1>3, <1>12 DEF DayInv, FileInv
  <2>2. bucketHour'[i] <= now'
    BY <1>3
  <2> QED
    BY <1>13, <2>1, <2>2
<1>15. ASSUME NEW j \in 1..(n + 1)
       PROVE  /\ Slot(bucketHour'[Slot(starts'[j])]) = Slot(starts'[j])
              /\ starts'[j] <= bucketHour'[Slot(starts'[j])]
  <2>1. CASE j = n + 1
    <3>1. starts'[j] = at /\ Slot(starts'[j]) = i
      BY <1>2, <2>1 DEF i
    <3> QED
      BY <1>3, <3>1
  <2>2. CASE j \in 1..n /\ Slot(starts[j]) = i
    <3>1. starts[j] <= at
      BY <1>2, <1>5, <1>11, <2>2
    <3>2. starts'[j] = starts[j]
      BY <1>2, <2>2
    <3>3. Slot(at) = i
      BY DEF i
    <3> QED
      BY <1>3, <2>2, <3>1, <3>2, <3>3
  <2>3. CASE j \in 1..n /\ Slot(starts[j]) # i
    <3>1. Slot(starts[j]) \in Idx \ {i} /\ starts'[j] = starts[j]
      BY <1>2, <1>8, <2>3
    <3> QED
      BY <1>3, <1>10, <2>3, <3>1
  <2> QED
    BY <1>1, <2>1, <2>2, <2>3
<1>16. buckets' \in [Idx -> Nat]
  BY <1>9, <1>14
<1> QED
  BY <1>2, <1>3, <1>14, <1>15, <1>16 DEF FileInv

\* A step that leaves what was counted alone.
LEMMA OtherDay ==
  ASSUME IInv, DayInv, NEW r \in Conns, RequestStep(r) \/ NewRequest(r), ~Bucket(r)
  PROVE  DayInv'
<1>1. UNCHANGED <<now, buckets, bucketHour, starts>>
  BY DEF RequestStep, NewRequest, Arrive, Limiting, Locating, Counting, Serving, Begin, Panic, SnapTotal, SnapSum,
         Page, Finish, statsVars
<1>2. now \in Int /\ SlotsAssumption /\ ReqTypes
  BY SlotsAssumption DEF IInv, ReqTypes
<1>3. CASE Begin(r) \/ SnapTotal(r)
  <2>1. req'[r].at = now /\ \A q \in Conns \ {r} : req'[q] = req[q]
    BY <1>2, <1>3 DEF Begin, SnapTotal, ReqTypes, Request
  <2> QED
    BY <1>1, <1>2, <2>1, DayQuiet
<1>4. CASE \E pc \in Places \ {"bucket", "sum"} : Moves(r, pc)
  BY <1>1, <1>2, <1>4, DayQuiet DEF Moves
<1>5. CASE Limiting(r)
  <2>1. BehindLimit(r) \/ Answer(r)
    BY <1>5 DEF Limiting, Allow
  <2> QED
    BY <1>2, <1>4, <2>1, BehindLimitMoves, AnswerMoves DEF Places
<1>6. CASE NewRequest(r)
  <2>1. PICK c \in plan.callers, k \in plan.kinds, id \in 0..ids :
          req' = [req EXCEPT ![r] = [NoRequest EXCEPT !.pc = Outermost, !.caller = c,
                                                      !.kind = k, !.cookie = id]]
    BY <1>6 DEF NewRequest, Arrive
  <2>2. req'[r].pc = Outermost /\ \A q \in Conns \ {r} : req'[q] = req[q]
    BY <1>2, <2>1 DEF ReqTypes, NoRequest
  <2>3. Outermost \notin {"bucket", "sum"}
    BY DEF Outermost
  <2> QED
    BY <1>1, <1>2, <2>2, <2>3, DayQuiet
<1>7. CASE Locating(r) \/ Counting(r) \/ Serving(r)
  BY <1>3, <1>4, <1>7, InnerMoves
<1> QED
  BY <1>5, <1>6, <1>7 DEF RequestStep

LEMMA BucketDay == ASSUME IInv, DayInv, NEW r \in Conns, Bucket(r), UNCHANGED now
                   PROVE  DayInv'
<1>1. req[r].at \in Int /\ ReqTypes
  BY DEF IInv, ReqTypes, Request
<1>2. req[r].at <= now /\ now - req[r].at < Slots
  BY DEF DayInv, Bucket, At
<1>3. FileInv'
  <2> DEFINE at == req[r].at
  <2>1. /\ buckets' = [buckets EXCEPT ![Slot(at)] = IF bucketHour[Slot(at)] = at THEN @ + 1 ELSE 1]
        /\ bucketHour' = [bucketHour EXCEPT ![Slot(at)] = at]
        /\ starts' = Append(starts, at)
    BY DEF Bucket, Slot
  <2> QED
    BY <1>1, <1>2, <2>1, BucketFiles
<1>4. Moves(r, "handler")
  BY <1>1, GoMoves DEF Bucket, Places
<1> QED
  BY <1>3, <1>4 DEF DayInv, Moves

\* The hour changes: no request falls a day behind.
LEMMA TickDay == ASSUME IInv, DayInv, Tick PROVE DayInv'
<1>1. UNCHANGED <<req, buckets, bucketHour, starts>> /\ now' = now + 1 /\ now \in Int
  BY DEF Tick, statsVars, IInv, ReqTypes
<1>2. \A r \in Conns : req[r].pc \in {"bucket", "sum"} => now + 1 - req[r].at < Slots
  BY DEF Tick
<1>3. \A r \in Conns : req[r].at \in Int
  BY DEF IInv, ReqTypes, Request
<1>4. FileInv'
  <2>1. \A i \in Idx : Filed(i)' = Filed(i)
    BY <1>1 DEF Filed
  <2>2. \A i \in Idx : bucketHour[i] <= now + 1
    BY <1>1 DEF DayInv, FileInv
  <2> QED
    BY <1>1, <2>1, <2>2 DEF DayInv, FileInv
<1> QED
  BY <1>1, <1>2, <1>3, <1>4 DEF DayInv

LEMMA DiesDay == ASSUME DayInv, now \in Int, Dies PROVE DayInv'
<1>1. /\ now' = now /\ starts' = <<>> /\ (\A r \in Conns : req'[r] = NoRequest)
      /\ buckets' = [i \in Idx |-> 0] /\ bucketHour' = [i \in Idx |-> 0]
  BY DEF Dies, StatsRestart
<1>2. \A i \in Idx : Filed(i)' = {}
  BY <1>1 DEF Filed
<1>3. Cardinality({}) = 0
  BY FS_EmptySet
<1>4. FileInv'
  <2>1. DOMAIN starts' = {}
    BY <1>1
  <2>2. \A i \in Idx : bucketHour'[i] <= now' /\ buckets'[i] = Cardinality(Filed(i)')
    BY <1>1, <1>2, <1>3 DEF DayInv
  <2> QED
    BY <1>1, <2>1, <2>2 DEF FileInv
<1> QED
  BY <1>1, <1>4, NoRequestType DEF DayInv

LEMMA NextDay == IInv /\ DayInv /\ [Next]_<<plan, vars>> => DayInv'
<1> SUFFICES ASSUME IInv, DayInv, [Next]_<<plan, vars>> PROVE DayInv'
  OBVIOUS
<1>1. now \in Int /\ SlotsAssumption
  BY SlotsAssumption DEF IInv, ReqTypes
<1>2. CASE UNCHANGED <<req, now, statsVars>>
  BY <1>1, <1>2, DayQuiet DEF statsVars
<1>3. CASE \E r \in Conns : NewRequest(r) \/ RequestStep(r)
  <2> PICK r \in Conns : NewRequest(r) \/ RequestStep(r)
    BY <1>3
  <2>1. CASE Bucket(r)
    <3>1. UNCHANGED now
      BY DEF NewRequest, Arrive, RequestStep, Limiting, Locating, Counting, Serving
    <3> QED
      BY <2>1, <3>1, BucketDay
  <2> QED
    BY <2>1, OtherDay
<1>4. CASE Dies
  BY <1>1, <1>4, DiesDay
<1>5. CASE (\E u \in Updaters : Updating(u)) \/ Commanding \/ Sweep
  BY <1>2, <1>5 DEF Updating, Commanding, Sweep, reqVars
<1>6. CASE UNCHANGED <<plan, vars>>
  BY <1>2, <1>6 DEF vars, reqVars
<1> QED
  BY <1>3, <1>4, <1>5, <1>6, TickDay DEF Next

\* The health page's requests_24h, statsCollector.snapshot's sum of the buckets
\* that are not a day old, is the number of requests begun in the last day unless
\* the hour changes while it is made, and never above the total that it is shown
\* with: for every number of buckets, though they go round and requests reach
\* them late.
THEOREM DayIsCounted == Spec => []DayHolds
<1>1. Spec => []DayInv
  BY DayInit, NextDay, AlwaysIInv, PTL DEF Spec
<1> QED
  BY <1>1, DayFollows, AlwaysIInv, PTL
=============================================================================
