------------------------------ MODULE WsgiCall ------------------------------
(***************************************************************************)
(* A WSGI connection as its application sees it: request after request,    *)
(* wsgi_call_application builds the environ, calls the application with a  *)
(* start_response, runs through the iterable it returns, and writes one    *)
(* response, which on_write's cleaning up ends.  Application code runs, and*)
(* may call start_response, up to the iterable's last step.                *)
(*                                                                         *)
(* When on_write comes and what it then reads is Connection.  Header names *)
(* are sequences of byte values; a text is a sequence of tokens.           *)
(***************************************************************************)
EXTENDS Integers, Sequences, FiniteSets, SequencesExt

CONSTANTS
  Requests,            \* the requests: sequences of header fields
  MaxRequests,         \* bound: requests on the connection
  MaxStarts,           \* bound: start_response calls of one request
  MaxChunks,           \* bound: chunks of one body
  Chunks,              \* what the iterable may yield
  Lists,               \* what start_response may be given as headers
  RESP_HDR_SIZE,
  hdr_names, HDR_CACHE_MAX_LEN,                     \* the cache's table
  ContentTypeName, ContentLengthName, CookieName    \* in lower case

\* A response header: a field name, and what StartResponse_call and the
\* formatter see in it.
Kinds == {"plain", "long", "content-length", "connection", "malformed", "control", "not a list"}
Statuses == {"200 OK", "500 Error page", "control"}

ASSUME WsgiAssumption ==
  /\ MaxRequests \in Nat /\ MaxStarts \in Nat /\ MaxChunks \in Nat
  /\ RESP_HDR_SIZE \in Nat /\ HDR_CACHE_MAX_LEN \in Nat
  /\ Requests \subseteq Seq([name : Seq(0..255), value : STRING])
  /\ CookieName \in Seq(97..122)
  /\ Lists \subseteq Seq(Kinds) /\ Chunks \subseteq {"bytes", "empty", "not bytes"}
  \* The names are in lower case, and hdr_cache_init refuses any other table.
  /\ hdr_names \in Seq(Seq(0..255 \ 65..90))
  /\ \A i \in DOMAIN hdr_names :
       /\ Len(hdr_names[i]) \in 1..HDR_CACHE_MAX_LEN
       /\ i > 1 => Len(hdr_names[i]) >= Len(hdr_names[i - 1])

VARIABLES
  at,       \* "idle", "built", "app", "iterating", "writing" or "closed"
  keep,     \* keep_alive
  req,      \* how many requests were dispatched
  environ,  \* the environ, until the application is called, and its request
  resp,     \* resp_status and resp_pyheaders
  list,     \* the chunks of the body so far
  starts,   \* start_response calls of this request
  said,     \* history: what this request's last successful one was given
  sent,     \* history: how many responses were written
  last      \* history: the last of them

vars == <<at, keep, req, environ, resp, list, starts, said, sent, last>>

None == [status |-> "none", headers |-> <<>>]
Nothing == [status |-> "none", headers |-> <<>>, body |-> <<>>, length |-> 0, close |-> {}]
NoEnviron == [of |-> <<>>, has |-> <<>>]

Init ==
  /\ at = "idle" /\ keep = TRUE /\ req = 0 /\ environ = NoEnviron /\ resp = None
  /\ list = <<>> /\ starts = 0 /\ said = None
  /\ sent = 0 /\ last = Nothing

-----------------------------------------------------------------------------
(* The header cache *)

IsUpper(b) == b \in 65..90
IsLower(b) == b \in 97..122
FlipBit5(b) == IF (b \div 32) % 2 = 1 THEN b - 32 ELSE b + 32

hdr_eq_ci(s, lower) ==
  \A i \in DOMAIN lower : s[i] = lower[i] \/ (FlipBit5(s[i]) = lower[i] /\ IsLower(lower[i]))

\* hdr_cache_init: the first entry that is at least so long.
hdr_offset(len) == Cardinality({i \in DOMAIN hdr_names : Len(hdr_names[i]) < len}) + 1

\* The first byte is a filter, the rest is compared.
Matches(name, e) ==
  /\ (IF IsUpper(name[1]) THEN name[1] + 32 ELSE name[1]) = e[1]
  /\ hdr_eq_ci(Tail(name), Tail(e))

\* The index of the name's entry, or 0.
hdr_cache_lookup(name) ==
  LET slice == hdr_offset(Len(name))..(hdr_offset(Len(name) + 1) - 1)
      found == {i \in slice : Matches(name, hdr_names[i])}
  IN IF Len(name) \notin 1..HDR_CACHE_MAX_LEN \/ found = {} THEN 0
     ELSE CHOOSE i \in found : \A j \in found : i <= j

\* "HTTP_" and the name in upper case, with '_' for '-'.
wsgi_header_key(name) ==
  <<"HTTP_", [i \in DOMAIN name |-> IF IsLower(name[i]) THEN name[i] - 32
                                    ELSE IF name[i] = 45 THEN 95 ELSE name[i]]>>

HeaderKey(name) ==
  LET e == hdr_cache_lookup(name)
  IN IF e # 0 THEN wsgi_header_key(hdr_names[e]) ELSE wsgi_header_key(name)

-----------------------------------------------------------------------------
(* The environ: what the request's header fields add to the template *)

\* strncasecmp, lengths being equal.
IsNamed(name, lower) ==
  Len(name) = Len(lower) /\ [i \in DOMAIN name |-> IF IsUpper(name[i]) THEN name[i] + 32
                                                                       ELSE name[i]] = lower

Put(f, key, value) == [k \in DOMAIN f \cup {key} |-> IF k = key THEN value ELSE f[k]]

\* Mutant: the last of several fields of a name wins.
AddField_Last(env, h) ==
  Put(env, IF IsNamed(h.name, ContentTypeName) THEN <<"CONTENT_TYPE", <<>>>>
           ELSE IF IsNamed(h.name, ContentLengthName) THEN <<"CONTENT_LENGTH", <<>>>>
           ELSE HeaderKey(h.name), <<h.value>>)

\* Content-Type and Content-Length are set, any other is joined to what there is.
AddField(env, h) ==
  LET key == HeaderKey(h.name)
      sep == IF IsNamed(h.name, CookieName) THEN "; " ELSE ", "
  IN IF IsNamed(h.name, ContentTypeName) THEN Put(env, <<"CONTENT_TYPE", <<>>>>, <<h.value>>)
     ELSE IF IsNamed(h.name, ContentLengthName) THEN Put(env, <<"CONTENT_LENGTH", <<>>>>, <<h.value>>)
     ELSE IF key \in DOMAIN env THEN Put(env, key, env[key] \o <<sep, h.value>>)
     ELSE Put(env, key, <<h.value>>)

\* The environ after the first i fields.
Environs(fields) ==
  LET env[i \in 0..Len(fields)] == IF i = 0 THEN <<>> ELSE AddField(env[i - 1], fields[i])
  IN env

build_environ(fields) == Environs(fields)[Len(fields)]

-----------------------------------------------------------------------------
(* start_response and the response's header *)

\* StartResponse_call's checks of its arguments, before anything is stored.
Acceptable(status, headers) ==
  /\ status # "control"
  /\ ToSet(headers) \cap {"not a list", "malformed", "control"} = {}

\* With exc_info a second call is refused.
Accepts(status, headers, excinfo) ==
  ~(excinfo /\ resp.status # "none") /\ Acceptable(status, headers)

\* What is stored after the call; a refused one changes nothing.
StartResponse_call(status, headers, excinfo) ==
  IF Accepts(status, headers, excinfo) THEN [status |-> status, headers |-> headers] ELSE resp

HasHeader(kind) == kind \in ToSet(resp.headers)

\* Whether the header fits in resp_hdr: a unit for the status line, for each of
\* the application's lines and for each line added; "long" is what cannot fit.
HeaderFits ==
  LET auto == Cardinality({k \in {"content-length", "connection"} : ~HasHeader(k)})
  IN ~HasHeader("long") /\ 1 + Len(resp.headers) + auto <= RESP_HDR_SIZE

\* Content-Length and Connection are the application's, or the server's own.
format_response_headers(body) ==
  [status |-> resp.status, headers |-> resp.headers, body |-> body,
   length |-> IF HasHeader("content-length") THEN -1 ELSE Cardinality(DOMAIN body),
   close  |-> IF HasHeader("connection") THEN {} ELSE {~keep}]

Error500 ==
  [status |-> "500", headers |-> <<>>, body |-> <<"Internal Server Error">>, length |-> 1,
   close |-> {TRUE}]

\* write_response; send_500 gives up the connection with it.
Write(r, stays) ==
  /\ at' = "writing"
  /\ keep' = stays
  /\ sent' = sent + 1
  /\ last' = r

send_500 == Write(Error500, FALSE)

-----------------------------------------------------------------------------
(* wsgi_call_application *)

\* A request, its keep_alive as http_dispatch found it; build_environ may fail.
Dispatch ==
  /\ at = "idle" /\ req < MaxRequests
  /\ req' = req + 1
  /\ list' = <<>> /\ starts' = 0 /\ said' = None
  /\ \E fields \in Requests, k \in BOOLEAN :
       /\ at' = "built" /\ keep' = k
       /\ environ' = [of |-> fields, has |-> build_environ(fields)]
  /\ UNCHANGED <<resp, sent, last>>

\* Mutant: the early return forgets to answer.
DispatchFails_Silent ==
  /\ at = "built"
  /\ at' = "unanswered"
  /\ environ' = NoEnviron
  /\ UNCHANGED <<keep, req, resp, list, starts, said, sent, last>>

\* No environ, or no start_response object, for want of memory.
DispatchFails ==
  /\ at = "built"
  /\ send_500
  /\ environ' = NoEnviron
  /\ UNCHANGED <<req, resp, list, starts, said>>

CallApp ==
  /\ at = "built"
  /\ at' = "app"
  /\ environ' = NoEnviron
  /\ UNCHANGED <<keep, req, resp, list, starts, said, sent, last>>

\* The application calls start_response; refused, it gets an exception and
\* may catch it.
StartResponse ==
  /\ at \in {"app", "iterating"} /\ starts < MaxStarts
  /\ starts' = starts + 1
  /\ \E status \in Statuses, headers \in Lists, excinfo \in BOOLEAN :
       /\ resp' = StartResponse_call(status, headers, excinfo)
       /\ said' = IF Accepts(status, headers, excinfo)
                    THEN [status |-> status, headers |-> headers] ELSE said
  /\ UNCHANGED <<at, keep, req, environ, list, sent, last>>

\* It returns something to iterate over.
AppReturns ==
  /\ at = "app"
  /\ at' = "iterating"
  /\ UNCHANGED <<keep, req, environ, resp, list, starts, said, sent, last>>

\* The application or its iterable raises, or what it returned is no iterable.
AppRaises ==
  /\ at \in {"app", "iterating"}
  /\ send_500
  /\ UNCHANGED <<req, environ, resp, list, starts, said>>

\* One step of collect_body.
Yield ==
  /\ at = "iterating" /\ Len(list) < MaxChunks
  /\ \E chunk \in Chunks : list' = Append(list, chunk)
  /\ UNCHANGED <<at, keep, req, environ, resp, starts, said, sent, last>>

\* The body that collect_body joins: the chunks at their places, of which an
\* empty one adds nothing.
collect_body == Restrict(list, {i \in DOMAIN list : list[i] # "empty"})

\* A chunk that is not bytes is found only now, as is a missing start_response.
IterationEnds ==
  /\ at = "iterating"
  /\ IF "not bytes" \notin ToSet(list) /\ resp.status # "none" /\ HeaderFits
       THEN Write(format_response_headers(collect_body), keep)
       ELSE send_500
  /\ UNCHANGED <<req, environ, resp, list, starts, said>>

\* Mutant: the status and headers outlive their response.
Cleared_Not == resp

\* Py_CLEAR of resp_status and resp_pyheaders.
Cleared == None

\* on_write: the connection goes on to its next request or closes.
OnWrite ==
  /\ at = "writing"
  /\ resp' = Cleared
  /\ \E failed \in BOOLEAN : at' = IF failed \/ ~keep THEN "closed" ELSE "idle"
  /\ list' = <<>> /\ starts' = 0 /\ said' = None
  /\ UNCHANGED <<keep, req, environ, sent, last>>

Next ==
  \/ Dispatch \/ DispatchFails \/ CallApp \/ StartResponse \/ AppReturns \/ AppRaises
  \/ Yield \/ IterationEnds \/ OnWrite

Spec == Init /\ [][Next]_vars

\* The worker runs what it has begun, uv_write calls back, and the application
\* returns and comes to the end of its iterable.
FairSpec ==
  /\ Spec
  /\ WF_vars(DispatchFails \/ CallApp) /\ WF_vars(AppReturns) /\ WF_vars(IterationEnds)
  /\ WF_vars(OnWrite)

-----------------------------------------------------------------------------
(* Properties *)

\* Content-Type and Content-Length have keys of their own.
Special(h) == IsNamed(h.name, ContentTypeName) \/ IsNamed(h.name, ContentLengthName)

\* The places of the other fields, and of those that go under the key.
Ordinary(fields) == {i \in DOMAIN fields : ~Special(fields[i])}
Under(fields, key) == {i \in Ordinary(fields) : wsgi_header_key(fields[i].name) = key}

\* The text is the values of the fields at the places I, in the order they came,
\* with sep between any two.
Joined(text, fields, I, sep) ==
  /\ Len(text) = 2 * Cardinality(I) - 1
  /\ \A i \in I : LET before == Cardinality({j \in I : j < i}) IN
                  /\ text[2 * before + 1] = fields[i].value
                  /\ before > 0 => text[2 * before] = sep

(***************************************************************************)
(* What build_environ's one pass over cached and uncached names comes to:  *)
(* every field but Content-Type and Content-Length shows under its key,    *)
(* and fields whose names differ only in case, or in '-' for '_', are      *)
(* joined in their order, whichever of them the cache knows; and the cache *)
(* knows a name in every spelling of it.                                   *)
(***************************************************************************)
EnvironIsComplete ==
  at = "built" =>
    LET fields == environ.of
        keys == {wsgi_header_key(fields[i].name) : i \in Ordinary(fields)}
    IN /\ {k \in DOMAIN environ.has : k[1] = "HTTP_"} = keys
       /\ \A k \in keys : Joined(environ.has[k], fields, Under(fields, k),
                                IF k = wsgi_header_key(CookieName) THEN "; " ELSE ", ")
       /\ \A h \in ToSet(fields) :
            (hdr_cache_lookup(h.name) # 0) <=> \E e \in ToSet(hdr_names) : IsNamed(h.name, e)

(***************************************************************************)
(* Every response is the server's own 500, or carries exactly what its own *)
(* request said: status and headers of the last start_response of that     *)
(* request that was accepted, all the chunks it yielded, in order, with    *)
(* their length, and the truth about whether the connection stays.  One    *)
(* response answers one request, and none follows a 500.                   *)
(***************************************************************************)
OwnAnswer ==
  /\ sent = IF at \in {"built", "app", "iterating"} THEN req - 1 ELSE req
  /\ last.status = "500" => at \in {"writing", "closed"}
  /\ (at = "writing" /\ last.status # "500") =>
       /\ said.status # "none" /\ last.status = said.status /\ last.headers = said.headers
       /\ DOMAIN last.body = {i \in DOMAIN list : list[i] # "empty"}
       /\ \A i \in DOMAIN last.body : last.body[i] = list[i] /\ last.body[i] = "bytes"
       /\ last.length \in {-1, Cardinality(DOMAIN last.body)}
       /\ last.close \subseteq {~keep}

\* A request that is dispatched gets one response, whatever its application
\* does short of not returning, and its connection goes on or is closed.
Answered == (at = "built") ~> (at \in {"idle", "closed"} /\ sent = req)

(***************************************************************************)
(* What StartResponse_call's comment says of exc_info: the call fails if   *)
(* the headers have already been sent, and so an acceptable one, before    *)
(* anything was sent, is stored.                                           *)
(***************************************************************************)
RefusedOnlyIfSent ==
  (at \in {"app", "iterating"} /\ sent < req) =>
    \A status \in Statuses, headers \in Lists :
      Acceptable(status, headers) => Accepts(status, headers, TRUE)

=============================================================================
