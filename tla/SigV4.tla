------------------------------- MODULE SigV4 -------------------------------
(***************************************************************************)
(* pkg/officialurls/sigv4.go: the signature SignSigV4 puts on a request,   *)
(* and the check AWS makes of it from what arrives.  Hashes and HMACs are  *)
(* injective, so a signature is the record of what went into it; a percent *)
(* encoding is counted, not carried out.                                   *)
(***************************************************************************)
EXTENDS Naturals

CONSTANT Issued  \* external: the keys AWS has issued, [access, secret, token]

\* A header that is not set, a session token that is not given.
Absent == ""

\* A path is /model/<id>/invoke, its id percent-encoded so many times.
Path(id, times) == [id |-> id, times |-> times]

\* awsURIEncode of each segment of the decoded path.
CanonicalURIPath(request) == Path(request.path.id, 1)

SignedHeaders(headers) == {n \in DOMAIN headers : headers[n] # Absent} \cup {"host"}

CanonicalHeaders(names, headers, host) ==
  [n \in names |-> IF n = "host" THEN host ELSE headers[n]]

\* stringToSign under the key derived from secret and scope.
Signature(secret, scope, date, path, headers, payload) ==
  [secret |-> secret, scope |-> scope, date |-> date, method |-> "POST",
   path |-> path, headers |-> headers, payload |-> payload]

Scope(date, region, service) == [date |-> date, region |-> region, service |-> service]

SetSigningHeaders(headers, credentials, date) ==
  [headers EXCEPT !["x-amz-date"] = date,
                  !["x-amz-security-token"] = credentials.token]

\* The request as it leaves: the authorization and the payload's digest are
\* added after signing and are not signed.
SignSigV4(request, credentials, region, service, date) ==
  LET headers == SetSigningHeaders(request.headers, credentials, date)
      scope == Scope(date, region, service)
  IN  [host |-> request.host, path |-> request.path, body |-> request.body,
       headers |-> headers, digest |-> request.body,
       authorization |->
         [access |-> credentials.access, scope |-> scope, signed |-> SignedHeaders(headers),
          signature |-> Signature(credentials.secret, scope, date, CanonicalURIPath(request),
                          CanonicalHeaders(SignedHeaders(headers), headers, request.host),
                          request.body)]]

\* External.  The endpoint of a region and service takes a request whose
\* signature it can recompute from what arrived, for a key it has issued.
\* It encodes the path once more, as it arrived.
AWSAccepts(request, region, service) ==
  LET a == request.authorization
      date == request.headers["x-amz-date"]
  IN  /\ a.scope = Scope(date, region, service)
      /\ request.digest = request.body
      /\ \E key \in Issued :
           /\ key.access = a.access
           /\ key.token = request.headers["x-amz-security-token"]
           /\ a.signature =
                Signature(key.secret, a.scope, date,
                  Path(request.path.id, request.path.times + 1),
                  CanonicalHeaders(a.signed, request.headers, request.host), request.body)
      \* What a request must have signed.
      /\ {"host", "x-amz-date"} \subseteq a.signed
      /\ request.headers["x-amz-security-token"] # Absent => "x-amz-security-token" \in a.signed
=============================================================================
