---------------------------- MODULE OfficialUrls ----------------------------
(***************************************************************************)
(* pkg/officialurls: which channel types have an official upstream, which  *)
(* host belongs to it, and how a request of a given relay format is        *)
(* authenticated and routed there.  The tables are compiled into the       *)
(* enclave; nothing in this module changes at run time.                    *)
(*                                                                         *)
(* A URL of the table is named by the lowest channel type that carries it. *)
(* A host name is reduced to what the suffix rules tell apart: the         *)
(* provider zone it ends with and how the rest is joined to that zone.  A  *)
(* base URL is a host name with a scheme and a port.                       *)
(***************************************************************************)
EXTENDS Integers

ChannelTypeCount == 60

NoURL == -1

\* Types whose entry in the table is empty.
WithoutDefault == {0, 3, 8, 11, 18, 28, 29, 30, 32, 33, 36, 41, 47, 58, 59}

\* Types whose entry repeats the entry of a lower type.
SameURLAs == [t \in {21, 26, 54, 55} |->
                CASE t = 21 -> 10 [] t = 26 -> 16 [] t = 54 -> 45 [] t = 55 -> 1]

BaseURLs == [t \in 0 .. ChannelTypeCount - 1 |->
               IF t \in WithoutDefault THEN NoURL
               ELSE IF t \in DOMAIN SameURLAs THEN SameURLAs[t]
               ELSE t]

For(t) == IF t \in DOMAIN BaseURLs THEN BaseURLs[t] ELSE NoURL

HasOfficial(t) == For(t) # NoURL

\* Ollama's entry is http://localhost:11434; all others are https URLs.
SchemeOf(url) == IF url = 4 THEN "http" ELSE "https"

-----------------------------------------------------------------------------
(* Hosts *)

Zone == {"openai.azure.com", "cognitiveservices.azure.com", "amazonaws.com",
         "aiplatform.googleapis.com", "azuredatabricks.net",
         "cloud.databricks.com", "gcp.databricks.com", "elsewhere"}

\* How a host name continues to the left of its zone: not at all, after a
\* dot, after a dot with bedrock-runtime in front, or glued to it with a
\* hyphen (which is another registered name, except for Vertex).
Joint == {"apex", "dot", "bedrock-runtime", "hyphen"}

Host == [zone : Zone, joint : Joint]

\* normalizeHost yields "" for an empty or an unparseable URL.
NoHost == [zone |-> "none", joint |-> "apex"]

\* other: a bare host, or a scheme that no HTTP client speaks.  An explicit
\* port, userinfo or path of the URL are all in "explicit".
BaseURL == [scheme : {"https", "http", "other"}, port : {"default", "explicit"}, host : Host]

NoBase == [scheme |-> "other", port |-> "default", host |-> NoHost]

\* Of a base URL the host rules look at the host name alone.
NormalizeHost(base) == base.host

HasOfficialHostRule(t) == t \in {3, 33, 41, 59}

UnderZone(h) == h.joint \in {"dot", "bedrock-runtime"}

IsOfficialHostSuffix(t, h) ==
  /\ h # NoHost
  /\ \/ /\ t = 3
        /\ h.zone \in {"openai.azure.com", "cognitiveservices.azure.com"}
        /\ UnderZone(h)
     \/ /\ t = 33
        /\ h.zone = "amazonaws.com"
        /\ h.joint = "bedrock-runtime"
     \/ /\ t = 41
        /\ h.zone = "aiplatform.googleapis.com"
        /\ h.joint \in {"apex", "hyphen"}
     \/ /\ t = 59
        /\ h.zone \in {"azuredatabricks.net", "cloud.databricks.com", "gcp.databricks.com"}
        /\ UnderZone(h)

-----------------------------------------------------------------------------
(* Profiles *)

Header == {"Authorization", "x-api-key", "x-goog-api-key", "none"}

Rewrite == {"verbatim", "/v1beta/openai", "/anthropic"}

Profiled == {1, 14, 20, 24, 33, 59}

SuffixHost(t) == t = 59

SupportsOfficial(t) == (HasOfficial(t) \/ HasOfficialHostRule(t)) /\ t \in Profiled

\* Formats a profile serves: all of them unless it declares routes.
Serves(t, format) ==
  CASE t = 24 -> format \in {"openai", "gemini"}
    [] t = 59 -> format \in {"openai", "claude"}
    [] OTHER  -> t \in Profiled

AuthHeader(t, format) ==
  CASE t = 14                        -> "x-api-key"
    [] t = 24 /\ format = "gemini"   -> "x-goog-api-key"
    [] t = 33                        -> "none"
    [] OTHER                         -> "Authorization"

\* geminiOpenAIPathRewrite leaves a path outside /v1/ alone.
PathRewrite(t, format, underV1) ==
  CASE t = 24 /\ format = "openai" /\ underV1 -> "/v1beta/openai"
    [] t = 59 /\ format = "claude"            -> "/anthropic"
    [] OTHER                                  -> "verbatim"

ResolveRoute(t, format, underV1) ==
  [ok      |-> Serves(t, format),
   header  |-> AuthHeader(t, format),
   rewrite |-> PathRewrite(t, format, underV1)]
=============================================================================
