----------------------------- MODULE MCBedrock -----------------------------
(* A small instance of Bedrock. *)
EXTENDS Bedrock

CONSTANTS malformed, none

East == "us-east-1"
West == "us-west-2"
Regions == {East, West}
ReservedParts == {"arn:aws/nova"}

EmptyName == <<"">>
Alias == <<"alias">>
Plain == <<"nova">>
Pinned == <<"nova", West>>

\* A suffix of another shape, no model before the suffix, two suffixes, and a
\* model whose name has a slash.
Odd == {<<"nova", "mars">>, <<"", West>>, <<"nova", East, West>>, <<"arn:aws/nova", West>>}

Mapped == {Alias, Plain, Pinned}
Names == Mapped \cup Odd

\* Every mapping of three names among themselves or to the empty name, and one
\* hop to each odd name.
Mappings ==
  UNION {[D -> Mapped \cup {EmptyName}] : D \in SUBSET Mapped}
    \cup {[n \in {Alias} |-> o] : o \in Odd}

-----------------------------------------------------------------------------
(* Keys and requests *)

Root == <<"AK", "SK", East>>
Session == <<"ASK", "SSK", East, "token">>

IssuedKeys == {[access |-> "AK", secret |-> "SK", token |-> ""],
               [access |-> "ASK", secret |-> "SSK", token |-> "token"]}

\* Besides the two: a session key without its token, a secret that is not the
\* issued one, and four that do not parse.
Keys == {Root, Session, <<"ASK", "SSK", West>>, <<"AK", "old", East>>,
         <<"AK", "SK">>, <<"AK", "", East>>, <<"AK", "SK", "mars">>,
         <<"AK", "SK", East, "token", "more">>}

Say(role, form, parts) == [role |-> role, content |-> [form |-> form, parts |-> parts]]

User == Say("user", "string", <<"hi">>)
System == Say("system", "string", <<"be brief">>)
Assistant == Say("assistant", "parts", <<"well", "", "then">>)

Chat == [stream |-> FALSE, decodes |-> TRUE, messages |-> <<User>>, maxTokens |-> {},
         sampling |-> FALSE, stop |-> [form |-> "absent", sequences |-> <<>>]]

Conversations ==
  {<<>>, <<System>>, <<System, User, Assistant, User>>, <<User, Say("developer", "string", <<>>), User>>,
   <<User, Say("tool", "string", <<"42">>), User>>, <<Say("user", "parts", <<"">>)>>,
   <<User, Say("user", "other", <<>>)>>}

Chats ==
  {[Chat EXCEPT !.messages = c] : c \in Conversations}
    \cup {[Chat EXCEPT !.maxTokens = {n}] : n \in {-1, 0, MaxTokensLimit, MaxTokensLimit + 1}}
    \cup {[Chat EXCEPT !.stop = [form |-> f, sequences |-> <<"">>]] : f \in {"string", "array", "other"}}
    \cup {[Chat EXCEPT !.stream = TRUE], [Chat EXCEPT !.decodes = FALSE]}

Inputs == {[key |-> k, chat |-> Chat] : k \in Keys} \cup {[key |-> Root, chat |-> c] : c \in Chats}

-----------------------------------------------------------------------------
(* Answers *)

Told(reason, taken, out, total) ==
  [decodes |-> TRUE, blocks |-> <<"a", "b">>, reason |-> reason,
   usage |-> [input |-> taken, output |-> out, total |-> total]]

Replies == {Told("end_turn", 3, 2, 5), Told("max_tokens", 3, 2, 0), Told("end_turn", 3, 2, 6),
            Told("maxTokens", 0, 0, 0), [Told("end_turn", 0, 0, 0) EXCEPT !.decodes = FALSE]}
=============================================================================
