---------------------------- MODULE AlertDelivery ----------------------------
(***************************************************************************)
(* How AlertManager (common/utils/alert-manager.ts) sends an alert: one    *)
(* channel after the other, in the order AlertService configures them,     *)
(* Telegram with two formatted requests, two plain ones and two by plain   *)
(* HTTP.  Nobody waits for it, so the sending of several alerts overlaps.  *)
(* What a request does is Telegram's part: it refuses text that breaks the *)
(* markup asked for, and a request may be lost, or its answer.             *)
(***************************************************************************)
EXTENDS Integers, Sequences

CONSTANTS
  Channels,    \* the enabled channels in their order: "webhook", "telegram", "dashboard"
  TopicId      \* the topic configured for the chain, or General if there is none

\* initializeAlertManager() pushes a channel of each kind at most once; here
\* Telegram is configured.
ASSUME DeliveryAssumption ==
  /\ Channels \in Seq({"webhook", "telegram", "dashboard"})
  /\ \E i \in DOMAIN Channels : Channels[i] = "telegram"
  /\ \A i, j \in DOMAIN Channels : Channels[i] = Channels[j] => i = j

VARIABLE sendings  \* alert -> [text, channel, request, readable, arrived], its sending

\* where messages without a topic go
General == "general"

\* What an alert's text breaks, if anything: error messages of nodes are in it.
Text == {"plain", "breaks Markdown", "breaks HTML"}

\* a sending: the channel in turn, Telegram's request in turn, how many of them
\* Telegram could have accepted (history), and where it arrived (history)
NewSending(text) ==
  [text |-> text, channel |-> 1, request |-> 1, readable |-> 0, arrived |-> {}]

DeliveryInit == sendings = <<>>

-----------------------------------------------------------------------------
\* mutant: the retries of sendTelegramMessageSafely() never drop the markup
TelegramRequestsFormatted ==
  <<[markup |-> TRUE, topic |-> TopicId], [markup |-> TRUE, topic |-> TopicId],
    [markup |-> TRUE, topic |-> TopicId], [markup |-> TRUE, topic |-> TopicId],
    [markup |-> TRUE, topic |-> TopicId], [markup |-> FALSE, topic |-> TopicId]>>

\* sendTelegramMessageSafely() with retryCount 0 to 3, then sendTelegramFallback()
\* as Markdown and as plain text.  The plain retries leave the topic out.
TelegramRequests ==
  <<[markup |-> TRUE, topic |-> TopicId], [markup |-> TRUE, topic |-> TopicId],
    [markup |-> FALSE, topic |-> General], [markup |-> FALSE, topic |-> General],
    [markup |-> TRUE, topic |-> TopicId], [markup |-> FALSE, topic |-> TopicId]>>

\* Whether Telegram can accept a request.  By HTTP, text with tags is sent as
\* HTML even the second time.
Readable(text, request) ==
  \/ text = "plain"
  \/ ~TelegramRequests[request].markup /\ (text = "breaks HTML" => request <= 4)

Sent(a) == sendings[a].channel > Len(Channels)

NextChannel(a) == sendings' = [sendings EXCEPT ![a].channel = @ + 1, ![a].request = 1]

\* sendWebhook(), and the dashboard, which reads the alerts by itself: one
\* request, whose failure is logged and the next channel tried.
SendOnce(a) == ~Sent(a) /\ Channels[sendings[a].channel] # "telegram" /\ NextChannel(a)

\* sendTelegram(): a request ends.  `arrives` and `answered` are what became of
\* it; without an answer the next is made, and after the last the failure is
\* logged and the next channel tried.
SendTelegram(a, arrives, answered) ==
  LET s == sendings[a]
      readable == Readable(s.text, s.request)
      over == answered \/ s.request = Len(TelegramRequests)
  IN  /\ ~Sent(a) /\ Channels[s.channel] = "telegram"
      /\ arrives => readable
      /\ answered => arrives
      /\ sendings' = [sendings EXCEPT ![a] =
           [s EXCEPT !.channel = IF over THEN @ + 1 ELSE @,
                     !.request = IF over THEN 1 ELSE @ + 1,
                     !.readable = IF readable THEN @ + 1 ELSE @,
                     !.arrived = IF arrives THEN @ \cup {TelegramRequests[s.request].topic}
                                 ELSE @]]

DeliveryNext ==
  \E a \in DOMAIN sendings :
    \/ SendOnce(a)
    \/ \E arrives, answered \in BOOLEAN : SendTelegram(a, arrives, answered)

-----------------------------------------------------------------------------
\* Shape of the state; a message is in its topic or in General.
DeliveryTypeOK ==
  \A a \in DOMAIN sendings :
    LET s == sendings[a]
    IN  /\ s.text \in Text /\ s.channel \in 1 .. Len(Channels) + 1
        /\ s.request \in 1 .. Len(TelegramRequests) /\ s.readable \in 0 .. Len(TelegramRequests)
        /\ s.arrived \subseteq {TopicId, General}

\* Whatever its text breaks, an alert that was sent and did not arrive at
\* Telegram met at least two requests that Telegram could have accepted: the
\* simplified retries cover text no formatted request can carry
\* (alert-manager.ts:263-408, 487-548).
LostOnlyByTheNetwork ==
  \A a \in DOMAIN sendings :
    Sent(a) /\ sendings[a].arrived = {} => sendings[a].readable >= 2
=============================================================================
