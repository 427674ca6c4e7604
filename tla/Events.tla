-------------------------------- MODULE Events --------------------------------
(***************************************************************************)
(* e3.event: an event is filled, closed and sent; the manager gives it to  *)
(* each of its handlers in turn (e3.event.handler: file, s3, smtp and      *)
(* logging; e3.net.smtp.sendmail).  What is attached is a file, by its     *)
(* path: other programs may write it or remove it at any time.             *)
(*                                                                         *)
(* The data of an event is the number of times it was written; the content *)
(* of a file is a number, 0 when there is no file.                         *)
(***************************************************************************)
EXTENDS Naturals, Sequences, FiniteSets

CONSTANTS Handlers,       \* the handlers of the manager: a sequence of kinds
          EventFiles,     \* paths; the name of an attachment is that of its file
          SmtpServers,    \* a sequence
          Recipients,
          MaxSends, MaxWrites, MaxTroubles

ASSUME HandlersAssumption == Handlers \in Seq({"file", "s3", "smtp", "logging"})
ASSUME ServersAssumption == SmtpServers \in Seq(STRING)

VARIABLES event,      \* data, closed, attached: a sequence of files
          contents,   \* the content of each file
          sending,    \* send_event, in its current handler: step, todo, mail, status
          sent,       \* of the last send_event: "none", "true", "false", "raised"
          outcomes,   \* what each handler has returned to it
          log_dir,    \* of FileHandler: the events, and the attachments
          bucket,     \* of S3Handler: the events, and the attachments
          mailbox,    \* the mails each recipient got
          sends, troubles

eventVars == <<event, contents, sending, sent, outcomes, log_dir, bucket, mailbox, sends,
               troubles>>

NoSending == [step |-> "idle", todo |-> <<>>, status |-> TRUE, mail |-> {}]

EventInit ==
    /\ event = [data |-> 0, closed |-> FALSE, attached |-> <<>>]
    /\ contents = [f \in EventFiles |-> 1]
    /\ sending = NoSending /\ sent = "none" /\ outcomes = <<>>
    /\ log_dir = [events |-> {}, attachments |-> {}]
    /\ bucket = [events |-> {}, attachments |-> {}]
    /\ mailbox = [r \in Recipients |-> {}]
    /\ sends = 0 /\ troubles = 0

Idle == sending.step = "idle"
Attached == {event.attached[i] : i \in DOMAIN event.attached}

\* __setattr__ and attach_file refuse when the event is closed.
SetAttribute ==
    /\ Idle /\ ~event.closed /\ event.data < MaxWrites
    /\ event' = [event EXCEPT !.data = @ + 1]
    /\ sent' = "none"
    /\ UNCHANGED <<contents, sending, outcomes, log_dir, bucket, mailbox, sends, troubles>>

\* A name that is attached again keeps its place; the file is read for its sha1.
AttachFile(f) ==
    /\ Idle /\ ~event.closed /\ contents[f] # 0 /\ f \notin Attached
    /\ event' = [event EXCEPT !.attached = Append(@, f)]
    /\ sent' = "none"
    /\ UNCHANGED <<contents, sending, outcomes, log_dir, bucket, mailbox, sends, troubles>>

\* close writes the time of the end, once.
CloseEvent ==
    /\ Idle /\ ~event.closed
    /\ event' = [event EXCEPT !.closed = TRUE, !.data = @ + 1]
    /\ sent' = "none"
    /\ UNCHANGED <<contents, sending, outcomes, log_dir, bucket, mailbox, sends, troubles>>

\* Another program writes or removes a file.
FileChanges(f) ==
    /\ troubles < MaxTroubles /\ troubles' = troubles + 1
    /\ contents[f] # 0 /\ contents' = [contents EXCEPT ![f] = IF @ < 2 THEN @ + 1 ELSE 0]
    /\ UNCHANGED <<event, sending, sent, outcomes, log_dir, bucket, mailbox, sends>>

-----------------------------------------------------------------------------
Attempt(status) ==
    [step |-> "begin", todo |-> event.attached, status |-> status, mail |-> {}]

SendEvent ==
    /\ Idle /\ sends < MaxSends /\ sends' = sends + 1
    /\ sending' = Attempt(TRUE) /\ sent' = "none" /\ outcomes' = <<>>
    /\ UNCHANGED <<event, contents, log_dir, bucket, mailbox, troubles>>

In(kind, step) ==
    /\ sending.step = step /\ Len(outcomes) < Len(Handlers)
    /\ Handlers[Len(outcomes) + 1] = kind

SendingAt(step) == sending' = [sending EXCEPT !.step = step] /\ UNCHANGED outcomes
Took(f) ==
    /\ sending' = [sending EXCEPT !.todo = Tail(@), !.mail = @ \cup {<<f, contents[f]>>}]
    /\ UNCHANGED outcomes

\* A handler has returned: the next one, whatever it returned.
Returns(ok) ==
    sending' = Attempt(sending.status /\ ok) /\ outcomes' = Append(outcomes, ok)

\* No exception of a handler is caught: the next ones are not called.
Raises == sending' = NoSending /\ sent' = "raised" /\ UNCHANGED outcomes

EndOfSend ==
    /\ sending.step = "begin" /\ Len(outcomes) = Len(Handlers)
    /\ sending' = NoSending /\ sent' = IF sending.status THEN "true" ELSE "false"
    /\ UNCHANGED <<event, contents, outcomes, log_dir, bucket, mailbox, sends, troubles>>

LoggingSends ==
    /\ In("logging", "begin") /\ Returns(TRUE)
    /\ UNCHANGED <<event, contents, sent, log_dir, bucket, mailbox, sends, troubles>>

Stored(place, f) ==
    {p \in place.attachments : p[1] # f} \cup {<<f, contents[f]>>}

\* FileHandler.send_event: the event, then its attachments.
FileWritesEvent ==
    /\ In("file", "begin") /\ SendingAt("attach")
    /\ log_dir' = [log_dir EXCEPT !.events = @ \cup {[data |-> event.data, attached |-> Attached]}]
    /\ UNCHANGED <<event, contents, sent, bucket, mailbox, sends, troubles>>
FileCopies ==
    /\ In("file", "attach")
    /\ IF sending.todo = <<>>
       THEN Returns(TRUE) /\ UNCHANGED <<sent, log_dir>>
       ELSE LET f == Head(sending.todo)
            IN  IF contents[f] = 0 THEN Raises /\ UNCHANGED log_dir
                ELSE /\ Took(f) /\ UNCHANGED sent
                     /\ log_dir' = [log_dir EXCEPT !.attachments = Stored(log_dir, f)]
    /\ UNCHANGED <<event, contents, bucket, mailbox, sends, troubles>>

\* S3Handler.send_event: the attachments, then the event.  A copy that fails
\* may have been made.
S3Copies ==
    /\ In("s3", "begin") /\ sending.todo # <<>>
    /\ LET f == Head(sending.todo)
           new == [bucket EXCEPT !.attachments = Stored(bucket, f)]
       IN  \/ /\ contents[f] # 0 /\ bucket' = new /\ Took(f) /\ UNCHANGED troubles
           \/ /\ contents[f] = 0 /\ Returns(FALSE) /\ UNCHANGED <<bucket, troubles>>
           \/ /\ contents[f] # 0 /\ troubles < MaxTroubles /\ troubles' = troubles + 1
              /\ Returns(FALSE) /\ bucket' \in {bucket, new}
    /\ UNCHANGED <<event, contents, sent, log_dir, mailbox, sends>>
S3CopiesEvent ==
    /\ In("s3", "begin") /\ sending.todo = <<>>
    /\ LET new == [bucket EXCEPT !.events = @ \cup {[data |-> event.data, attached |-> Attached]}]
       IN  \/ Returns(TRUE) /\ bucket' = new /\ UNCHANGED troubles
           \/ /\ troubles < MaxTroubles /\ troubles' = troubles + 1
              /\ Returns(FALSE) /\ bucket' \in {bucket, new}
    /\ UNCHANGED <<event, contents, sent, log_dir, mailbox, sends>>

\* SMTPHandler.send_event reads the files into one mail.
MailReads ==
    /\ In("smtp", "begin")
    /\ IF sending.todo = <<>>
       THEN /\ sending' = [sending EXCEPT !.step = "server", !.todo = SmtpServers]
            /\ UNCHANGED <<sent, outcomes>>
       ELSE IF contents[Head(sending.todo)] = 0 THEN Raises
       ELSE Took(Head(sending.todo)) /\ UNCHANGED sent
    /\ UNCHANGED <<event, contents, log_dir, bucket, mailbox, sends, troubles>>

\* sendmail: a mail that is too big is not sent.
MailTooBig ==
    /\ In("smtp", "server") /\ sending.todo = SmtpServers /\ sending.mail # {}
    /\ troubles < MaxTroubles /\ troubles' = troubles + 1 /\ Returns(FALSE)
    /\ UNCHANGED <<event, contents, sent, log_dir, bucket, mailbox, sends>>

Delivered(to) ==
    mailbox' = [r \in Recipients |->
                   IF r \in to THEN mailbox[r] \cup {[data |-> event.data, parts |-> sending.mail]}
                   ELSE mailbox[r]]

\* Variant: a server that accepts the mail for someone has sent it.
AcceptedBySome(to) == to # {}

\* The mail is sent when a server has refused no recipient.
Accepted(to) == to = Recipients

NextServer == sending' = [sending EXCEPT !.todo = Tail(@)] /\ UNCHANGED outcomes

\* A server is tried: it may accept the mail for some of the recipients, be
\* out of reach, or fail before or after it took the mail.
TryServer ==
    /\ In("smtp", "server") /\ sending.todo # <<>>
    /\ \/ \E to \in SUBSET Recipients :
             /\ to # Recipients => troubles < MaxTroubles
             /\ troubles' = IF to = Recipients THEN troubles ELSE troubles + 1
             /\ Delivered(to)
             /\ IF Accepted(to) THEN Returns(TRUE) ELSE NextServer
       \/ /\ troubles < MaxTroubles /\ troubles' = troubles + 1
          /\ NextServer /\ (Delivered(Recipients) \/ UNCHANGED mailbox)
    /\ UNCHANGED <<event, contents, sent, log_dir, bucket, sends>>

\* system_sendmail does nothing by default.
NoServerLeft ==
    /\ In("smtp", "server") /\ sending.todo = <<>> /\ Returns(FALSE)
    /\ UNCHANGED <<event, contents, sent, log_dir, bucket, mailbox, sends, troubles>>

EventNext ==
    \/ SetAttribute \/ CloseEvent \/ SendEvent \/ EndOfSend \/ LoggingSends
    \/ FileWritesEvent \/ FileCopies \/ S3Copies \/ S3CopiesEvent
    \/ MailReads \/ MailTooBig \/ TryServer \/ NoServerLeft
    \/ \E f \in EventFiles : AttachFile(f) \/ FileChanges(f)

EventSpec == EventInit /\ [][EventNext]_eventVars

-----------------------------------------------------------------------------
Names(place) == {p[1] : p \in place.attachments}

\* What a successful handler has: the event as it is, with each of its files.
IsDelivered(kind) ==
    LET e == [data |-> event.data, attached |-> Attached]
    IN  CASE kind = "file" -> e \in log_dir.events /\ Attached \subseteq Names(log_dir)
          [] kind = "s3"   -> e \in bucket.events /\ Attached \subseteq Names(bucket)
          [] kind = "smtp" -> \A r \in Recipients : \E m \in mailbox[r] :
                                 m.data = event.data /\ {p[1] : p \in m.parts} = Attached
          [] OTHER         -> TRUE

\* send_event calls every handler unless one raises, and says that the event is
\* sent only when all of them have; a handler that says so has delivered all of
\* the event, to everyone; and an event that can be read in the bucket has its
\* attachments there, at any time (EventManager.send_event, S3Handler.send_event,
\* sendmail).
SentIsDelivered ==
    /\ sent \in {"true", "false"} =>
          /\ Len(outcomes) = Len(Handlers)
          /\ sent = "true" <=> \A i \in DOMAIN outcomes : outcomes[i]
    /\ sent # "none" =>
          \A i \in DOMAIN outcomes : outcomes[i] => IsDelivered(Handlers[i])
    /\ \A e \in bucket.events : e.attached \subseteq Names(bucket)
==============================================================================
