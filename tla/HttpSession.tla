----------------------------- MODULE HttpSession -----------------------------
(***************************************************************************)
(* e3.net.http.HTTPSession: a request is sent to the base URLs of the      *)
(* session one after the other until one answers, each with credentials of *)
(* its own, and a URL that fails goes to the end of the queue.             *)
(* download_file writes what a GET gives to a file.                        *)
(***************************************************************************)
EXTENDS Integers, Sequences, SequencesExt

CONSTANTS BaseURLs,       \* the URLs of the session, in order
          Filenames,      \* what files downloads are written to
          MaxRequests

NoURL == "no URL"
NoAuth == "no auth"

VARIABLES base_urls, last_base_url,
          auth,           \* session.auth: the URL whose credentials it holds
          request,        \* the request under way
          written,        \* filename -> content, "none" if there is no file
          requests

httpVars == <<base_urls, last_base_url, auth, request, written, requests>>

NoRequest == [pc |-> "idle", filename |-> "none", left |-> <<>>, asked |-> <<>>,
              to |-> NoURL, error |-> FALSE, opened |-> FALSE]

HttpInit ==
    /\ base_urls = BaseURLs
    /\ last_base_url = NoURL /\ auth = NoAuth
    /\ request = NoRequest
    /\ written = [f \in Filenames |-> "none"]
    /\ requests = 0

\* request iterates over a copy of the queue.
StartRequest(filename, exception_on_error) ==
    /\ request.pc \in {"idle", "raised", "returned", "none"} /\ requests < MaxRequests
    /\ requests' = requests + 1
    /\ request' = [NoRequest EXCEPT !.pc = "next", !.filename = filename,
                                    !.left = base_urls, !.error = exception_on_error]
    /\ UNCHANGED <<base_urls, last_base_url, auth, written>>

\* Variant: the URL is noted before its credentials are had.
AuthAfterURL(url, answers) ==
    /\ last_base_url' = url
    /\ auth' = IF url = last_base_url \/ ~answers THEN auth ELSE url

\* The credentials are asked for when the URL is not that of the last request.
AuthOf(url, answers) ==
    IF url = last_base_url \/ ~answers THEN UNCHANGED <<last_base_url, auth>>
    ELSE last_base_url' = url /\ auth' = url

\* get_auth may raise, which ends the request.
Authenticate ==
    LET url == Head(request.left)
    IN  /\ request.pc = "next" /\ request.left # <<>>
        /\ \E answers \in BOOLEAN :
              /\ url = last_base_url => answers
              /\ AuthOf(url, answers)
              /\ request' = IF answers
                            THEN [request EXCEPT !.pc = "send", !.to = url,
                                                 !.left = Tail(@), !.asked = Append(@, url)]
                            ELSE [request EXCEPT !.pc = "raised"]
        /\ UNCHANGED <<base_urls, written, requests>>

\* The answer: any status that is not an error will do.
RequestAnswered ==
    /\ request.pc = "send"
    /\ request' = [request EXCEPT !.pc = "answer"]
    /\ UNCHANGED <<base_urls, last_base_url, auth, written, requests>>

\* A timeout, a lost connection, an error status: the head of the queue goes
\* to its end.
RequestFails ==
    /\ request.pc = "send"
    /\ base_urls' = Append(Tail(base_urls), Head(base_urls))
    /\ request' = [request EXCEPT !.pc = "next"]
    /\ UNCHANGED <<last_base_url, auth, written, requests>>

\* Every URL has failed: HTTPError, which download_file turns into None.
RequestGivesUp ==
    /\ request.pc = "next" /\ request.left = <<>>
    /\ request' = [request EXCEPT !.pc = IF request.error THEN "raised" ELSE "none"]
    /\ UNCHANGED <<base_urls, last_base_url, auth, written, requests>>

-----------------------------------------------------------------------------
(* download_file.                                                          *)

DownloadTo(content, pc) ==
    /\ written' = [written EXCEPT ![request.filename] = content]
    /\ request' = [request EXCEPT !.pc = pc, !.opened = TRUE]
    /\ UNCHANGED <<base_urls, last_base_url, auth, requests>>

\* The file is opened, and truncated, and then written chunk by chunk.
OpenFile == request.pc = "answer" /\ DownloadTo("part", "chunks")
LastChunk == /\ request.pc = "chunks"
             /\ \E content \in {"right", "wrong"} : DownloadTo(content, "validate")

\* Variant: what does not validate stays.
RejectedKept == "wrong"

Rejected == "none"

\* validate(path), if there is one
Validate ==
    /\ request.pc = "validate"
    /\ IF written[request.filename] = "right" THEN DownloadTo("right", "returned")
       ELSE DownloadTo(Rejected, "none")

\* The connection is lost between two chunks.
ChunkFails ==
    /\ request.pc = "chunks"
    /\ DownloadTo("none", IF request.error THEN "raised" ELSE "none")

\* Any other exception is raised as it is, half of the file there.
ChunkRaises ==
    /\ request.pc = "chunks"
    /\ DownloadTo("part", "raised")

HttpNext ==
    \/ \E f \in Filenames, e \in BOOLEAN : StartRequest(f, e)
    \/ Authenticate \/ RequestAnswered \/ RequestFails \/ RequestGivesUp
    \/ OpenFile \/ LastChunk \/ Validate \/ ChunkFails \/ ChunkRaises

HttpSpec == HttpInit /\ [][HttpNext]_httpVars

-----------------------------------------------------------------------------
(* Properties.                                                             *)

\* A request is never sent to a URL with the credentials of another one, and
\* no URL is asked twice.  The queue starts with the URL that is asked now or
\* that answered last: the next request begins with it.
SessionRight ==
    /\ request.pc = "send" => auth = request.to \/ request.to = NoURL
    /\ IsInjective(request.asked)
    /\ Range(base_urls) = Range(BaseURLs) /\ IsInjective(base_urls)
    /\ request.pc \notin {"idle", "next", "raised", "none"} => Head(base_urls) = request.to

\* A download that returned a path has left the whole file, as validated, and
\* one that returned None nothing under that name, if it had begun to write.
DownloadedOrNot ==
    /\ request.pc = "returned" => written[request.filename] = "right"
    /\ request.pc = "none" /\ request.opened => written[request.filename] = "none"
=============================================================================
