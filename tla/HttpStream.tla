----------------------------- MODULE HttpStream -----------------------------
(***************************************************************************)
(* A HTTP input stream (input/CurlInputPlugin.cxx): the decoder thread     *)
(* reads and seeks, the I/O thread runs libcurl and appends what it        *)
(* receives.  They share the stream's mutex and condition variable, and    *)
(* the decoder thread has the I/O thread run functions for it              *)
(* (event/Call.cxx).  Libcurl is paused while too much is buffered.        *)
(*                                                                         *)
(* What the decoder thread does with the mutex locked is one step.  A byte *)
(* of the resource is its position; streams with icy metadata, which       *)
(* cannot seek, are left out.                                              *)
(***************************************************************************)
EXTENDS Integers, Sequences, SequencesExt

CONSTANTS Size,         \* of the resource
          MaxBuffered,  \* CURL_MAX_BUFFERED
          ResumeAt,     \* CURL_RESUME_AT
          MaxWrite,     \* the most that libcurl passes on at a time
          Targets,      \* where the decoder seeks to
          SeekExactly,  \* also to where the buffer ends, while paused?
          CanFail       \* do connections fail?

ASSUME HttpAssumption ==
  /\ Size \in Nat /\ MaxBuffered \in Nat /\ ResumeAt \in Nat
  /\ MaxWrite \in Nat \ {0} /\ ResumeAt + MaxWrite <= MaxBuffered
  /\ Targets \subseteq 0 .. Size /\ {SeekExactly, CanFail} \subseteq BOOLEAN

VARIABLES
  easy,     \* input_curl::easy: "none", "init" or "open" (added to the CurlMulti)
  position, \* the next byte libcurl will pass on
  halted,   \* has libcurl been told to pause this handle?
  ended,    \* the bytes the connection has ended with, if not all
  buffers,  \* input_curl::buffers
  paused,   \* input_curl::paused
  error,    \* input_curl::postponed_error
  ready,    \* InputStream::ready
  offset,   \* InputStream::offset
  locked,   \* does a call return to the decoder with the mutex locked?
  reader,   \* where the decoder thread is
  wanted,   \* the most it reads, or the target of its seek
  result,   \* of its last call
  told,     \* has it been told that this connection failed?
  io        \* where the I/O thread is: "loop", or "done" with a request

curlVars == <<easy, position, halted, ended>>
sharedVars == <<buffers, paused, error, ready, offset>>
readerVars == <<locked, reader, wanted, result, told>>
vars == <<curlVars, sharedVars, readerVars, io>>

\* A CurlInputBuffer has the bytes first .. first + size - 1.
Buffer == [first : 0 .. Size, size : 1 .. MaxWrite, consumed : 0 .. MaxWrite]

HttpTypeOK ==
  /\ easy \in {"none", "init", "open"}
  /\ position \in 0 .. Size
  /\ halted \in BOOLEAN /\ paused \in BOOLEAN
  /\ ended \in {"no", "whole", "failed"}
  /\ buffers \in Seq(Buffer)
  /\ \A i \in DOMAIN buffers : buffers[i].consumed < buffers[i].size
  /\ error \in BOOLEAN /\ ready \in BOOLEAN /\ {locked, told} \subseteq BOOLEAN
  /\ offset \in 0 .. Size
  /\ reader \in {"idle", "fill", "fill wait", "resume", "free",
                 "reopen", "add", "ready", "ready wait", "close", "closed"}
  /\ result \in {"none", "data", "end", "error", "sought"}
  /\ io \in {"loop", "done"}

\* input_curl_open() has returned; InputStream::WaitReady() is to come.
Init ==
  /\ easy = "open" /\ position = 0 /\ halted = FALSE /\ ended = "no"
  /\ buffers = <<>> /\ paused = FALSE /\ error = FALSE /\ ready = FALSE /\ offset = 0
  /\ locked = TRUE /\ reader = "ready" /\ wanted = 0 /\ result = "none" /\ told = FALSE
  /\ io = "loop"

------------------------------------------------------------------------------
(* The decoder thread.                                                     *)

\* curl_total_buffer_size() counts what has been consumed, too.
Total(bs) == FoldLeft(LAMBDA n, b : n + b.size, 0, bs)

\* The bytes to be read in the first i buffers, and in all of them.
Unread(bs) ==
  LET n[i \in 0 .. Len(bs)] == IF i = 0 THEN 0 ELSE n[i - 1] + bs[i].size - bs[i].consumed
  IN  n
Available(bs) == Unread(bs)[Len(bs)]

\* n bytes are taken from the front; an empty buffer is removed.
Emptied(bs, n) ==
  CHOOSE i \in 0 .. Len(bs) :
    /\ Unread(bs)[i] <= n
    /\ \A j \in i + 1 .. Len(bs) : n < Unread(bs)[j]
Consume(bs, n) ==
  LET i == Emptied(bs, n) IN
  IF i = Len(bs) THEN <<>>
  ELSE <<[bs[i + 1] EXCEPT !.consumed = @ + n - Unread(bs)[i]]>>
       \o SubSeq(bs, i + 2, Len(bs))

Goto(where) == reader' = where /\ UNCHANGED <<locked, wanted, result, told>>

\* A call returns, with the mutex locked or not.
Return(what, lock) ==
  /\ reader' = "idle"
  /\ result' = what
  /\ told' = (told \/ what = "error")
  /\ locked' = lock
  /\ UNCHANGED wanted

\* The decoder makes its next call.  (After one that has returned without the
\* mutex, what it does next is undefined.)
Call(where, n) ==
  /\ reader = "idle" /\ locked
  /\ reader' = where
  /\ wanted' = n
  /\ UNCHANGED <<locked, result, told, curlVars, sharedVars, io>>

\* input_curl_read(): fill_buffer() waits for data or the end of the request ...
FillWait ==
  /\ reader = "fill"
  /\ easy # "none" /\ buffers = <<>>
  /\ Goto("fill wait")
  /\ UNCHANGED <<curlVars, sharedVars, io>>

\* ... returns an error, or the end, ...
FillNothing ==
  /\ reader = "fill"
  /\ easy = "none" \/ buffers # <<>>
  /\ error \/ buffers = <<>>
  /\ error' = FALSE
  /\ Return(IF error THEN "error" ELSE "end", TRUE)
  /\ UNCHANGED <<curlVars, buffers, paused, ready, offset, io>>

\* ... or what is there is copied; the I/O thread is to resume the connection
\* when little is left.
ReadData ==
  /\ reader = "fill"
  /\ buffers # <<>> /\ ~error
  /\ LET n == IF wanted < Available(buffers) THEN wanted ELSE Available(buffers) IN
     /\ buffers' = Consume(buffers, n)
     /\ offset' = offset + n
  /\ IF paused /\ Total(buffers') < ResumeAt
     THEN Goto("resume") ELSE Return("data", TRUE)
  /\ UNCHANGED <<curlVars, paused, error, ready, io>>

\* How far a seek gets in what has been buffered.
ForwardUnbounded(target) == target - offset
Forward(target) ==
  IF target - offset < Available(buffers) THEN target - offset ELSE Available(buffers)

\* input_curl_seek(): nothing to do, or forward in what has been buffered, ...
Seek(target) ==
  /\ reader = "idle" /\ locked
  /\ SeekExactly \/ ~(paused /\ target = offset + Available(buffers))
  /\ IF target >= offset
     THEN /\ buffers' = Consume(buffers, Forward(target))
          /\ offset' = offset + Forward(target)
     ELSE UNCHANGED <<buffers, offset>>
  /\ wanted' = target
  /\ IF offset' = target THEN reader' = "idle" /\ result' = "sought"
     ELSE reader' = "free" /\ UNCHANGED result
  /\ UNCHANGED <<curlVars, paused, error, ready, locked, told, io>>

\* ... or a new connection, unless it would be empty; the mutex is not locked.
\* (curl_easy_init() may fail.)
Reopen ==
  /\ reader = "reopen"
  /\ buffers' = <<>>
  /\ offset' = wanted
  /\ \/ /\ wanted = Size
        /\ Return("sought", FALSE)
        /\ UNCHANGED <<curlVars, ready>>
     \/ /\ wanted # Size /\ CanFail
        /\ Return("error", FALSE)
        /\ UNCHANGED <<curlVars, ready>>
     \/ /\ wanted # Size
        /\ easy' = "init" /\ position' = wanted /\ halted' = FALSE /\ ended' = "no"
        /\ ready' = FALSE
        /\ reader' = "add" /\ told' = FALSE
        /\ UNCHANGED <<locked, wanted, result>>
  /\ UNCHANGED <<paused, error, io>>

\* It waits until the new connection is ready (so does WaitReady()).
WaitReady ==
  /\ reader = "ready"
  /\ IF ~ready THEN Goto("ready wait") /\ UNCHANGED error
     ELSE /\ error' = FALSE
          /\ Return(IF error THEN "error" ELSE "sought", TRUE)
  /\ UNCHANGED <<curlVars, buffers, paused, ready, offset, io>>

Decoder ==
  FillWait \/ FillNothing \/ ReadData \/ Reopen \/ WaitReady

------------------------------------------------------------------------------
(* The I/O thread: functions that the decoder thread waits for.            *)

\* cond.broadcast()
WakeOnlyFill == reader' = IF reader = "fill wait" THEN "fill" ELSE reader
Wake == reader' = CASE reader = "fill wait" -> "fill"
                    [] reader = "ready wait" -> "ready"
                    [] OTHER -> reader

\* input_curl_resume()
Resume ==
  /\ io = "loop" /\ reader = "resume"
  /\ paused' = FALSE
  /\ halted' = IF paused THEN FALSE ELSE halted
  /\ Return("data", TRUE)
  /\ UNCHANGED <<easy, position, ended, buffers, error, ready, offset, io>>

\* input_curl_easy_free()
Free ==
  /\ io = "loop" /\ reader \in {"free", "close"}
  /\ easy' = "none"
  /\ Goto(IF reader = "free" THEN "reopen" ELSE "closed")
  /\ UNCHANGED <<position, halted, ended, sharedVars, io>>

\* CurlMulti::Add(); it may fail, and the seek returns without the mutex.
Add ==
  /\ io = "loop" /\ reader = "add"
  /\ \/ easy' = "open" /\ Goto("ready")
     \/ CanFail /\ UNCHANGED easy /\ Return("error", FALSE)
  /\ UNCHANGED <<position, halted, ended, sharedVars, io>>

------------------------------------------------------------------------------
(* The I/O thread: libcurl.                                                *)

Receiving == io = "loop" /\ easy = "open"

\* input_curl_writefunction(): too much is refused, and libcurl pauses.
Write(n) ==
  /\ Receiving /\ ~halted
  /\ position + n <= Size
  /\ IF Total(buffers) + n >= MaxBuffered
     THEN /\ paused' = TRUE /\ halted' = TRUE
          /\ UNCHANGED <<position, buffers, ready, reader>>
     ELSE /\ buffers' = Append(buffers, [first |-> position, size |-> n, consumed |-> 0])
          /\ position' = position + n
          /\ ready' = TRUE
          /\ Wake
          /\ UNCHANGED <<paused, halted>>
  /\ UNCHANGED <<easy, ended, error, offset, locked, wanted, result, told, io>>

\* The request ends, with all bytes or an error: input_curl_handle_done() frees
\* the handle without the mutex ...
Finish(how) ==
  /\ Receiving
  /\ IF how = "whole" THEN position = Size ELSE CanFail
  /\ ended' = how
  /\ easy' = "none"
  /\ io' = "done"
  /\ UNCHANGED <<position, halted, sharedVars, readerVars>>

\* ... and input_curl_request_done() locks it.
RequestDoneUntold ==
  /\ io = "done"
  /\ io' = "loop"
  /\ ready' = TRUE
  /\ Wake
  /\ UNCHANGED <<curlVars, buffers, paused, error, offset, locked, wanted, result, told>>

RequestDone ==
  /\ io = "done"
  /\ io' = "loop"
  /\ error' = (error \/ ended = "failed")
  /\ ready' = TRUE
  /\ Wake
  /\ UNCHANGED <<curlVars, buffers, paused, offset, locked, wanted, result, told>>

IoThread ==
  \/ Resume \/ Free \/ Add \/ RequestDone
  \/ \E n \in 1 .. MaxWrite : Write(n)
  \/ Finish("whole")

Next ==
  \/ \E n \in 1 .. MaxWrite : Call("fill", n)
  \/ \E target \in Targets : Seek(target)
  \/ Call("close", 0)
  \/ Decoder
  \/ IoThread
  \/ Finish("failed")

\* Both threads run, and the server goes on sending.
Fairness == WF_vars(Decoder) /\ WF_vars(IoThread)

Spec == Init /\ [][Next]_vars /\ Fairness

------------------------------------------------------------------------------
(* The bytes are read in order, across buffers, pauses and new connections:  *)
(* what is buffered begins at the stream's offset, without a gap, and goes   *)
(* on with what libcurl will pass on next (CurlInputPlugin.cxx:801-841,      *)
(* 927-951, 1050-1071).                                                      *)
BytesInOrder ==
  reader \notin {"free", "reopen", "add", "closed"} =>
    /\ buffers # <<>> => buffers[1].first + buffers[1].consumed = offset
    /\ \A i \in 1 .. Len(buffers) - 1 :
         buffers[i].first + buffers[i].size = buffers[i + 1].first
    /\ easy = "open" =>
         position = IF buffers = <<>> THEN offset
                    ELSE Last(buffers).first + Last(buffers).size

(* A read that returns nothing and no error has come to the end of the       *)
(* stream, unless the decoder has been told, or was faster than the I/O      *)
(* thread, which takes the handle away before it has stored the error        *)
(* (CurlInputPlugin.cxx:496-531, 708-721).                                   *)
EndIsEnd ==
  [][reader = "fill" /\ reader' = "idle" /\ result' = "end" =>
       offset = Size \/ told \/ (ended = "failed" /\ io = "done")]_vars

\* Calls in which the decoder thread waits for the I/O thread.
Inside == reader \notin {"idle", "closed"}

(* No call blocks for ever: no wake-up is lost between the two threads, a    *)
(* paused connection is resumed when the reader needs it, and a request that *)
(* fails wakes its reader (CurlInputPlugin.cxx:497-518, 708-713, 831-840).   *)
CallsEnd == Inside ~> ~Inside

(* "assert(!c->postponed_error.IsDefined())" when a request is finished      *)
(* (CurlInputPlugin.cxx:502).                                                *)
NoErrorTwice == io = "done" => ~error

(* A call returns with the mutex locked, which its caller unlocks:           *)
(* "The caller must lock the mutex." (InputStream.hxx:207).                  *)
MutexIsLocked == reader = "idle" => locked

(* A connection that is paused is resumed: "Is the connection currently      *)
(* paused?" (CurlInputPlugin.cxx:149).  The flag outlives the connection,    *)
(* which may end while it is paused, and a seek leaves it set for the next   *)
(* one: curl_easy_pause() gets a null handle (CurlInputPlugin.cxx:345-347).  *)
HandleIsResumed == [][Resume /\ paused => easy # "none"]_vars
=============================================================================
