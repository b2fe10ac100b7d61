-------------------------------- MODULE Wire --------------------------------
(***************************************************************************)
(* The lines that go through the FIFOs: writer_stc lays the fields of a    *)
(* message out in a buffer of MAX_LINE bytes, reader_stc takes them out.   *)
(* A buffer is a function from offsets to bytes.  What matters of a byte   *)
(* is the field it comes from: <<v, k>> is byte k of the value v, and      *)
(* <<>> a zero, as are all the bytes of Zero.                              *)
(***************************************************************************)
EXTENDS Integers

CONSTANTS MAX_LINE, MAX_PIPE_NAME, MAX_BOX_NAME, MAX_PASSWORD,
          MAX_MESSAGE,   \* a literal 1024 in the code
          INT32, UINT64, \* bytes of a number
          Torn           \* what bytes that were not written together make

Zero == 0

(* Every message fits in a line. *)
ASSUME WireAssumption ==
  /\ {MAX_LINE, MAX_PIPE_NAME, MAX_BOX_NAME, MAX_PASSWORD, MAX_MESSAGE, INT32, UINT64}
       \subseteq Nat \ {0}
  /\ 1 + MAX_PIPE_NAME + MAX_BOX_NAME + 2 * MAX_PASSWORD <= MAX_LINE
  /\ 1 + INT32 + MAX_MESSAGE <= MAX_LINE
  /\ 2 + MAX_BOX_NAME + 3 * UINT64 + MAX_PASSWORD <= MAX_LINE

Blank == [k \in 0 .. MAX_LINE - 1 |-> <<>>]

(* memcpy of size bytes into a buffer, and out of it. *)
Put(buffer, at, size, v) ==
  [k \in DOMAIN buffer |->
     IF k \in at .. at + size - 1 THEN IF v = Zero THEN <<>> ELSE <<v, k - at>> ELSE buffer[k]]

Get(buffer, at, size) ==
  LET cell == buffer[at]
  IN IF \A k \in 0 .. size - 1 : buffer[at + k] = <<>> THEN Zero
     ELSE IF cell # <<>> /\ \A k \in 0 .. size - 1 : buffer[at + k] = <<cell[1], k>> THEN cell[1]
     ELSE Torn

-----------------------------------------------------------------------------
(* writer_stc: one definition for each kind of message. *)
writer_stc_request(r, buffer) ==
  LET box == 1 + MAX_PIPE_NAME
      b1  == Put(buffer, 0, 1, r.code)
      b2  == Put(b1, 1, MAX_PIPE_NAME, r.pipe_name)
      b3  == Put(b2, box, MAX_BOX_NAME, r.box_name)
  IN Put(b3, box + MAX_BOX_NAME, MAX_PASSWORD, r.box_password)

(* Mutant of writer_stc_response_manager: the offset stays behind the code. *)
WriterOverCode(r, buffer) ==
  Put(Put(Put(buffer, 0, 1, r.code), 1, INT32, r.return_code), 1, MAX_MESSAGE, r.error_message)

writer_stc_response_manager(r, buffer) ==
  LET b1 == Put(buffer, 0, 1, r.code)
      b2 == Put(b1, 1, INT32, r.return_code)
  IN Put(b2, 1 + INT32, MAX_MESSAGE, r.error_message)

writer_stc_list_request(r, buffer) ==
  Put(Put(buffer, 0, 1, r.code), 1, MAX_PIPE_NAME, r.pipe_name)

writer_stc_list_response(r, buffer) ==
  LET size == 2 + MAX_BOX_NAME
      b1 == Put(Put(buffer, 0, 1, r.code), 1, 1, r.last)
      b2 == Put(b1, 2, MAX_BOX_NAME, r.box_name)
      b3 == Put(b2, size, UINT64, r.box_size)
      b4 == Put(b3, size + UINT64, UINT64, r.n_pubs)
      b5 == Put(b4, size + 2 * UINT64, UINT64, r.n_subs)
  IN Put(b5, size + 3 * UINT64, MAX_PASSWORD, r.box_password)

writer_stc_message(r, buffer) ==
  Put(Put(buffer, 0, 1, r.code), 1, MAX_MESSAGE, r.message)

writer_stc_new_password(r, buffer) ==
  Put(writer_stc_request(r.request_lock, buffer),
      1 + MAX_PIPE_NAME + MAX_BOX_NAME + MAX_PASSWORD, MAX_PASSWORD, r.new_password)

writer_stc(r, code) ==
  CASE code \in {4, 6, 12, 14} -> writer_stc_response_manager(r, Blank)
    [] code = 7                -> writer_stc_list_request(r, Blank)
    [] code = 8                -> writer_stc_list_response(r, Blank)
    [] code \in {9, 10}        -> writer_stc_message(r, Blank)
    [] code = 13               -> writer_stc_new_password(r, Blank)
    [] OTHER                   -> writer_stc_request(r, Blank)

-----------------------------------------------------------------------------
(* reader_stc *)
reader_stc_request(code, buffer) ==
  LET box == 1 + MAX_PIPE_NAME
  IN [code         |-> code,
      pipe_name    |-> Get(buffer, 1, MAX_PIPE_NAME),
      box_name     |-> Get(buffer, box, MAX_BOX_NAME),
      box_password |-> Get(buffer, box + MAX_BOX_NAME, MAX_PASSWORD)]

reader_stc_response_manager(code, buffer) ==
  [code          |-> code,
   return_code   |-> Get(buffer, 1, INT32),
   error_message |-> Get(buffer, 1 + INT32, MAX_MESSAGE)]

reader_stc_list_response(code, buffer) ==
  LET size == 2 + MAX_BOX_NAME
  IN [code         |-> code,
      last         |-> Get(buffer, 1, 1),
      box_name     |-> Get(buffer, 2, MAX_BOX_NAME),
      box_size     |-> Get(buffer, size, UINT64),
      n_pubs       |-> Get(buffer, size + UINT64, UINT64),
      n_subs       |-> Get(buffer, size + 2 * UINT64, UINT64),
      box_password |-> Get(buffer, size + 3 * UINT64, MAX_PASSWORD)]

reader_stc_list_request(code, buffer) ==
  [code |-> code, pipe_name |-> Get(buffer, 1, MAX_PIPE_NAME)]

reader_stc_message(code, buffer) ==
  [code |-> code, message |-> Get(buffer, 1, MAX_MESSAGE)]

reader_stc_new_password(code, buffer) ==
  [request_lock |-> reader_stc_request(code, buffer),
   new_password |-> Get(buffer, 1 + MAX_PIPE_NAME + MAX_BOX_NAME + MAX_PASSWORD, MAX_PASSWORD)]

CodeOf(buffer) == Get(buffer, 0, 1)

reader_stc(buffer) ==
  LET code == CodeOf(buffer)
  IN CASE code \in {4, 6, 12, 14} -> reader_stc_response_manager(code, buffer)
       [] code = 7                -> reader_stc_list_request(code, buffer)
       [] code = 8                -> reader_stc_list_response(code, buffer)
       [] code \in {9, 10}        -> reader_stc_message(code, buffer)
       [] code = 13               -> reader_stc_new_password(code, buffer)
       [] OTHER                   -> reader_stc_request(code, buffer)
=============================================================================
