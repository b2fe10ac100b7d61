----------------------------- MODULE WireProofs -----------------------------
(***************************************************************************)
(* What writer_stc writes, reader_stc reads: for every kind of message,    *)
(* every value of its fields and every size of them.                       *)
(***************************************************************************)
EXTENDS Wire, TLAPS

(* A value that has been put into a buffer is got back from it. *)
LEMMA GetPut ==
  ASSUME NEW buffer, NEW at \in Nat, NEW size \in Nat \ {0}, NEW v,
         DOMAIN buffer = 0 .. MAX_LINE - 1, at + size <= MAX_LINE
  PROVE  Get(Put(buffer, at, size, v), at, size) = v
<1> DEFINE new == Put(buffer, at, size, v)
<1>1. MAX_LINE \in Nat
  BY WireAssumption
<1>2. \A k \in 0 .. size - 1 : at + k \in DOMAIN buffer /\ at + k \in at .. at + size - 1
  BY <1>1
<1>3. \A k \in 0 .. size - 1 : new[at + k] = IF v = Zero THEN <<>> ELSE <<v, (at + k) - at>>
  BY <1>2 DEF Put
<1>4. 0 \in 0 .. size - 1 /\ at + 0 = at /\ \A k \in 0 .. size - 1 : (at + k) - at = k
  OBVIOUS
<1>5. CASE v = Zero
  BY <1>3, <1>5 DEF Get
<1>6. CASE v # Zero
  <2>1. \A k \in 0 .. size - 1 : new[at + k] = <<v, k>>
    BY <1>3, <1>4, <1>6
  <2>2. new[at] = <<v, 0>>
    BY <2>1, <1>4
  <2>3. \A k : <<v, k>> # <<>>
    OBVIOUS
  <2>4. <<v, 0>>[1] = v
    OBVIOUS
  <2> QED
    BY <2>1, <2>2, <2>3, <2>4, <1>4 DEF Get
<1> QED
  BY <1>5, <1>6

(* Putting a value elsewhere changes nothing of what is got. *)
LEMMA GetOther ==
  ASSUME NEW buffer, NEW at \in Nat, NEW size \in Nat \ {0},
         NEW a \in Nat, NEW n \in Nat \ {0}, NEW v,
         DOMAIN buffer = 0 .. MAX_LINE - 1, at + size <= MAX_LINE,
         a + n <= at \/ at + size <= a
  PROVE  Get(Put(buffer, a, n, v), at, size) = Get(buffer, at, size)
<1> DEFINE new == Put(buffer, a, n, v)
<1>1. MAX_LINE \in Nat
  BY WireAssumption
<1>2. \A k \in 0 .. size - 1 : at + k \in DOMAIN buffer /\ at + k \notin a .. a + n - 1
  BY <1>1
<1>3. \A k \in 0 .. size - 1 : new[at + k] = buffer[at + k]
  BY <1>2 DEF Put
<1>4. new[at] = buffer[at]
  <2>1. 0 \in 0 .. size - 1 /\ at + 0 = at
    OBVIOUS
  <2> QED
    BY <1>3, <2>1
<1> QED
  BY <1>3, <1>4 DEF Get

(* A buffer keeps its length. *)
LEMMA PutDomain ==
  ASSUME NEW buffer, NEW at, NEW size, NEW v
  PROVE  DOMAIN Put(buffer, at, size, v) = DOMAIN buffer
BY DEF Put

(* So has the buffer a message is written to. *)
LEMMA BlankDomain == DOMAIN Blank = 0 .. MAX_LINE - 1
BY DEF Blank

(* The sizes, as the provers need them. *)
LEMMA Sizes ==
  /\ 1 \in Nat \ {0} /\ 0 \in Nat /\ MAX_LINE \in Nat
  /\ MAX_PIPE_NAME \in Nat \ {0} /\ MAX_BOX_NAME \in Nat \ {0} /\ MAX_PASSWORD \in Nat \ {0}
  /\ MAX_MESSAGE \in Nat \ {0} /\ INT32 \in Nat \ {0} /\ UINT64 \in Nat \ {0}
BY WireAssumption

-----------------------------------------------------------------------------
(* Where a request lies in its line. *)
LEMMA RequestLayout ==
  ASSUME NEW r, NEW buffer, DOMAIN buffer = 0 .. MAX_LINE - 1
  PROVE  LET b == writer_stc_request(r, buffer)
         IN /\ DOMAIN b = 0 .. MAX_LINE - 1
            /\ CodeOf(b) = r.code
            /\ Get(b, 1, MAX_PIPE_NAME) = r.pipe_name
            /\ Get(b, 1 + MAX_PIPE_NAME, MAX_BOX_NAME) = r.box_name
            /\ Get(b, 1 + MAX_PIPE_NAME + MAX_BOX_NAME, MAX_PASSWORD) = r.box_password
<1> DEFINE b1 == Put(buffer, 0, 1, r.code)
           b2 == Put(b1, 1, MAX_PIPE_NAME, r.pipe_name)
           b3 == Put(b2, 1 + MAX_PIPE_NAME, MAX_BOX_NAME, r.box_name)
           b4 == Put(b3, 1 + MAX_PIPE_NAME + MAX_BOX_NAME, MAX_PASSWORD, r.box_password)
<1> USE Sizes
<1>1. /\ DOMAIN b1 = 0 .. MAX_LINE - 1
      /\ DOMAIN b2 = 0 .. MAX_LINE - 1
      /\ DOMAIN b3 = 0 .. MAX_LINE - 1
      /\ DOMAIN b4 = 0 .. MAX_LINE - 1
  BY PutDomain
<1>2. /\ 1 + MAX_PIPE_NAME \in Nat \ {0}
      /\ 1 + MAX_PIPE_NAME + MAX_BOX_NAME \in Nat \ {0}
      /\ 1 + MAX_PIPE_NAME + MAX_BOX_NAME + MAX_PASSWORD <= MAX_LINE
  BY WireAssumption
<1> HIDE DEF b1, b2, b3, b4
<1>3. Get(b4, 0, 1) = r.code
  <2>1. Get(b1, 0, 1) = r.code
    BY <1>1, <1>2, GetPut DEF b1
  <2>2. Get(b2, 0, 1) = Get(b1, 0, 1)
    BY <1>1, <1>2, GetOther DEF b2
  <2>3. Get(b3, 0, 1) = Get(b2, 0, 1)
    BY <1>1, <1>2, GetOther DEF b3
  <2>4. Get(b4, 0, 1) = Get(b3, 0, 1)
    BY <1>1, <1>2, GetOther DEF b4
  <2> QED
    BY <2>1, <2>2, <2>3, <2>4
<1>4. Get(b4, 1, MAX_PIPE_NAME) = r.pipe_name
  <2>1. Get(b2, 1, MAX_PIPE_NAME) = r.pipe_name
    BY <1>1, <1>2, GetPut DEF b2
  <2>2. Get(b3, 1, MAX_PIPE_NAME) = Get(b2, 1, MAX_PIPE_NAME)
    BY <1>1, <1>2, GetOther DEF b3
  <2>3. Get(b4, 1, MAX_PIPE_NAME) = Get(b3, 1, MAX_PIPE_NAME)
    BY <1>1, <1>2, GetOther DEF b4
  <2> QED
    BY <2>1, <2>2, <2>3
<1>5. Get(b4, 1 + MAX_PIPE_NAME, MAX_BOX_NAME) = r.box_name
  <2>1. Get(b3, 1 + MAX_PIPE_NAME, MAX_BOX_NAME) = r.box_name
    BY <1>1, <1>2, GetPut DEF b3
  <2>2. Get(b4, 1 + MAX_PIPE_NAME, MAX_BOX_NAME) = Get(b3, 1 + MAX_PIPE_NAME, MAX_BOX_NAME)
    BY <1>1, <1>2, GetOther DEF b4
  <2> QED
    BY <2>1, <2>2
<1>6. Get(b4, 1 + MAX_PIPE_NAME + MAX_BOX_NAME, MAX_PASSWORD) = r.box_password
  BY <1>1, <1>2, GetPut DEF b4
<1>7. writer_stc_request(r, buffer) = b4
  BY DEF writer_stc_request, b1, b2, b3, b4
<1> QED
  BY <1>1, <1>3, <1>4, <1>5, <1>6, <1>7 DEF CodeOf

(* The answer to a manager. *)
LEMMA ResponseLayout ==
  ASSUME NEW r, NEW buffer, DOMAIN buffer = 0 .. MAX_LINE - 1
  PROVE  LET b == writer_stc_response_manager(r, buffer)
         IN /\ CodeOf(b) = r.code
            /\ Get(b, 1, INT32) = r.return_code
            /\ Get(b, 1 + INT32, MAX_MESSAGE) = r.error_message
<1> DEFINE b1 == Put(buffer, 0, 1, r.code)
           b2 == Put(b1, 1, INT32, r.return_code)
           b3 == Put(b2, 1 + INT32, MAX_MESSAGE, r.error_message)
<1> USE Sizes
<1>1. /\ DOMAIN b1 = 0 .. MAX_LINE - 1
      /\ DOMAIN b2 = 0 .. MAX_LINE - 1
      /\ DOMAIN b3 = 0 .. MAX_LINE - 1
  BY PutDomain
<1>2. /\ 1 + INT32 \in Nat \ {0}
      /\ 1 + INT32 + MAX_MESSAGE <= MAX_LINE
  BY WireAssumption
<1> HIDE DEF b1, b2, b3
<1>3. Get(b3, 0, 1) = r.code
  <2>1. Get(b1, 0, 1) = r.code
    BY <1>1, <1>2, GetPut DEF b1
  <2>2. Get(b2, 0, 1) = Get(b1, 0, 1)
    BY <1>1, <1>2, GetOther DEF b2
  <2>3. Get(b3, 0, 1) = Get(b2, 0, 1)
    BY <1>1, <1>2, GetOther DEF b3
  <2> QED
    BY <2>1, <2>2, <2>3
<1>4. Get(b3, 1, INT32) = r.return_code
  <2>1. Get(b2, 1, INT32) = r.return_code
    BY <1>1, <1>2, GetPut DEF b2
  <2>2. Get(b3, 1, INT32) = Get(b2, 1, INT32)
    BY <1>1, <1>2, GetOther DEF b3
  <2> QED
    BY <2>1, <2>2
<1>5. Get(b3, 1 + INT32, MAX_MESSAGE) = r.error_message
  BY <1>1, <1>2, GetPut DEF b3
<1>6. writer_stc_response_manager(r, buffer) = b3
  BY DEF writer_stc_response_manager, b1, b2, b3
<1> QED
  BY <1>1, <1>3, <1>4, <1>5, <1>6 DEF CodeOf

(* The request for the list. *)
LEMMA ListRequestLayout ==
  ASSUME NEW r, NEW buffer, DOMAIN buffer = 0 .. MAX_LINE - 1
  PROVE  LET b == writer_stc_list_request(r, buffer)
         IN /\ CodeOf(b) = r.code
            /\ Get(b, 1, MAX_PIPE_NAME) = r.pipe_name
<1> DEFINE b1 == Put(buffer, 0, 1, r.code)
           b2 == Put(b1, 1, MAX_PIPE_NAME, r.pipe_name)
<1> USE Sizes
<1>1. /\ DOMAIN b1 = 0 .. MAX_LINE - 1
      /\ DOMAIN b2 = 0 .. MAX_LINE - 1
  BY PutDomain
<1>2. /\ 1 + MAX_PIPE_NAME <= MAX_LINE
  BY WireAssumption
<1> HIDE DEF b1, b2
<1>3. Get(b2, 0, 1) = r.code
  <2>1. Get(b1, 0, 1) = r.code
    BY <1>1, <1>2, GetPut DEF b1
  <2>2. Get(b2, 0, 1) = Get(b1, 0, 1)
    BY <1>1, <1>2, GetOther DEF b2
  <2> QED
    BY <2>1, <2>2
<1>4. Get(b2, 1, MAX_PIPE_NAME) = r.pipe_name
  BY <1>1, <1>2, GetPut DEF b2
<1>5. writer_stc_list_request(r, buffer) = b2
  BY DEF writer_stc_list_request, b1, b2
<1> QED
  BY <1>1, <1>3, <1>4, <1>5 DEF CodeOf

(* A message. *)
LEMMA MessageLayout ==
  ASSUME NEW r, NEW buffer, DOMAIN buffer = 0 .. MAX_LINE - 1
  PROVE  LET b == writer_stc_message(r, buffer)
         IN /\ CodeOf(b) = r.code
            /\ Get(b, 1, MAX_MESSAGE) = r.message
<1> DEFINE b1 == Put(buffer, 0, 1, r.code)
           b2 == Put(b1, 1, MAX_MESSAGE, r.message)
<1> USE Sizes
<1>1. /\ DOMAIN b1 = 0 .. MAX_LINE - 1
      /\ DOMAIN b2 = 0 .. MAX_LINE - 1
  BY PutDomain
<1>2. /\ 1 + MAX_MESSAGE <= MAX_LINE
  BY WireAssumption
<1> HIDE DEF b1, b2
<1>3. Get(b2, 0, 1) = r.code
  <2>1. Get(b1, 0, 1) = r.code
    BY <1>1, <1>2, GetPut DEF b1
  <2>2. Get(b2, 0, 1) = Get(b1, 0, 1)
    BY <1>1, <1>2, GetOther DEF b2
  <2> QED
    BY <2>1, <2>2
<1>4. Get(b2, 1, MAX_MESSAGE) = r.message
  BY <1>1, <1>2, GetPut DEF b2
<1>5. writer_stc_message(r, buffer) = b2
  BY DEF writer_stc_message, b1, b2
<1> QED
  BY <1>1, <1>3, <1>4, <1>5 DEF CodeOf

(* A box in the list. *)
LEMMA ListResponseLayout ==
  ASSUME NEW r, NEW buffer, DOMAIN buffer = 0 .. MAX_LINE - 1
  PROVE  LET b == writer_stc_list_response(r, buffer)
         IN /\ CodeOf(b) = r.code
            /\ Get(b, 1, 1) = r.last
            /\ Get(b, 2, MAX_BOX_NAME) = r.box_name
            /\ Get(b, 2 + MAX_BOX_NAME, UINT64) = r.box_size
            /\ Get(b, 2 + MAX_BOX_NAME + UINT64, UINT64) = r.n_pubs
            /\ Get(b, 2 + MAX_BOX_NAME + 2 * UINT64, UINT64) = r.n_subs
            /\ Get(b, 2 + MAX_BOX_NAME + 3 * UINT64, MAX_PASSWORD) = r.box_password
<1> DEFINE b1 == Put(buffer, 0, 1, r.code)
           b2 == Put(b1, 1, 1, r.last)
           b3 == Put(b2, 2, MAX_BOX_NAME, r.box_name)
           b4 == Put(b3, 2 + MAX_BOX_NAME, UINT64, r.box_size)
           b5 == Put(b4, 2 + MAX_BOX_NAME + UINT64, UINT64, r.n_pubs)
           b6 == Put(b5, 2 + MAX_BOX_NAME + 2 * UINT64, UINT64, r.n_subs)
           b7 == Put(b6, 2 + MAX_BOX_NAME + 3 * UINT64, MAX_PASSWORD, r.box_password)
<1> USE Sizes
<1>1. /\ DOMAIN b1 = 0 .. MAX_LINE - 1
      /\ DOMAIN b2 = 0 .. MAX_LINE - 1
      /\ DOMAIN b3 = 0 .. MAX_LINE - 1
      /\ DOMAIN b4 = 0 .. MAX_LINE - 1
      /\ DOMAIN b5 = 0 .. MAX_LINE - 1
      /\ DOMAIN b6 = 0 .. MAX_LINE - 1
      /\ DOMAIN b7 = 0 .. MAX_LINE - 1
  BY PutDomain
<1>2. /\ 2 \in Nat \ {0}
      /\ 2 + MAX_BOX_NAME \in Nat \ {0}
      /\ 2 + MAX_BOX_NAME + UINT64 \in Nat \ {0}
      /\ 2 + MAX_BOX_NAME + 2 * UINT64 \in Nat \ {0}
      /\ 2 + MAX_BOX_NAME + 3 * UINT64 \in Nat \ {0}
      /\ 2 + MAX_BOX_NAME + 3 * UINT64 + MAX_PASSWORD <= MAX_LINE
  BY WireAssumption
<1> HIDE DEF b1, b2, b3, b4, b5, b6, b7
<1>3. Get(b7, 0, 1) = r.code
  <2>1. Get(b1, 0, 1) = r.code
    BY <1>1, <1>2, GetPut DEF b1
  <2>2. Get(b2, 0, 1) = Get(b1, 0, 1)
    BY <1>1, <1>2, GetOther DEF b2
  <2>3. Get(b3, 0, 1) = Get(b2, 0, 1)
    BY <1>1, <1>2, GetOther DEF b3
  <2>4. Get(b4, 0, 1) = Get(b3, 0, 1)
    BY <1>1, <1>2, GetOther DEF b4
  <2>5. Get(b5, 0, 1) = Get(b4, 0, 1)
    BY <1>1, <1>2, GetOther DEF b5
  <2>6. Get(b6, 0, 1) = Get(b5, 0, 1)
    BY <1>1, <1>2, GetOther DEF b6
  <2>7. Get(b7, 0, 1) = Get(b6, 0, 1)
    BY <1>1, <1>2, GetOther DEF b7
  <2> QED
    BY <2>1, <2>2, <2>3, <2>4, <2>5, <2>6, <2>7
<1>4. Get(b7, 1, 1) = r.last
  <2>1. Get(b2, 1, 1) = r.last
    BY <1>1, <1>2, GetPut DEF b2
  <2>2. Get(b3, 1, 1) = Get(b2, 1, 1)
    BY <1>1, <1>2, GetOther DEF b3
  <2>3. Get(b4, 1, 1) = Get(b3, 1, 1)
    BY <1>1, <1>2, GetOther DEF b4
  <2>4. Get(b5, 1, 1) = Get(b4, 1, 1)
    BY <1>1, <1>2, GetOther DEF b5
  <2>5. Get(b6, 1, 1) = Get(b5, 1, 1)
    BY <1>1, <1>2, GetOther DEF b6
  <2>6. Get(b7, 1, 1) = Get(b6, 1, 1)
    BY <1>1, <1>2, GetOther DEF b7
  <2> QED
    BY <2>1, <2>2, <2>3, <2>4, <2>5, <2>6
<1>5. Get(b7, 2, MAX_BOX_NAME) = r.box_name
  <2>1. Get(b3, 2, MAX_BOX_NAME) = r.box_name
    BY <1>1, <1>2, GetPut DEF b3
  <2>2. Get(b4, 2, MAX_BOX_NAME) = Get(b3, 2, MAX_BOX_NAME)
    BY <1>1, <1>2, GetOther DEF b4
  <2>3. Get(b5, 2, MAX_BOX_NAME) = Get(b4, 2, MAX_BOX_NAME)
    BY <1>1, <1>2, GetOther DEF b5
  <2>4. Get(b6, 2, MAX_BOX_NAME) = Get(b5, 2, MAX_BOX_NAME)
    BY <1>1, <1>2, GetOther DEF b6
  <2>5. Get(b7, 2, MAX_BOX_NAME) = Get(b6, 2, MAX_BOX_NAME)
    BY <1>1, <1>2, GetOther DEF b7
  <2> QED
    BY <2>1, <2>2, <2>3, <2>4, <2>5
<1>6. Get(b7, 2 + MAX_BOX_NAME, UINT64) = r.box_size
  <2>1. Get(b4, 2 + MAX_BOX_NAME, UINT64) = r.box_size
    BY <1>1, <1>2, GetPut DEF b4
  <2>2. Get(b5, 2 + MAX_BOX_NAME, UINT64) = Get(b4, 2 + MAX_BOX_NAME, UINT64)
    BY <1>1, <1>2, GetOther DEF b5
  <2>3. Get(b6, 2 + MAX_BOX_NAME, UINT64) = Get(b5, 2 + MAX_BOX_NAME, UINT64)
    BY <1>1, <1>2, GetOther DEF b6
  <2>4. Get(b7, 2 + MAX_BOX_NAME, UINT64) = Get(b6, 2 + MAX_BOX_NAME, UINT64)
    BY <1>1, <1>2, GetOther DEF b7
  <2> QED
    BY <2>1, <2>2, <2>3, <2>4
<1>7. Get(b7, 2 + MAX_BOX_NAME + UINT64, UINT64) = r.n_pubs
  <2>1. Get(b5, 2 + MAX_BOX_NAME + UINT64, UINT64) = r.n_pubs
    BY <1>1, <1>2, GetPut DEF b5
  <2>2. Get(b6, 2 + MAX_BOX_NAME + UINT64, UINT64) = Get(b5, 2 + MAX_BOX_NAME + UINT64, UINT64)
    BY <1>1, <1>2, GetOther DEF b6
  <2>3. Get(b7, 2 + MAX_BOX_NAME + UINT64, UINT64) = Get(b6, 2 + MAX_BOX_NAME + UINT64, UINT64)
    BY <1>1, <1>2, GetOther DEF b7
  <2> QED
    BY <2>1, <2>2, <2>3
<1>8. Get(b7, 2 + MAX_BOX_NAME + 2 * UINT64, UINT64) = r.n_subs
  <2>1. Get(b6, 2 + MAX_BOX_NAME + 2 * UINT64, UINT64) = r.n_subs
    BY <1>1, <1>2, GetPut DEF b6
  <2>2. Get(b7, 2 + MAX_BOX_NAME + 2 * UINT64, UINT64) = Get(b6, 2 + MAX_BOX_NAME + 2 * UINT64, UINT64)
    BY <1>1, <1>2, GetOther DEF b7
  <2> QED
    BY <2>1, <2>2
<1>9. Get(b7, 2 + MAX_BOX_NAME + 3 * UINT64, MAX_PASSWORD) = r.box_password
  BY <1>1, <1>2, GetPut DEF b7
<1>10. writer_stc_list_response(r, buffer) = b7
  BY DEF writer_stc_list_response, b1, b2, b3, b4, b5, b6, b7
<1> QED
  BY <1>1, <1>3, <1>4, <1>5, <1>6, <1>7, <1>8, <1>9, <1>10 DEF CodeOf

(* A new password lies behind the request it comes with. *)
LEMMA NewPasswordLayout ==
  ASSUME NEW r
  PROVE  LET b == writer_stc_new_password(r, Blank)
             lock == r.request_lock
         IN /\ CodeOf(b) = lock.code
            /\ Get(b, 1, MAX_PIPE_NAME) = lock.pipe_name
            /\ Get(b, 1 + MAX_PIPE_NAME, MAX_BOX_NAME) = lock.box_name
            /\ Get(b, 1 + MAX_PIPE_NAME + MAX_BOX_NAME, MAX_PASSWORD) = lock.box_password
            /\ Get(b, 1 + MAX_PIPE_NAME + MAX_BOX_NAME + MAX_PASSWORD, MAX_PASSWORD)
                 = r.new_password
<1> DEFINE lock == r.request_lock
           at == 1 + MAX_PIPE_NAME + MAX_BOX_NAME + MAX_PASSWORD
           a == writer_stc_request(lock, Blank)
           b == Put(a, at, MAX_PASSWORD, r.new_password)
<1> USE Sizes
<1>1. /\ DOMAIN a = 0 .. MAX_LINE - 1
      /\ CodeOf(a) = lock.code
      /\ Get(a, 1, MAX_PIPE_NAME) = lock.pipe_name
      /\ Get(a, 1 + MAX_PIPE_NAME, MAX_BOX_NAME) = lock.box_name
      /\ Get(a, 1 + MAX_PIPE_NAME + MAX_BOX_NAME, MAX_PASSWORD) = lock.box_password
  BY RequestLayout, BlankDomain
<1>2. /\ 1 + MAX_PIPE_NAME \in Nat /\ 1 + MAX_PIPE_NAME + MAX_BOX_NAME \in Nat
      /\ at \in Nat /\ at + MAX_PASSWORD <= MAX_LINE
  BY WireAssumption
<1>3. writer_stc_new_password(r, Blank) = b
  BY DEF writer_stc_new_password
<1> HIDE DEF a
<1>4. Get(b, 0, 1) = Get(a, 0, 1)
  BY <1>1, <1>2, GetOther
<1>5. Get(b, 1, MAX_PIPE_NAME) = Get(a, 1, MAX_PIPE_NAME)
  BY <1>1, <1>2, GetOther
<1>6. Get(b, 1 + MAX_PIPE_NAME, MAX_BOX_NAME) = Get(a, 1 + MAX_PIPE_NAME, MAX_BOX_NAME)
  BY <1>1, <1>2, GetOther
<1>7. Get(b, 1 + MAX_PIPE_NAME + MAX_BOX_NAME, MAX_PASSWORD)
        = Get(a, 1 + MAX_PIPE_NAME + MAX_BOX_NAME, MAX_PASSWORD)
  BY <1>1, <1>2, GetOther
<1>8. Get(b, at, MAX_PASSWORD) = r.new_password
  BY <1>1, <1>2, GetPut
<1> QED
  BY <1>1, <1>3, <1>4, <1>5, <1>6, <1>7, <1>8 DEF CodeOf

-----------------------------------------------------------------------------
(* The messages of each code, with fields from a set of values. *)
RequestMessages(code, Values) ==
  [code : {code}, pipe_name : Values, box_name : Values, box_password : Values]

Messages(code, Values) ==
  CASE code \in {4, 6, 12, 14} -> [code : {code}, return_code : Values, error_message : Values]
    [] code = 7                -> [code : {code}, pipe_name : Values]
    [] code = 8                -> [code : {code}, last : Values, box_name : Values,
                                   box_size : Values, n_pubs : Values, n_subs : Values,
                                   box_password : Values]
    [] code \in {9, 10}        -> [code : {code}, message : Values]
    [] code = 13               -> [request_lock : RequestMessages(13, Values),
                                   new_password : Values]
    [] OTHER                   -> RequestMessages(code, Values)

(* Every message is read as it was written, whatever its fields hold and   *)
(* however long they are: the offsets that writer_stc and reader_stc       *)
(* compute, each for itself, agree and no field runs into another.         *)
THEOREM RoundTrip ==
  ASSUME NEW Values, NEW code \in Nat, NEW r \in Messages(code, Values)
  PROVE  reader_stc(writer_stc(r, code)) = r
<1>1. CASE code \in {4, 6, 12, 14}
  <2> DEFINE b == writer_stc_response_manager(r, Blank)
  <2>1. r \in [code : {code}, return_code : Values, error_message : Values]
    BY <1>1 DEF Messages
  <2>2. writer_stc(r, code) = b
    BY <1>1 DEF writer_stc
  <2>3. CodeOf(b) = code /\ Get(b, 1, INT32) = r.return_code
        /\ Get(b, 1 + INT32, MAX_MESSAGE) = r.error_message
    BY <2>1, ResponseLayout, BlankDomain
  <2> HIDE DEF b
  <2>4. reader_stc(b) = reader_stc_response_manager(code, b)
    BY <1>1, <2>3 DEF reader_stc
  <2>5. reader_stc_response_manager(code, b) = r
    BY <2>1, <2>3 DEF reader_stc_response_manager
  <2> QED
    BY <2>2, <2>4, <2>5
<1>2. CASE code = 7
  <2> DEFINE b == writer_stc_list_request(r, Blank)
  <2>1. r \in [code : {code}, pipe_name : Values]
    BY <1>2 DEF Messages
  <2>2. writer_stc(r, code) = b
    BY <1>2 DEF writer_stc
  <2>3. CodeOf(b) = code /\ Get(b, 1, MAX_PIPE_NAME) = r.pipe_name
    BY <2>1, ListRequestLayout, BlankDomain
  <2> HIDE DEF b
  <2>4. reader_stc(b) = reader_stc_list_request(code, b)
    BY <1>2, <2>3 DEF reader_stc
  <2>5. reader_stc_list_request(code, b) = r
    BY <2>1, <2>3 DEF reader_stc_list_request
  <2> QED
    BY <2>2, <2>4, <2>5
<1>3. CASE code = 8
  <2> DEFINE b == writer_stc_list_response(r, Blank)
             size == 2 + MAX_BOX_NAME
  <2>1. r \in [code : {code}, last : Values, box_name : Values, box_size : Values,
               n_pubs : Values, n_subs : Values, box_password : Values]
    BY <1>3 DEF Messages
  <2>2. writer_stc(r, code) = b
    BY <1>3 DEF writer_stc
  <2>3. /\ CodeOf(b) = code /\ Get(b, 1, 1) = r.last /\ Get(b, 2, MAX_BOX_NAME) = r.box_name
        /\ Get(b, size, UINT64) = r.box_size /\ Get(b, size + UINT64, UINT64) = r.n_pubs
        /\ Get(b, size + 2 * UINT64, UINT64) = r.n_subs
        /\ Get(b, size + 3 * UINT64, MAX_PASSWORD) = r.box_password
    BY <2>1, ListResponseLayout, BlankDomain
  <2> HIDE DEF b
  <2>4. reader_stc(b) = reader_stc_list_response(code, b)
    BY <1>3, <2>3 DEF reader_stc
  <2>5. reader_stc_list_response(code, b) = r
    BY <2>1, <2>3 DEF reader_stc_list_response
  <2> QED
    BY <2>2, <2>4, <2>5
<1>4. CASE code \in {9, 10}
  <2> DEFINE b == writer_stc_message(r, Blank)
  <2>1. r \in [code : {code}, message : Values]
    BY <1>4 DEF Messages
  <2>2. writer_stc(r, code) = b
    BY <1>4 DEF writer_stc
  <2>3. CodeOf(b) = code /\ Get(b, 1, MAX_MESSAGE) = r.message
    BY <2>1, MessageLayout, BlankDomain
  <2> HIDE DEF b
  <2>4. reader_stc(b) = reader_stc_message(code, b)
    BY <1>4, <2>3 DEF reader_stc
  <2>5. reader_stc_message(code, b) = r
    BY <2>1, <2>3 DEF reader_stc_message
  <2> QED
    BY <2>2, <2>4, <2>5
<1>5. CASE code = 13
  <2> DEFINE b == writer_stc_new_password(r, Blank)
             box == 1 + MAX_PIPE_NAME
  <2>1. /\ r \in [request_lock : RequestMessages(13, Values), new_password : Values]
        /\ r.request_lock \in RequestMessages(13, Values)
    BY <1>5 DEF Messages
  <2>2. writer_stc(r, code) = b
    BY <1>5 DEF writer_stc
  <2>3. /\ CodeOf(b) = 13
        /\ Get(b, 1, MAX_PIPE_NAME) = r.request_lock.pipe_name
        /\ Get(b, box, MAX_BOX_NAME) = r.request_lock.box_name
        /\ Get(b, box + MAX_BOX_NAME, MAX_PASSWORD) = r.request_lock.box_password
        /\ Get(b, box + MAX_BOX_NAME + MAX_PASSWORD, MAX_PASSWORD) = r.new_password
    BY <2>1, NewPasswordLayout DEF RequestMessages
  <2> HIDE DEF b
  <2>4. reader_stc(b) = reader_stc_new_password(13, b)
    BY <2>3 DEF reader_stc
  <2>5. reader_stc_request(13, b) = r.request_lock
    BY <2>1, <2>3 DEF reader_stc_request, RequestMessages
  <2>6. reader_stc_new_password(13, b) = r
    BY <2>1, <2>3, <2>5 DEF reader_stc_new_password
  <2> QED
    BY <2>2, <2>4, <2>6
<1>6. CASE code \notin {4, 6, 7, 8, 9, 10, 12, 13, 14}
  <2> DEFINE b == writer_stc_request(r, Blank)
             box == 1 + MAX_PIPE_NAME
  <2>1. r \in [code : {code}, pipe_name : Values, box_name : Values, box_password : Values]
    BY <1>6 DEF Messages, RequestMessages
  <2>2. writer_stc(r, code) = b
    BY <1>6 DEF writer_stc
  <2>3. /\ CodeOf(b) = code
        /\ Get(b, 1, MAX_PIPE_NAME) = r.pipe_name
        /\ Get(b, box, MAX_BOX_NAME) = r.box_name
        /\ Get(b, box + MAX_BOX_NAME, MAX_PASSWORD) = r.box_password
    BY <2>1, RequestLayout, BlankDomain
  <2> HIDE DEF b
  <2>4. reader_stc(b) = reader_stc_request(code, b)
    BY <1>6, <2>3 DEF reader_stc
  <2>5. reader_stc_request(code, b) = r
    BY <2>1, <2>3 DEF reader_stc_request
  <2> QED
    BY <2>2, <2>4, <2>5
<1> QED
  BY <1>1, <1>2, <1>3, <1>4, <1>5, <1>6
=============================================================================
