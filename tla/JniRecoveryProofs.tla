-------------------------- MODULE JniRecoveryProofs --------------------------
(***************************************************************************)
(* Proofs about JniRecovery, for any words, signatures and sequence of       *)
(* calls: the recovered body declares what it uses, keeps every effect in    *)
(* order, names the receiver and the first argument, and returns what RAX    *)
(* means, where the shadow registers hold no other word's text.              *)
(***************************************************************************)
EXTENDS JniRecovery, TLAPS

\* What a call can pass at most.
Words == Known \union Scalars

-----------------------------------------------------------------------------
(* Types.                                                                   *)

\* A function on the domain of a sequence is a sequence.
LEMMA Tuple ==
  ASSUME NEW S, NEW T, NEW s \in Seq(S), NEW f, f = [n \in DOMAIN s |-> f[n]],
         \A n \in DOMAIN s : f[n] \in T
  PROVE  f \in Seq(T) /\ DOMAIN f = DOMAIN s /\ (f = <<>> <=> s = <<>>)
<1>1. DOMAIN s = 1..Len(s) /\ Len(s) \in Nat
  OBVIOUS
<1>2. f \in Seq(T) /\ DOMAIN f = 1..Len(s)
  BY <1>1
<1>3. Len(f) = Len(s)
  BY <1>1, <1>2
<1> QED BY <1>1, <1>2, <1>3

LEMMA RenderType ==
  ASSUME TypeOK, NEW word \in Int
  PROVE  /\ Render(word) \in Expression
         /\ \A parameter : RenderAs(parameter, word) \in Expression
<1>1. \A h \in Known : TextOf(handles[h]) \in Expression
  <2>1. \A h \in Known : handles[h] \in Handle
    BY DEF TypeOK, Known
  <2>2. Display \in Expression
    BY DEF Display, Name, Expression, Sorts
  <2> QED BY <2>1, <2>2 DEF Handle, TextOf
<1>2. Name("scalar", word) \in Expression /\ Null \in Expression
  BY DEF Name, Null, Expression, Sorts
<1> QED BY <1>1, <1>2 DEF Render, RenderAs

LEMMA ConstantTypes ==
  /\ Null \in Expression /\ Owner \in Expression /\ Unknown \in Expression
  /\ NoException \in Expression /\ This \in Expression /\ Display \in Expression
  /\ Bare \in Expression /\ Empty \in Expression
  /\ \A sort \in Sorts, n \in Int : /\ Name(sort, n) \in Expression
                                    /\ Name(sort, n).sort = sort /\ Name(sort, n).n = n
BY DEF Null, Owner, Unknown, NoException, This, Display, Bare, Empty, Name, Expression, Sorts

\* What a step may do to the handles.
Grows == \/ handles' = handles
         \/ \E h \in Handle : /\ h.kind = "Method" => h.text = Empty
                            /\ handles' = Append(handles, h)

\* A method handle has no text.
Untitled == \A h \in Known : handles[h].kind = "Method" => handles[h].text = Empty

LEMMA Grown ==
  ASSUME handles \in Seq(Handle), Grows
  PROVE  /\ handles' \in Seq(Handle)
         /\ Known \subseteq Known'
         /\ Known' \subseteq Nat /\ -1 \notin Known'
         /\ \A h \in Known : handles'[h] = handles[h]
         /\ \A h \in Known' \ Known : h = Len(handles) + 1
         /\ Untitled => Untitled'
BY DEF Grows, Known, Untitled, Empty, Name

-----------------------------------------------------------------------------
(* The inductive invariant.                                                 *)

\* If e is a variable, the body declares it.
Declared(body, e) == e.sort \in {"result", "object"} =>
                       \E j \in DOMAIN body : body[j].declares = e

\* Whatever a later statement can mention is declared.
Nameable == /\ \A h \in Known : Declared(statements, handles[h].text)
            /\ Declared(statements, rax.text)

\* next_name has given out the declared names.
Numbered ==
  \A i \in DOMAIN statements : statements[i].declares # Null =>
    /\ statements[i].declares.sort \in {"result", "object"}
    /\ statements[i].declares.n <= counters[statements[i].declares.sort]

\* Every statement stems from a call, and what calls passed is known.
Linked == \A i \in DOMAIN statements : /\ statements[i].call \in DOMAIN calls
                                       /\ statements[i].form = calls[statements[i].call].form

Passed ==
  \A k \in DOMAIN calls :
    /\ \A n \in DOMAIN calls[k].arguments : calls[k].arguments[n] \in Words
    /\ calls[k].form \in {"void", "object"} => calls[k].receiver \in Words
                                               /\ calls[k].method \in Known

\* The handle in RAX says what RAX means, and so does the shadow of RAX, where it has a
\* text and the target left no other there.
RaxSound == /\ rax.text \notin {Unknown, NoException, Empty} /\ ~rax.stale => rax.text = rax.means
            /\ rax.word \in Known => TextOf(handles[rax.word]) = rax.means
            /\ rax.stale => rax.text # Unknown

Open == ended = "no" => \A i \in DOMAIN statements : statements[i].form # "return"

Body == DeclaredBeforeUse /\ EffectsKept /\ ReceiverAndFirstArgument
        /\ Numbered /\ Linked /\ Passed

Inv == TypeOK /\ Body /\ Untitled /\ Nameable /\ RaxSound /\ Open /\ ReturnFaithful

-----------------------------------------------------------------------------
(* The body under a step.                                                   *)

\* The call is one that leaves no statement.
Excused(call) == \/ call.form = "value"
                 \/ /\ call.form = "void" /\ call.arguments = <<>>
                    /\ call.receiver \in Words /\ call.method \in Known
                    /\ handles[call.method].constructor

LEMMA WordsGrow ==
  ASSUME handles \in Seq(Handle), Grows
  PROVE  /\ Words \subseteq Words'
         /\ \A word \in Words : word \in Known' => word \in Known
<1>1. /\ Known \subseteq Known' /\ Known' \subseteq Nat
  BY Grown
<1> QED BY <1>1, RecoveryAssumption DEF Words

\* What ReceiverAndFirstArgument says of statement i.
Rendered(i) ==
  LET call == calls[statements[i].call] IN
    /\ /\ statements[i].form \in {"void", "object"} /\ call.via # "static"
       /\ call.receiver \in Known
       /\ call.shadow \in {Unknown, TextOf(handles[call.receiver])}
       => statements[i].receiver = TextOf(handles[call.receiver])
    /\ call.arguments # <<>> =>
         IF call.via = "nonvirtual" THEN statements[i].arguments[1] = Display
         ELSE call.via # "list" => Names(i, 1)

\* It stays true of a statement that stays.
LEMMA RenderedStays ==
  ASSUME NEW i, Rendered(i), statements'[i] = statements[i],
         calls'[statements[i].call] = calls[statements[i].call],
         calls[statements[i].call] \in Invocation,
         statements[i].form = calls[statements[i].call].form,
         \A n \in DOMAIN calls[statements[i].call].arguments :
           calls[statements[i].call].arguments[n] \in Words,
         calls[statements[i].call].form \in {"void", "object"} =>
           calls[statements[i].call].receiver \in Words,
         \A h \in Known : handles'[h] = handles[h],
         \A word \in Words : word \in Known' => word \in Known
  PROVE  Rendered(i)'
<1> DEFINE call == calls[statements[i].call]
<1>1. /\ Unknown' = Unknown /\ Display' = Display /\ Empty' = Empty
      /\ \A h \in Known : handles'[h] = handles[h]
  BY DEF Unknown, Display, Empty, Name
<1>2. call.arguments # <<>> => 1 \in DOMAIN call.arguments /\ call.arguments[1] \in Words
  <2>1. call.arguments \in Seq(Int)
    BY DEF Invocation
  <2> QED BY <2>1
<1>3. call.arguments # <<>> /\ Names(i, 1) => Names(i, 1)'
  BY <1>1, <1>2 DEF Names, TextOf
<1>4. /\ statements[i].form \in {"void", "object"} /\ call.via # "static"
      /\ call.receiver \in Known' /\ call.shadow \in {Unknown, TextOf(handles'[call.receiver])}
      => statements[i].receiver = TextOf(handles'[call.receiver])
  BY <1>1 DEF Rendered, TextOf
<1> QED BY <1>1, <1>3, <1>4 DEF Rendered, TextOf

\* A step that adds no statement.
LEMMA Still ==
  ASSUME TypeOK, Body, Grows, UNCHANGED <<statements, counters>>,
         \/ calls' = calls
         \/ \E call \in Invocation :
              /\ calls' = Append(calls, call)
              /\ \A n \in DOMAIN call.arguments : call.arguments[n] \in Words
              /\ Excused(call)
  PROVE  Body'
<1>0. handles \in Seq(Handle) /\ calls \in Seq(Invocation)
  BY DEF TypeOK
<1>1. /\ Known \subseteq Known' /\ \A h \in Known : handles'[h] = handles[h]
      /\ Words \subseteq Words' /\ \A word \in Words : word \in Known' => word \in Known
  BY <1>0, Grown, WordsGrow
<1>2. /\ DOMAIN calls \subseteq DOMAIN calls' /\ \A k \in DOMAIN calls : calls'[k] = calls[k]
      /\ \A k \in DOMAIN calls' \ DOMAIN calls :
           /\ \A n \in DOMAIN calls'[k].arguments : calls'[k].arguments[n] \in Words
           /\ Excused(calls'[k])
  <2>1. CASE calls' = calls
    BY <2>1
  <2>2. CASE calls' # calls
    <3>1. PICK call \in Invocation :
            /\ calls' = Append(calls, call)
            /\ \A n \in DOMAIN call.arguments : call.arguments[n] \in Words
            /\ Excused(call)
      BY <2>2
    <3>2. /\ DOMAIN calls' = DOMAIN calls \union {Len(calls) + 1}
          /\ calls'[Len(calls) + 1] = call
          /\ \A k \in DOMAIN calls : calls'[k] = calls[k]
      BY <1>0, <3>1
    <3> QED BY <3>1, <3>2
  <2> QED BY <2>1, <2>2
<1>3. DeclaredBeforeUse'
  BY DEF Body, DeclaredBeforeUse, Mentioned, Null, Name
<1>4. Numbered'
  BY DEF Body, Numbered, Null, Name
<1>5. Linked'
  BY <1>2 DEF Body, Linked
<1>6. Passed'
  BY <1>1, <1>2 DEF Body, Passed, Excused
<1>7. EffectsKept'
  <2>1. \A k \in DOMAIN calls :
          calls[k].form = "void" => handles'[calls[k].method] = handles[calls[k].method]
    BY <1>1 DEF Body, Passed
  <2>2. \A k \in DOMAIN calls' \ DOMAIN calls :
          \/ calls'[k].form = "value"
          \/ /\ calls'[k].form = "void" /\ calls'[k].arguments = <<>>
             /\ handles'[calls'[k].method].constructor
    BY <1>1, <1>2 DEF Excused
  <2> QED BY <1>2, <2>1, <2>2 DEF Body, EffectsKept
<1>8. ReceiverAndFirstArgument'
  <2>1. ASSUME NEW i \in DOMAIN statements
        PROVE  calls[statements[i].call] \in Invocation
               /\ calls'[statements[i].call] = calls[statements[i].call]
               /\ statements[i].call \in DOMAIN calls
               /\ statements[i].form = calls[statements[i].call].form
    BY <1>0, <1>2 DEF Body, Linked
  <2>2. ASSUME NEW i \in DOMAIN statements PROVE Rendered(i)'
    <3>1. Rendered(i)
      BY DEF Body, ReceiverAndFirstArgument, Rendered
    <3> QED BY <1>1, <2>1, <3>1, RenderedStays DEF Body, Passed
  <2> QED BY <2>2 DEF ReceiverAndFirstArgument, Rendered
<1> QED BY <1>3, <1>4, <1>5, <1>6, <1>7, <1>8 DEF Body

\* A step that adds a statement: what it must say.
Says(st, call) ==
  /\ st.call = Len(calls) + 1
  /\ st.form = call.form
  /\ \A e \in Mentioned(st) : Declared(statements, e)
  /\ \A n \in DOMAIN call.arguments : call.arguments[n] \in Words
  /\ call.form \in {"void", "object"} =>
       /\ call.receiver \in Words /\ call.method \in Known
       /\ /\ call.via # "static" /\ call.receiver \in Known
          /\ call.shadow \in {Unknown, TextOf(handles[call.receiver])}
          => st.receiver = TextOf(handles[call.receiver])
  /\ call.arguments # <<>> =>
       IF call.via = "nonvirtual" THEN st.arguments[1] = Display
       ELSE call.via # "list" /\ call.arguments[1] \in Known =>
              1 \in DOMAIN st.arguments
              /\ st.arguments[1] = TextOf(handles[call.arguments[1]])

Counts(st) ==
  \/ st.declares = Null /\ counters' = counters
  \/ \E sort \in {"result", "object"} :
       st.declares = NextName(sort) /\ counters' = [counters EXCEPT ![sort] = @ + 1]

LEMMA Added ==
  ASSUME TypeOK, Body, Grows, NEW st \in Statement, NEW call \in Invocation,
         statements' = Append(statements, st), calls' = Append(calls, call),
         Says(st, call), Counts(st)
  PROVE  Body'
<1>0. /\ handles \in Seq(Handle) /\ calls \in Seq(Invocation) /\ statements \in Seq(Statement)
      /\ counters \in [{"result", "object"} -> Nat]
  BY DEF TypeOK
<1>1. /\ Known \subseteq Known' /\ \A h \in Known : handles'[h] = handles[h]
      /\ Words \subseteq Words' /\ \A word \in Words : word \in Known' => word \in Known
  BY <1>0, Grown, WordsGrow
<1> DEFINE k0 == Len(calls) + 1
           i0 == Len(statements) + 1
<1>2. /\ DOMAIN calls' = DOMAIN calls \union {k0} /\ calls'[k0] = call /\ k0 \notin DOMAIN calls
      /\ \A k \in DOMAIN calls : calls'[k] = calls[k] /\ k < k0
  BY <1>0
<1>3. /\ DOMAIN statements' = DOMAIN statements \union {i0} /\ statements'[i0] = st
      /\ \A i \in DOMAIN statements : statements'[i] = statements[i] /\ i < i0 /\ i \in Nat /\ i > 0
      /\ i0 \in Nat
  BY <1>0
<1>4. /\ st.call = k0 /\ st.form = call.form
  BY DEF Says
<1> HIDE DEF k0, i0
<1>5. DeclaredBeforeUse'
  <2>1. \A i \in DOMAIN statements : statements[i].declares # Null =>
          statements[i].declares # st.declares
    <3> SUFFICES ASSUME NEW i \in DOMAIN statements, statements[i].declares # Null,
                        statements[i].declares = st.declares
                 PROVE  FALSE
      OBVIOUS
    <3>1. PICK sort \in {"result", "object"} : st.declares = NextName(sort)
      BY DEF Counts
    <3>2. st.declares.sort = sort /\ st.declares.n = counters[sort] + 1
      BY <3>1 DEF NextName, Name
    <3>3. st.declares.n <= counters[sort] /\ counters[sort] \in Nat
      BY <1>0, <3>2 DEF Body, Numbered
    <3> QED BY <3>2, <3>3
  <2>2. \A e \in Mentioned(st) : e.sort \in {"result", "object"} =>
          \E j \in 1..(i0 - 1) : statements'[j].declares = e
    <3>1. \A j \in DOMAIN statements : j \in 1..(i0 - 1)
      BY <1>3
    <3> QED BY <1>3, <3>1 DEF Says, Declared
  <2>3. \A i \in DOMAIN statements : \A e \in Mentioned(statements[i]) :
          e.sort \in {"result", "object"} =>
            \E j \in 1..(i - 1) : statements'[j].declares = e
    <3>1. \A i \in DOMAIN statements, j \in Int : j \in 1..(i - 1) => j \in DOMAIN statements
      BY <1>0
    <3> QED BY <1>3, <3>1 DEF Body, DeclaredBeforeUse
  <2>4. \A x : Mentioned(x)' = Mentioned(x)
    BY DEF Mentioned
  <2>5. \A i \in DOMAIN statements' : \A e \in Mentioned(statements'[i]) :
          e.sort \in {"result", "object"} => \E j \in 1..(i - 1) : statements'[j].declares = e
    BY <1>3, <2>2, <2>3
  <2>6. \A i, j \in DOMAIN statements' :
          statements'[i].declares = statements'[j].declares /\ statements'[i].declares # Null
            => i = j
    BY <1>3, <2>1 DEF Body, DeclaredBeforeUse
  <2>7. Null' = Null
    BY DEF Null, Name
  <2> QED BY <2>4, <2>5, <2>6, <2>7 DEF DeclaredBeforeUse
<1>6. Numbered'
  <2>1. ASSUME NEW sort \in {"result", "object"}
        PROVE  /\ counters[sort] \in Nat /\ counters'[sort] \in Nat
               /\ counters[sort] <= counters'[sort]
    <3>1. CASE counters' = counters
      BY <1>0, <3>1
    <3>2. CASE \E x \in {"result", "object"} : counters' = [counters EXCEPT ![x] = @ + 1]
      BY <1>0, <3>2
    <3> QED BY <3>1, <3>2 DEF Counts
  <2>2. ASSUME NEW i \in DOMAIN statements, statements[i].declares # Null
        PROVE  /\ statements[i].declares.sort \in {"result", "object"}
               /\ statements[i].declares.n <= counters'[statements[i].declares.sort]
    <3>1. /\ statements[i].declares.sort \in {"result", "object"}
          /\ statements[i].declares.n <= counters[statements[i].declares.sort]
      BY <2>2 DEF Body, Numbered
    <3>2. statements[i] \in Statement
      BY <1>0
    <3>3. statements[i].declares.n \in Int
      BY <3>2 DEF Statement, Expression
    <3> QED BY <2>1, <3>1, <3>3
  <2>3. ASSUME st.declares # Null
        PROVE  /\ st.declares.sort \in {"result", "object"}
               /\ st.declares.n <= counters'[st.declares.sort]
    <3>1. PICK sort \in {"result", "object"} :
            st.declares = NextName(sort) /\ counters' = [counters EXCEPT ![sort] = @ + 1]
      BY <2>3 DEF Counts
    <3> QED BY <1>0, <3>1 DEF NextName, Name
  <2>4. Null' = Null
    BY DEF Null, Name
  <2>5. ASSUME NEW i \in DOMAIN statements', statements'[i].declares # Null
        PROVE  /\ statements'[i].declares.sort \in {"result", "object"}
               /\ statements'[i].declares.n <= counters'[statements'[i].declares.sort]
    BY <1>3, <2>2, <2>3, <2>5
  <2> QED BY <2>4, <2>5 DEF Numbered
<1>7. Linked'
  BY <1>2, <1>3, <1>4 DEF Body, Linked
<1>8. Passed'
  BY <1>1, <1>2 DEF Body, Passed, Says
<1>9. EffectsKept'
  <2>1. \A i, j \in DOMAIN statements' : i < j => statements'[i].call < statements'[j].call
    BY <1>2, <1>3, <1>4 DEF Body, EffectsKept, Linked
  <2>2. \A k \in DOMAIN calls :
          calls[k].form = "void" => handles'[calls[k].method] = handles[calls[k].method]
    BY <1>1 DEF Body, Passed
  <2>3. \A k \in DOMAIN calls' :
          \/ \E i \in DOMAIN statements' : statements'[i].call = k
          \/ calls'[k].form = "value"
          \/ /\ calls'[k].form = "void" /\ calls'[k].arguments = <<>>
             /\ handles'[calls'[k].method].constructor
    BY <1>2, <1>3, <1>4, <2>2 DEF Body, EffectsKept
  <2> QED BY <2>1, <2>3 DEF EffectsKept
<1>10. ReceiverAndFirstArgument'
  <2>1. ASSUME NEW i \in DOMAIN statements PROVE Rendered(i)'
    <3>1. /\ statements[i].call \in DOMAIN calls
          /\ calls'[statements[i].call] = calls[statements[i].call]
          /\ statements'[i] = statements[i]
          /\ statements[i].form = calls[statements[i].call].form
          /\ calls[statements[i].call] \in Invocation
      BY <1>0, <1>2, <1>3 DEF Body, Linked
    <3>2. Rendered(i)
      BY DEF Body, ReceiverAndFirstArgument, Rendered
    <3> QED BY <1>1, <3>1, <3>2, RenderedStays DEF Body, Passed
  <2>2. ASSUME NEW i, i = i0 PROVE Rendered(i)'
    <3>1. /\ statements'[i] = st /\ calls'[st.call] = call
      BY <1>2, <1>3, <1>4, <2>2
    <3>2. call.arguments # <<>> => 1 \in DOMAIN call.arguments /\ call.arguments[1] \in Words
      <4>1. call.arguments \in Seq(Int)
        BY DEF Invocation
      <4> QED BY <4>1 DEF Says
    <3>3. /\ Unknown' = Unknown /\ Display' = Display /\ Empty' = Empty
      BY DEF Unknown, Display, Empty, Name
    <3>4. /\ st.form \in {"void", "object"} /\ call.via # "static" /\ call.receiver \in Known'
          /\ call.shadow \in {Unknown, TextOf(handles'[call.receiver])}
          => st.receiver = TextOf(handles'[call.receiver])
      BY <1>1, <1>4 DEF Says, TextOf
    <3>5. call.arguments # <<>> =>
            IF call.via = "nonvirtual" THEN st.arguments[1] = Display
            ELSE call.via # "list" => Names(i, 1)'
      <4>1. Names(i, 1)' <=>
              (call.arguments[1] \in Known' =>
                 /\ 1 \in DOMAIN st.arguments
                 /\ st.arguments[1] = TextOf(handles'[call.arguments[1]]))
        BY <3>1, <3>3 DEF Names, TextOf
      <4> QED BY <1>1, <3>2, <4>1 DEF Says
    <3>6. Rendered(i)' <=>
            /\ /\ st.form \in {"void", "object"} /\ call.via # "static" /\ call.receiver \in Known'
               /\ call.shadow \in {Unknown, TextOf(handles'[call.receiver])}
               => st.receiver = TextOf(handles'[call.receiver])
            /\ call.arguments # <<>> =>
                 IF call.via = "nonvirtual" THEN st.arguments[1] = Display
                 ELSE call.via # "list" => Names(i, 1)'
      BY <3>1, <3>3 DEF Rendered, TextOf
    <3> QED BY <3>4, <3>5, <3>6
  <2>3. ASSUME NEW i \in DOMAIN statements' PROVE Rendered(i)'
    BY <1>3, <2>1, <2>2
  <2> QED BY <2>3 DEF ReceiverAndFirstArgument, Rendered
<1> QED BY <1>5, <1>6, <1>7, <1>8, <1>9, <1>10 DEF Body

-----------------------------------------------------------------------------
(* What the steps share.                                                    *)

Extends == \/ statements' = statements
           \/ \E st \in Statement : statements' = Append(statements, st)

RaxType == [word : Int, text : Expression, means : Expression, stale : BOOLEAN]

\* What is declared stays declared.
LEMMA DeclaredStays ==
  ASSUME TypeOK, Extends
  PROVE  /\ statements' \in Seq(Statement)
         /\ \A e : Declared(statements, e) => Declared(statements', e)
<1>1. statements \in Seq(Statement)
  BY DEF TypeOK
<1>2. /\ statements' \in Seq(Statement)
      /\ \A j \in DOMAIN statements : j \in DOMAIN statements' /\ statements'[j] = statements[j]
  BY <1>1 DEF Extends
<1> QED BY <1>2 DEF Declared

LEMMA HandleType ==
  ASSUME TypeOK, NEW h \in Known
  PROVE  /\ h \in Nat /\ handles[h] \in Handle /\ handles[h].text \in Expression
         /\ handles[h].parameters \in Seq({"string", "other"})
         /\ handles[h].constructor \in BOOLEAN
<1>1. h \in Nat /\ handles[h] \in Handle
  BY DEF TypeOK, Known
<1> QED BY <1>1 DEF Handle

LEMMA PlainType ==
  ASSUME NEW kind \in {"Class", "Field", "String", "Object"}, NEW text \in Expression
  PROVE  /\ Plain(kind, text) \in Handle /\ Plain(kind, text).text = text
         /\ Plain(kind, text).kind = kind /\ kind # "Method"
<1>1. <<>> \in Seq({"string", "other"})
  OBVIOUS
<1>2. Plain(kind, text) = [kind |-> kind, text |-> text, owned |-> FALSE,
                           parameters |-> <<>>, constructor |-> FALSE]
  BY DEF Plain
<1> QED BY <1>1, <1>2 DEF Handle

\* A result that is a number.
LEMMA Numeric ==
  ASSUME Inv, handles' = handles, Extends,
         NEW text \in Expression, NEW means \in Expression,
         text.sort \notin {"result", "object"},
         text \notin {Unknown, NoException, Empty} => text = means,
         AnswerNumber(text, means)
  PROVE  rax' \in RaxType /\ Nameable' /\ RaxSound'
<1>1. rax' = [word |-> -1, text |-> text, means |-> means, stale |-> FALSE]
  BY DEF AnswerNumber, Answer, Zero
<1>2. rax' \in RaxType
  BY <1>1 DEF RaxType
<1>3. -1 \notin Known'
  BY DEF Inv, TypeOK, Known
<1>4. Nameable'
  <2>1. \A h \in Known' : Declared(statements', handles'[h].text)
    BY DeclaredStays DEF Inv, Nameable, Known
  <2>2. Declared(statements', rax'.text)
    BY <1>1 DEF Declared
  <2> QED BY <2>1, <2>2 DEF Nameable
<1>5. RaxSound'
  <2>1. /\ rax'.text \notin {Unknown, NoException, Empty} => rax'.text = rax'.means
        /\ ~rax'.stale
    BY <1>1
  <2>2. rax'.word \notin Known'
    BY <1>1, <1>3
  <2>3. Unknown' = Unknown /\ NoException' = NoException /\ Empty' = Empty
    BY DEF Unknown, NoException, Empty, Name
  <2> QED BY <2>1, <2>2, <2>3 DEF RaxSound
<1> QED BY <1>2, <1>4, <1>5

LEMMA Zeroed ==
  ASSUME Inv, handles' = handles, Extends, AnswerZero
  PROVE  rax' \in RaxType /\ Nameable' /\ RaxSound'
<1>1. /\ Unknown \in Expression /\ Unknown.sort \notin {"result", "object"}
      /\ Name("scalar", Zero) \in Expression
  BY ConstantTypes DEF Unknown, Name, Zero, Sorts, Expression
<1>2. AnswerNumber(Unknown, Name("scalar", Zero))
  BY DEF AnswerZero
<1> QED BY <1>1, <1>2, Numeric

\* A result that is a new handle.
LEMMA Handed ==
  ASSUME Inv, Extends, NEW h \in Handle, handles' = Append(handles, h),
         NEW text \in Expression, text \in {Unknown, h.text}, AnswerHandle(text),
         Declared(statements', h.text)
  PROVE  rax' \in RaxType /\ Nameable' /\ RaxSound'
<1> DEFINE h0 == Len(handles) + 1
<1>0. handles \in Seq(Handle)
  BY DEF Inv, TypeOK
<1>1. /\ Known' = Known \union {h0} /\ handles'[h0] = h /\ h0 \in Nat
      /\ \A k \in Known : handles'[k] = handles[k]
  BY <1>0 DEF Known
<1>2. rax' = [word |-> h0, text |-> text, means |-> TextOf(h), stale |-> FALSE]
  BY <1>1 DEF AnswerHandle, Answer
<1>3. h.text \in Expression /\ TextOf(h) \in Expression
  BY ConstantTypes DEF Handle, TextOf
<1> HIDE DEF h0
<1>4. rax' \in RaxType
  BY <1>1, <1>2, <1>3 DEF RaxType
<1>5. Nameable'
  <2>1. \A k \in Known' : Declared(statements', handles'[k].text)
    BY <1>1, DeclaredStays DEF Inv, Nameable
  <2>2. Declared(statements', rax'.text)
    BY <1>2 DEF Declared, Unknown, Name
  <2> QED BY <2>1, <2>2 DEF Nameable
<1>6. RaxSound'
  <2>1. /\ Unknown' = Unknown /\ NoException' = NoException /\ Empty' = Empty
        /\ Display' = Display
    BY DEF Unknown, NoException, Empty, Display, Name
  <2>2. rax'.text \notin {Unknown, NoException, Empty} => rax'.text = rax'.means
    BY <1>2 DEF TextOf
  <2>3. TextOf(handles'[rax'.word]) = rax'.means /\ ~rax'.stale
    BY <1>1, <1>2
  <2> QED BY <2>1, <2>2, <2>3 DEF RaxSound, TextOf
<1> QED BY <1>4, <1>5, <1>6

\* A step while the method runs that adds no statement keeps the invariant,
LEMMA Untold ==
  ASSUME Inv, Grows, UNCHANGED <<statements, counters>>, ended = "no",
         ended' \in {"no", "fatal", "void"},
         \/ calls' = calls
         \/ \E call \in Invocation :
              /\ Len(calls) < MaxCalls
              /\ calls' = Append(calls, call)
              /\ \A n \in DOMAIN call.arguments : call.arguments[n] \in Words
              /\ Excused(call),
         rax' \in RaxType, Nameable', RaxSound'
  PROVE  Inv'
<1>0. TypeOK /\ Body
  BY DEF Inv
<1>1. Body'
  BY <1>0, Still
<1>2. calls' \in Seq(Invocation) /\ Len(calls') <= MaxCalls
  <2>1. calls \in Seq(Invocation) /\ Len(calls) \in Nat /\ Len(calls) <= MaxCalls
    BY <1>0, RecoveryAssumption DEF TypeOK
  <2>2. CASE calls' = calls
    BY <2>1, <2>2
  <2>3. CASE \E call \in Invocation : Len(calls) < MaxCalls /\ calls' = Append(calls, call)
    BY <2>1, <2>3, RecoveryAssumption
  <2> QED BY <2>2, <2>3
<1>3. handles' \in Seq(Handle) /\ Untitled'
  BY <1>0, Grown DEF TypeOK, Inv
<1>4. TypeOK'
  BY <1>0, <1>2, <1>3, RecoveryAssumption DEF TypeOK, RaxType, Statement
<1>5. Open' /\ ReturnFaithful'
  BY DEF Inv, Open, ReturnFaithful
<1> QED BY <1>1, <1>3, <1>4, <1>5 DEF Inv

\* and so does one that adds a statement other than the return.
LEMMA Told ==
  ASSUME Inv, Grows, NEW st \in Statement, NEW call \in Invocation, st.form # "return",
         statements' = Append(statements, st), calls' = Append(calls, call),
         Says(st, call), Counts(st), ended = "no", ended' = ended, Len(calls) < MaxCalls,
         rax' \in RaxType, Nameable', RaxSound'
  PROVE  Inv'
<1>0. TypeOK /\ Body
  BY DEF Inv
<1>1. Body'
  BY <1>0, Added
<1>2. /\ calls' \in Seq(Invocation) /\ Len(calls') <= MaxCalls
      /\ statements' \in Seq(Statement)
  BY <1>0, RecoveryAssumption DEF TypeOK
<1>3. handles' \in Seq(Handle) /\ Untitled'
  BY <1>0, Grown DEF TypeOK, Inv
<1>4. counters' \in [{"result", "object"} -> Nat]
  <2>1. counters \in [{"result", "object"} -> Nat]
    BY <1>0 DEF TypeOK
  <2> QED BY <2>1 DEF Counts
<1>5. TypeOK'
  BY <1>2, <1>3, <1>4, RecoveryAssumption DEF TypeOK, RaxType, Handle, Statement, Expression
<1>6. Open'
  <2>1. \A i \in DOMAIN statements' : \/ i \in DOMAIN statements /\ statements'[i] = statements[i]
                                     \/ statements'[i] = st
    BY <1>0 DEF TypeOK
  <2> QED BY <2>1 DEF Inv, Open
<1>7. ReturnFaithful'
  BY DEF ReturnFaithful
<1> QED BY <1>1, <1>3, <1>5, <1>6, <1>7 DEF Inv

-----------------------------------------------------------------------------
(* The stubs that add nothing to the body.                                  *)

LEMMA InvInit == Init => Inv
<1> SUFFICES ASSUME Init PROVE Inv
  OBVIOUS
<1>1. PICK isStatic \in BOOLEAN :
        handles = << Plain("Class", IF isStatic THEN Owner ELSE This),
                     Plain("Object", Name("arg", 0)) >>
  BY DEF Init
<1> DEFINE first == Plain("Class", IF isStatic THEN Owner ELSE This)
           second == Plain("Object", Name("arg", 0))
<1>2. /\ first \in Handle /\ first.text.sort \in {"ref", "this"} /\ first.kind # "Method"
      /\ second \in Handle /\ second.text.sort = "arg" /\ second.kind # "Method"
  <2>1. /\ This \in Expression /\ Name("arg", 0) \in Expression
        /\ Owner.sort = "ref" /\ This.sort = "this" /\ Name("arg", 0).sort = "arg"
    BY ConstantTypes DEF Sorts, Owner, This, Name
  <2>2. (IF isStatic THEN Owner ELSE This) \in Expression
    BY <2>1, ConstantTypes
  <2> QED BY <2>1, <2>2, PlainType
<1>3. handles = <<first, second>>
  BY <1>1
<1> HIDE DEF first, second
<1>4. /\ handles \in Seq(Handle) /\ Known = 1..2
      /\ \A h \in Known : handles[h] = first \/ handles[h] = second
  BY <1>2, <1>3 DEF Known
<1>5. rax = [word |-> -1, text |-> Unknown, means |-> Name("scalar", -1), stale |-> FALSE]
  BY DEF Init, Zero
<1>6. TypeOK
  <2>1. Name("scalar", -1) \in Expression /\ Unknown \in Expression
    BY ConstantTypes DEF Sorts
  <2>2. rax \in [word : Int, text : Expression, means : Expression, stale : BOOLEAN]
    BY <1>5, <2>1
  <2>3. statements = <<>> /\ calls = <<>> /\ ended = "no"
        /\ counters \in [{"result", "object"} -> Nat]
    BY DEF Init
  <2>4. /\ statements \in Seq(Statement) /\ calls \in Seq(Invocation) /\ Len(calls) = 0
    BY <2>3
  <2> QED BY <1>4, <2>2, <2>3, <2>4, RecoveryAssumption DEF TypeOK
<1>7. statements = <<>> /\ calls = <<>> /\ ended = "no"
  BY DEF Init
<1>8. Body
  BY <1>7 DEF Body, DeclaredBeforeUse, EffectsKept, ReceiverAndFirstArgument,
              Numbered, Linked, Passed
<1>9. Nameable /\ RaxSound /\ Untitled
  BY <1>2, <1>4, <1>5 DEF Nameable, Declared, RaxSound, Untitled, Unknown, Name
<1>10. Open /\ ReturnFaithful
  BY <1>7 DEF Open, ReturnFaithful
<1> QED BY <1>6, <1>8, <1>9, <1>10 DEF Inv

LEMMA LookupStep == ASSUME Inv, Lookup PROVE Inv'
<1> DEFINE h0 == Len(handles) + 1
<1>0. h0 \in Int /\ TypeOK
  BY DEF Inv, TypeOK
<1>1. PICK h \in Handle, text \in Expression :
        /\ text \in {Unknown, h.text} /\ handles' = Append(handles, h) /\ AnswerHandle(text)
        /\ h.text.sort \notin {"result", "object"} /\ (h.kind = "Method" => h.text = Empty)
  <2>1. /\ \A sort \in {"text", "class"} :
             Name(sort, h0) \in Expression /\ Name(sort, h0).sort = sort
        /\ Empty \in Expression /\ Empty.sort = "empty" /\ Unknown \in Expression
    BY <1>0, ConstantTypes DEF Sorts, Empty, Name
  <2>2. ASSUME NEW kind \in {"Class", "String", "Object"}, NEW e \in Expression,
               e.sort \notin {"result", "object"}, NEW text \in {Unknown, e},
               MakeHandle(Plain(kind, e)), AnswerHandle(text)
        PROVE  \E h \in Handle, t \in Expression :
                 /\ t \in {Unknown, h.text} /\ handles' = Append(handles, h) /\ AnswerHandle(t)
                 /\ h.text.sort \notin {"result", "object"} /\ (h.kind = "Method" => h.text = Empty)
    BY <2>1, <2>2, PlainType DEF MakeHandle
  <2>3. ASSUME NEW kind \in {"Method", "Field"}, NEW owned \in BOOLEAN,
               NEW parameters \in Seq({"string", "other"}), NEW constructor \in BOOLEAN,
               MakeHandle(Member(kind, owned, parameters, constructor)), AnswerHandle(Unknown)
        PROVE  \E h \in Handle, t \in Expression :
                 /\ t \in {Unknown, h.text} /\ handles' = Append(handles, h) /\ AnswerHandle(t)
                 /\ h.text.sort \notin {"result", "object"} /\ (h.kind = "Method" => h.text = Empty)
    <3> DEFINE m == Member(kind, owned, parameters, constructor)
    <3>1. m \in Handle /\ m.text = Empty
      BY <2>1 DEF Member, Handle
    <3>2. handles' = Append(handles, m)
      BY <2>3 DEF MakeHandle
    <3> HIDE DEF m
    <3> QED BY <2>1, <2>3, <3>1, <3>2
  <2>4. CASE /\ MakeHandle(Plain("Class", Name("class", h0)))
             /\ AnswerHandle(Unknown)
    BY <2>1, <2>2, <2>4
  <2>5. CASE /\ MakeHandle(Plain("String", Name("text", h0)))
             /\ AnswerHandle(Name("text", h0))
    BY <2>1, <2>2, <2>5
  <2>6. CASE \E field \in FieldWords :
               LET text == IF field \in Known THEN Name("field", field) ELSE Empty IN
                 MakeHandle(Plain("Object", text)) /\ AnswerHandle(text)
    <3>1. PICK field \in FieldWords :
               LET text == IF field \in Known THEN Name("field", field) ELSE Empty IN
                 MakeHandle(Plain("Object", text)) /\ AnswerHandle(text)
      BY <2>6
    <3> DEFINE e == IF field \in Known THEN Name("field", field) ELSE Empty
    <3>2. e \in Expression /\ e.sort \in {"field", "empty"}
      BY <1>0, <2>1, HandleType, ConstantTypes DEF Sorts
    <3>3. MakeHandle(Plain("Object", e)) /\ AnswerHandle(e)
      BY <3>1
    <3> HIDE DEF e
    <3> QED BY <2>2, <3>2, <3>3
  <2>7. CASE \E class \in ClassWords :
          LET owned == class \in Known /\ handles[class].text.sort = "class" IN
            /\ \/ MakeHandle(Member("Field", owned, <<>>, FALSE))
               \/ \E s \in Signatures :
                    MakeHandle(Member("Method", owned, s.parameters, s.constructor))
            /\ AnswerHandle(Unknown)
    <3>1. PICK class \in ClassWords :
          LET owned == class \in Known /\ handles[class].text.sort = "class" IN
            /\ \/ MakeHandle(Member("Field", owned, <<>>, FALSE))
               \/ \E s \in Signatures :
                    MakeHandle(Member("Method", owned, s.parameters, s.constructor))
            /\ AnswerHandle(Unknown)
      BY <2>7
    <3> DEFINE owned == class \in Known /\ handles[class].text.sort = "class"
    <3>2. owned \in BOOLEAN
      OBVIOUS
    <3>3. /\ \/ MakeHandle(Member("Field", owned, <<>>, FALSE))
             \/ \E s \in Signatures :
                  MakeHandle(Member("Method", owned, s.parameters, s.constructor))
          /\ AnswerHandle(Unknown)
      BY <3>1
    <3> HIDE DEF owned
    <3>4. CASE MakeHandle(Member("Field", owned, <<>>, FALSE))
      <4>1. <<>> \in Seq({"string", "other"})
        OBVIOUS
      <4> QED BY <2>3, <3>2, <3>3, <3>4, <4>1
    <3>5. CASE \E s \in Signatures : MakeHandle(Member("Method", owned, s.parameters, s.constructor))
      <4>1. PICK s \in Signatures : MakeHandle(Member("Method", owned, s.parameters, s.constructor))
        BY <3>5
      <4>2. s.parameters \in Seq({"string", "other"}) /\ s.constructor \in BOOLEAN
        <5>1. s \in [parameters : Seq({"string", "other"}), constructor : BOOLEAN]
          BY RecoveryAssumption
        <5> QED BY <5>1
      <4> QED BY <2>3, <3>2, <3>3, <4>1, <4>2
    <3> QED BY <3>3, <3>4, <3>5
  <2> QED BY <2>4, <2>5, <2>6, <2>7 DEF Lookup
<1>2. Extends /\ Grows /\ Declared(statements', h.text)
  BY <1>1 DEF Lookup, Extends, Grows, Declared
<1>3. rax' \in RaxType /\ Nameable' /\ RaxSound'
  BY <1>1, <1>2, Handed
<1> QED BY <1>2, <1>3, Untold DEF Lookup, More

LEMMA QuietStep ==
  ASSUME Inv, GetField \/ ExceptionCheck \/ FatalError \/ Unlisted \/ CallUnknown \/ ReturnVoid
  PROVE  Inv'
<1>1. /\ handles' = handles /\ UNCHANGED <<counters, statements, calls>> /\ ended = "no"
      /\ ended' \in {"no", "fatal", "void"}
  BY DEF GetField, ExceptionCheck, FatalError, Unlisted, CallUnknown, ReturnVoid, More
<1>2. Extends /\ Grows
  BY <1>1 DEF Extends, Grows
<1>3. rax' \in RaxType /\ Nameable' /\ RaxSound'
  <2>1. CASE GetField
    <3>1. PICK field \in FieldWords :
            LET text == IF field \in Known THEN Name("field", field) ELSE Bare IN
              AnswerNumber(text, text)
      BY <2>1 DEF GetField
    <3> DEFINE text == IF field \in Known THEN Name("field", field) ELSE Bare
    <3>2. field \in Known => field \in Int
      BY HandleType DEF Inv
    <3>3. text \in Expression /\ text.sort \in {"field", "ref"}
      BY <3>2, ConstantTypes DEF Sorts, Bare, Name
    <3>4. AnswerNumber(text, text)
      BY <3>1
    <3> HIDE DEF text
    <3> QED BY <1>1, <1>2, <3>3, <3>4, Numeric
  <2>2. CASE ExceptionCheck
    <3>1. /\ NoException \in Expression /\ NoException.sort = "noException"
          /\ Name("scalar", Zero) \in Expression
      BY ConstantTypes DEF NoException, Name, Zero, Expression, Sorts
    <3>2. AnswerNumber(NoException, Name("scalar", Zero))
      BY <2>2 DEF ExceptionCheck
    <3> QED BY <1>1, <1>2, <3>1, <3>2, Numeric
  <2>3. CASE FatalError \/ ReturnVoid
    <3>1. rax' = rax
      BY <2>3 DEF FatalError, ReturnVoid
    <3> QED BY <1>1, <3>1 DEF Inv, TypeOK, RaxType, Nameable, RaxSound, Known, Declared,
                               Unknown, NoException, Empty, Display, TextOf, Name
  <2>4. CASE Unlisted \/ CallUnknown
    <3>1. AnswerZero
      BY <2>4 DEF Unlisted, CallUnknown
    <3> QED BY <1>1, <1>2, <3>1, Zeroed
  <2> QED BY <2>1, <2>2, <2>3, <2>4
<1> QED BY <1>1, <1>2, <1>3, Untold

LEMMA CallValueStep == ASSUME Inv, CallValue, UNCHANGED ended PROVE Inv'
<1>1. Log("value", "none", Zero, Unknown, 0, <<>>)
  BY DEF CallValue
<1> DEFINE call == [form |-> "value", via |-> "none", receiver |-> Zero, shadow |-> Unknown,
                    method |-> 0, arguments |-> <<>>]
<1>2. Zero \in Int /\ Unknown \in Expression /\ Len(calls) + 1 \in Int
  BY ConstantTypes DEF Inv, TypeOK, Zero
<1>3. call \in Invocation /\ call.form = "value" /\ call.arguments = <<>>
  <2>1. <<>> \in Seq(Int)
    OBVIOUS
  <2> QED BY <1>2, <2>1 DEF Invocation, Forms
<1>4. /\ calls' = Append(calls, call) /\ Len(calls) < MaxCalls /\ ended = "no"
  BY <1>1 DEF Log
<1>5. /\ handles' = handles /\ UNCHANGED <<counters, statements>>
      /\ AnswerNumber(Name("call", Len(calls) + 1), Name("call", Len(calls) + 1))
  BY DEF CallValue
<1>6. Extends /\ Grows
  BY <1>5 DEF Extends, Grows
<1>7. /\ Name("call", Len(calls) + 1) \in Expression
      /\ Name("call", Len(calls) + 1).sort = "call"
  BY <1>2, ConstantTypes DEF Sorts
<1>8. rax' \in RaxType /\ Nameable' /\ RaxSound'
  BY <1>5, <1>6, <1>7, Numeric
<1> HIDE DEF call
<1>9. Excused(call) /\ \A n \in DOMAIN call.arguments : call.arguments[n] \in Words
  BY <1>3 DEF Excused
<1> QED BY <1>3, <1>4, <1>5, <1>6, <1>8, <1>9, Untold

-----------------------------------------------------------------------------
(* The stubs that add a statement.                                          *)

\* What a word is rendered as is declared.
LEMMA RenderDeclared ==
  ASSUME Inv, NEW word \in Int
  PROVE  /\ Declared(statements, Render(word))
         /\ \A parameter : Declared(statements, RenderAs(parameter, word))
<1>1. Declared(statements, Display)
  BY DEF Declared, Display, Name
<1> QED BY <1>1 DEF Inv, Nameable, Render, RenderAs, TextOf, Declared, Null, Name

LEMMA WordsInt == ASSUME TypeOK PROVE Words \subseteq Int
<1>1. Known \subseteq Int
  BY DEF TypeOK, Known
<1> QED BY <1>1, RecoveryAssumption DEF Words

\* What the code finds in the frame of a call.
LEMMA Framed ==
  ASSUME Inv, NEW via \in {"virtual", "static", "nonvirtual", "list"}, NEW method \in Methods,
         NEW leftover \in Scalars, NEW receiver, NEW shadow,
         NEW arguments \in [DOMAIN handles[method].parameters -> Passable]
  PROVE  LET frame == Frame(via, receiver, shadow, method, arguments, leftover) IN
           /\ via # "list" => MethodRegister(frame, via) = method
           /\ frame.rdx = receiver /\ frame.text = shadow
           /\ \A n : Argument(frame, n) \in Int
           /\ arguments \in Seq(Int) /\ DOMAIN arguments = DOMAIN handles[method].parameters
           /\ \A n \in DOMAIN arguments : arguments[n] \in Words
           /\ arguments = <<>> <=> handles[method].parameters = <<>>
           /\ arguments # <<>> =>
                /\ 1 \in DOMAIN arguments
                /\ via = "nonvirtual" => Argument(frame, 1) = method
                /\ via \notin {"nonvirtual", "list"} => Argument(frame, 1) = arguments[1]
<1>0. TypeOK
  BY DEF Inv
<1>1. /\ method \in Known /\ method \in Nat
      /\ handles[method].parameters \in Seq({"string", "other"})
  BY <1>0, HandleType DEF Methods, OfKind
<1>2. Words \subseteq Int /\ leftover \in Int /\ Passable \subseteq Words
  BY <1>0, WordsInt, RecoveryAssumption DEF Passable, Things, OfKind, Words
<1>3. /\ arguments \in Seq(Int) /\ DOMAIN arguments = DOMAIN handles[method].parameters
      /\ (arguments = <<>> <=> handles[method].parameters = <<>>)
  <2> DEFINE parameters == handles[method].parameters
  <2>1. parameters \in Seq({"string", "other"}) /\ \A n \in DOMAIN parameters : arguments[n] \in Int
    BY <1>1, <1>2
  <2>2. arguments = [n \in DOMAIN parameters |-> arguments[n]]
    OBVIOUS
  <2> HIDE DEF parameters
  <2>3. /\ arguments \in Seq(Int) /\ DOMAIN arguments = DOMAIN parameters
        /\ (arguments = <<>> <=> parameters = <<>>)
    BY ONLY <2>1, <2>2, Tuple
  <2> QED BY <2>3 DEF parameters
<1>4. Len(arguments) > 0 => 1 \in DOMAIN arguments /\ arguments[1] \in Int
  BY <1>3
<1>5. arguments # <<>> => Len(arguments) > 0
  BY <1>3
<1>6. \A n \in DOMAIN arguments : arguments[n] \in Words
  BY <1>2, <1>3
<1> DEFINE frame == Frame(via, receiver, shadow, method, arguments, leftover)
<1>7. /\ frame.rdx = receiver /\ frame.text = shadow /\ frame.home = leftover
      /\ frame.r8 = (IF via = "nonvirtual" THEN receiver ELSE method)
      /\ frame.r9 = (IF via = "nonvirtual" THEN method
                     ELSE IF Len(arguments) > 0 /\ via # "list" THEN arguments[1] ELSE leftover)
  BY DEF Frame
<1> HIDE DEF frame
<1>8. \A n : Argument(frame, n) \in Int
  BY <1>1, <1>2, <1>4, <1>7 DEF Argument
<1>9. arguments # <<>> =>
        /\ 1 \in DOMAIN arguments
        /\ via = "nonvirtual" => Argument(frame, 1) = method
        /\ via \notin {"nonvirtual", "list"} => Argument(frame, 1) = arguments[1]
  BY <1>4, <1>5, <1>7 DEF Argument
<1>10. via # "list" => MethodRegister(frame, via) = method
  BY <1>7 DEF MethodRegister
<1> QED BY <1>3, <1>6, <1>7, <1>8, <1>9, <1>10 DEF frame

\* The arguments a call is rendered with.
LEMMA CallArgumentsType ==
  ASSUME Inv, NEW frame, \A n : Argument(frame, n) \in Int,
         NEW parameters \in Seq({"string", "other"})
  PROVE  /\ CallArguments(frame, parameters) \in Seq(Expression)
         /\ DOMAIN CallArguments(frame, parameters) = DOMAIN parameters
         /\ (CallArguments(frame, parameters) = <<>> <=> parameters = <<>>)
         /\ \A n \in DOMAIN parameters :
              /\ Declared(statements, CallArguments(frame, parameters)[n])
              /\ Argument(frame, n) \in Known =>
                   CallArguments(frame, parameters)[n] = TextOf(handles[Argument(frame, n)])
<1> DEFINE texts == CallArguments(frame, parameters)
<1>1. texts = [n \in DOMAIN parameters |-> RenderAs(parameters[n], Argument(frame, n))]
  BY DEF CallArguments
<1>2. texts = [n \in DOMAIN parameters |-> texts[n]]
  BY <1>1
<1>3. \A n \in DOMAIN parameters : texts[n] = RenderAs(parameters[n], Argument(frame, n))
  BY <1>1
<1> HIDE DEF texts
<1>4. \A n \in DOMAIN parameters : texts[n] \in Expression
  BY <1>3, RenderType DEF Inv
<1>5. \A n \in DOMAIN parameters : Declared(statements, texts[n])
  BY <1>3, RenderDeclared
<1>6. \A n \in DOMAIN parameters :
        Argument(frame, n) \in Known => texts[n] = TextOf(handles[Argument(frame, n)])
  BY <1>3 DEF RenderAs, Render
<1>7. /\ texts \in Seq(Expression) /\ DOMAIN texts = DOMAIN parameters
      /\ (texts = <<>> <=> parameters = <<>>)
  BY <1>2, <1>4, Tuple
<1> QED BY <1>5, <1>6, <1>7 DEF texts

\* The new name and the statement that declares it.
LEMMA NextNameType ==
  ASSUME TypeOK, NEW sort \in {"result", "object"}
  PROVE  NextName(sort) \in Expression /\ NextName(sort).sort = sort
<1>1. counters[sort] + 1 \in Int
  BY DEF TypeOK
<1> QED BY <1>1, ConstantTypes DEF NextName, Sorts

\* The step of a stub that answers with the object its statement declares.
LEMMA Declares ==
  ASSUME Inv, NEW st \in Statement, NEW call \in Invocation, NEW sort \in {"result", "object"},
         st.form # "return", st.declares = NextName(sort), Says(st, call),
         statements' = Append(statements, st), calls' = Append(calls, call),
         ended = "no", ended' = ended, Len(calls) < MaxCalls,
         Declare(sort), MakeHandle(Plain("Object", NextName(sort))), AnswerHandle(NextName(sort))
  PROVE  Inv'
<1>0. TypeOK
  BY DEF Inv
<1> DEFINE h == Plain("Object", NextName(sort))
<1>1. NextName(sort) \in Expression
  BY <1>0, NextNameType
<1>2. /\ h \in Handle /\ h.text = NextName(sort) /\ h.kind # "Method"
      /\ handles' = Append(handles, h)
  BY <1>1, PlainType DEF MakeHandle
<1> HIDE DEF h
<1>3. Extends /\ Grows
  BY <1>2 DEF Extends, Grows
<1>4. Declared(statements', h.text)
  <2>1. Len(statements) + 1 \in DOMAIN statements' /\ statements'[Len(statements) + 1] = st
    BY <1>0 DEF TypeOK
  <2> QED BY <1>2, <2>1 DEF Declared
<1>5. rax' \in RaxType /\ Nameable' /\ RaxSound'
  BY <1>1, <1>2, <1>3, <1>4, Handed
<1>6. Counts(st)
  BY DEF Counts, Declare
<1> QED BY <1>3, <1>5, <1>6, Told

\* The step of a stub that answers 0.
LEMMA Reports ==
  ASSUME Inv, NEW st \in Statement, NEW call \in Invocation,
         st.form # "return", st.declares = Null, Says(st, call),
         statements' = Append(statements, st), calls' = Append(calls, call),
         ended = "no", ended' = ended, Len(calls) < MaxCalls,
         AnswerZero, UNCHANGED <<handles, counters>>
  PROVE  Inv'
<1>1. Extends /\ Grows /\ Counts(st)
  BY DEF Extends, Grows, Counts
<1>2. rax' \in RaxType /\ Nameable' /\ RaxSound'
  BY <1>1, Zeroed
<1> QED BY <1>1, <1>2, Told

\* A void or object call, and the statement made of it.
Made(form, via, receiver, shadow, method, arguments) ==
  [form |-> form, via |-> via, receiver |-> receiver, shadow |-> shadow, method |-> method,
   arguments |-> arguments]

Said(form, declares, frame, via, method) ==
  [form |-> form, declares |-> declares, receiver |-> Target(frame, via),
   arguments |-> CallArguments(frame, handles[method].parameters), call |-> Len(calls) + 1]

\* What a shadow register holds is declared.
LEMMA HeldType ==
  ASSUME Inv, NEW word \in Words, NEW text \in Held(word)
  PROVE  text \in Expression /\ Declared(statements, text)
<1>1. word \in Int
  BY WordsInt DEF Inv
<1>2. Name("scalar", word) \in Expression /\ Declared(statements, Name("scalar", word))
  BY <1>1, ConstantTypes DEF Sorts, Declared
<1>3. Unknown \in Expression /\ Declared(statements, Unknown)
  BY ConstantTypes DEF Declared, Unknown, Name
<1>4. rax.text \in Expression /\ Declared(statements, rax.text)
  BY DEF Inv, TypeOK, Nameable
<1>5. word \in Known => handles[word].text \in Expression /\ Declared(statements, handles[word].text)
  BY HandleType DEF Inv, Nameable
<1> QED BY <1>2, <1>3, <1>4, <1>5 DEF Held

\* The statement says what the call did.
LEMMA CallSays ==
  ASSUME Inv, NEW form \in {"void", "object"}, NEW declares \in Expression,
         NEW via \in {"virtual", "static", "nonvirtual"}, NEW method \in Methods,
         NEW leftover \in Scalars, NEW receiver \in Words,
         NEW shadow \in Expression, Declared(statements, shadow),
         NEW arguments \in [DOMAIN handles[method].parameters -> Passable]
  PROVE  LET frame == Frame(via, receiver, shadow, method, arguments, leftover)
             texts == CallArguments(frame, handles[method].parameters)
             call  == Made(form, via, receiver, shadow, method, arguments)
             st    == Said(form, declares, frame, via, method)
         IN /\ st \in Statement /\ call \in Invocation /\ Says(st, call)
            /\ MethodRegister(frame, via) = method
            /\ \A n \in DOMAIN arguments : arguments[n] \in Words
            /\ texts = <<>> => arguments = <<>>
<1> DEFINE frame == Frame(via, receiver, shadow, method, arguments, leftover)
           texts == CallArguments(frame, handles[method].parameters)
           call  == Made(form, via, receiver, shadow, method, arguments)
           st    == Said(form, declares, frame, via, method)
<1>0. TypeOK
  BY DEF Inv
<1>1. /\ method \in Known /\ method \in Nat /\ receiver \in Int
      /\ handles[method].parameters \in Seq({"string", "other"})
      /\ handles[method].text = Empty
  BY <1>0, HandleType, WordsInt DEF Methods, OfKind, Inv, Untitled
<1>2. /\ MethodRegister(frame, via) = method /\ frame.rdx = receiver /\ frame.text = shadow
      /\ \A n : Argument(frame, n) \in Int
      /\ arguments \in Seq(Int) /\ DOMAIN arguments = DOMAIN handles[method].parameters
      /\ \A n \in DOMAIN arguments : arguments[n] \in Words
      /\ (arguments = <<>> <=> handles[method].parameters = <<>>)
      /\ arguments # <<>> =>
           /\ 1 \in DOMAIN arguments
           /\ via = "nonvirtual" => Argument(frame, 1) = method
           /\ via # "nonvirtual" => Argument(frame, 1) = arguments[1]
  BY Framed
<1> HIDE DEF frame
<1>3. /\ texts \in Seq(Expression) /\ DOMAIN texts = DOMAIN handles[method].parameters
      /\ (texts = <<>> <=> handles[method].parameters = <<>>)
      /\ \A n \in DOMAIN handles[method].parameters :
           /\ Declared(statements, texts[n])
           /\ Argument(frame, n) \in Known => texts[n] = TextOf(handles[Argument(frame, n)])
  BY <1>1, <1>2, CallArgumentsType
<1> HIDE DEF texts
<1>3a. /\ call = [form |-> form, via |-> via, receiver |-> receiver, shadow |-> shadow,
                 method |-> method, arguments |-> arguments]
      /\ st = [form |-> form, declares |-> declares, receiver |-> Target(frame, via),
               arguments |-> texts, call |-> Len(calls) + 1]
  BY DEF Made, Said, texts
<1> HIDE DEF call, st
<1>4. /\ Target(frame, via) \in Expression /\ Declared(statements, Target(frame, via))
      /\ via # "static" /\ receiver \in Known /\ shadow \in {Unknown, TextOf(handles[receiver])}
         => Target(frame, via) = TextOf(handles[receiver])
  <2>1. \A e \in {Owner, This, Empty} : e \in Expression /\ Declared(statements, e)
    BY ConstantTypes DEF Declared, Owner, This, Empty, Name
  <2>2. receiver \in Known =>
          /\ TextOf(handles[receiver]) \in Expression
          /\ Declared(statements, TextOf(handles[receiver]))
          /\ TextOf(handles[receiver]) # Empty
    <3>1. Render(receiver) \in Expression /\ Declared(statements, Render(receiver))
      BY <1>0, <1>1, RenderType, RenderDeclared
    <3> QED BY <3>1 DEF Render, TextOf, Display, Empty, Name
  <2>3. /\ Receiver(frame) \in Expression /\ Declared(statements, Receiver(frame))
        /\ receiver \in Known /\ shadow \in {Unknown, TextOf(handles[receiver])} =>
             Receiver(frame) = TextOf(handles[receiver])
    BY <1>2, <2>1, <2>2 DEF Receiver
  <2> QED BY <2>1, <2>2, <2>3 DEF Target
<1>5. call \in Invocation /\ st \in Statement
  <2>1. Len(calls) + 1 \in Nat
    BY <1>0 DEF TypeOK
  <2>2. st \in Statement
    BY <1>3, <1>4, <1>3a, <2>1 DEF Statement, Forms
  <2>3. call \in Invocation
    BY <1>1, <1>2, <1>3a DEF Invocation, Forms
  <2> QED BY <2>2, <2>3
<1>6. Says(st, call)
  <2>1. \A e \in Mentioned(st) : Declared(statements, e)
    <3>1. \A e \in Mentioned(st) : e = Target(frame, via) \/ \E n \in DOMAIN texts : e = texts[n]
      BY <1>3a DEF Mentioned
    <3> QED BY <1>3, <1>4, <3>1
  <2>2. arguments # <<>> =>
          /\ 1 \in DOMAIN texts
          /\ via = "nonvirtual" => texts[1] = Display
          /\ via # "nonvirtual" /\ arguments[1] \in Known =>
               texts[1] = TextOf(handles[arguments[1]])
    BY <1>1, <1>2, <1>3 DEF TextOf
  <2>3. via # "list"
    OBVIOUS
  <2> QED BY <1>1, <1>2, <1>4, <1>3a, <2>1, <2>2, <2>3 DEF Says
<1>7. texts = <<>> => arguments = <<>>
  BY <1>2, <1>3
<1> QED BY <1>2, <1>5, <1>6, <1>7 DEF frame, texts, call, st

LEMMA CallStep == ASSUME Inv, Call, UNCHANGED ended PROVE Inv'
<1>1. PICK via \in {"virtual", "static", "nonvirtual"}, method \in Methods, leftover \in Scalars :
        \E receiver \in Receivers(via) : \E shadow \in Held(receiver),
           arguments \in [DOMAIN handles[method].parameters -> Passable] :
          \/ /\ Log("void", via, receiver, shadow, method, arguments)
             /\ CallVoid(Frame(via, receiver, shadow, method, arguments, leftover), via)
          \/ /\ Log("object", via, receiver, shadow, method, arguments)
             /\ CallObject(Frame(via, receiver, shadow, method, arguments, leftover), via)
  BY DEF Call
<1>2a. PICK receiver \in Receivers(via) : \E shadow \in Held(receiver),
           arguments \in [DOMAIN handles[method].parameters -> Passable] :
          \/ /\ Log("void", via, receiver, shadow, method, arguments)
             /\ CallVoid(Frame(via, receiver, shadow, method, arguments, leftover), via)
          \/ /\ Log("object", via, receiver, shadow, method, arguments)
             /\ CallObject(Frame(via, receiver, shadow, method, arguments, leftover), via)
  BY <1>1
<1>2. PICK shadow \in Held(receiver),
           arguments \in [DOMAIN handles[method].parameters -> Passable] :
          \/ /\ Log("void", via, receiver, shadow, method, arguments)
             /\ CallVoid(Frame(via, receiver, shadow, method, arguments, leftover), via)
          \/ /\ Log("object", via, receiver, shadow, method, arguments)
             /\ CallObject(Frame(via, receiver, shadow, method, arguments, leftover), via)
  BY <1>2a
<1> DEFINE frame == Frame(via, receiver, shadow, method, arguments, leftover)
           texts == CallArguments(frame, handles[method].parameters)
<1>3. /\ receiver \in Words /\ method \in Known
      /\ shadow \in Expression /\ Declared(statements, shadow)
  <2>1. receiver \in Words
    BY RecoveryAssumption DEF Receivers, Things, OfKind, Words, Zero
  <2> QED BY <2>1, HeldType DEF Methods, OfKind
<1>4. ASSUME NEW form \in {"void", "object"}, NEW declares \in Expression
      PROVE  /\ Said(form, declares, frame, via, method) \in Statement
             /\ Made(form, via, receiver, shadow, method, arguments) \in Invocation
             /\ Says(Said(form, declares, frame, via, method),
                     Made(form, via, receiver, shadow, method, arguments))
             /\ MethodRegister(frame, via) = method
             /\ \A n \in DOMAIN arguments : arguments[n] \in Words
             /\ texts = <<>> => arguments = <<>>
  BY <1>3, CallSays
<1>5. CASE /\ Log("void", via, receiver, shadow, method, arguments)
           /\ CallVoid(Frame(via, receiver, shadow, method, arguments, leftover), via)
  <2> DEFINE call == Made("void", via, receiver, shadow, method, arguments)
             st == Said("void", Null, frame, via, method)
  <2>1. Null \in Expression
    BY ConstantTypes
  <2>2. /\ st \in Statement /\ call \in Invocation /\ Says(st, call)
        /\ MethodRegister(frame, via) = method
        /\ \A n \in DOMAIN arguments : arguments[n] \in Words
        /\ texts = <<>> => arguments = <<>>
    BY <1>4, <2>1
  <2>3. /\ call.form = "void" /\ call.arguments = arguments
        /\ call.receiver = receiver /\ call.method = method
        /\ st.form = "void" /\ st.declares = Null
    BY DEF Made, Said
  <2>4. calls' = Append(calls, call) /\ Len(calls) < MaxCalls /\ ended = "no"
    BY <1>5 DEF Log, Made
  <2>5. /\ IF handles[method].constructor /\ texts = <<>>
           THEN UNCHANGED statements
           ELSE statements' = Append(statements, st)
        /\ AnswerZero /\ UNCHANGED <<handles, counters>>
    BY <1>5, <2>2 DEF CallVoid, Emit, Said
  <2> HIDE DEF call, st
  <2>6. CASE handles[method].constructor /\ texts = <<>>
    <3>1. Extends /\ Grows /\ UNCHANGED statements
      BY <2>5, <2>6 DEF Extends, Grows
    <3>2. rax' \in RaxType /\ Nameable' /\ RaxSound'
      BY <2>5, <3>1, Zeroed
    <3>3. Excused(call) /\ \A n \in DOMAIN call.arguments : call.arguments[n] \in Words
      BY <1>3, <2>2, <2>3, <2>6 DEF Excused
    <3> QED BY <2>2, <2>4, <2>5, <3>1, <3>2, <3>3, Untold
  <2>7. CASE ~(handles[method].constructor /\ texts = <<>>)
    <3>1. statements' = Append(statements, st)
      BY <2>5, <2>7
    <3> QED BY <2>2, <2>3, <2>4, <2>5, <3>1, Reports
  <2> QED BY <2>6, <2>7
<1>6. CASE /\ Log("object", via, receiver, shadow, method, arguments)
           /\ CallObject(Frame(via, receiver, shadow, method, arguments, leftover), via)
  <2> DEFINE call == Made("object", via, receiver, shadow, method, arguments)
             st == Said("object", NextName("result"), frame, via, method)
  <2>1. NextName("result") \in Expression
    BY NextNameType DEF Inv
  <2>2. /\ st \in Statement /\ call \in Invocation /\ Says(st, call)
        /\ MethodRegister(frame, via) = method
    BY <1>4, <2>1
  <2>3. st.form # "return" /\ st.declares = NextName("result")
    BY DEF Said
  <2>4. calls' = Append(calls, call) /\ Len(calls) < MaxCalls /\ ended = "no"
    BY <1>6 DEF Log, Made
  <2>5. /\ statements' = Append(statements, st)
        /\ Declare("result") /\ MakeHandle(Plain("Object", NextName("result")))
        /\ AnswerHandle(NextName("result"))
    BY <1>6, <2>2 DEF CallObject, Emit, Said
  <2> HIDE DEF call, st
  <2> QED BY <2>2, <2>3, <2>4, <2>5, Declares
<1> QED BY <1>2, <1>5, <1>6

LEMMA NewObjectStep == ASSUME Inv, NewObject, UNCHANGED ended PROVE Inv'
<1>0. TypeOK
  BY DEF Inv
<1>1. PICK via \in {"virtual", "list"}, method \in Methods, leftover \in Scalars :
        /\ \E arguments \in [DOMAIN handles[method].parameters -> Passable] :
             /\ Log("new", via, Zero, Unknown, method, arguments)
             /\ Emit("new", NextName("object"), Null,
                     ConstructorArguments(Frame(via, Zero, Unknown, method, arguments, leftover)))
        /\ Declare("object") /\ MakeHandle(Plain("Object", NextName("object")))
        /\ AnswerHandle(NextName("object"))
  BY DEF NewObject
<1>2. PICK arguments \in [DOMAIN handles[method].parameters -> Passable] :
        /\ Log("new", via, Zero, Unknown, method, arguments)
        /\ Emit("new", NextName("object"), Null,
                ConstructorArguments(Frame(via, Zero, Unknown, method, arguments, leftover)))
  BY <1>1
<1> DEFINE frame == Frame(via, Zero, Unknown, method, arguments, leftover)
           texts == ConstructorArguments(frame)
           call == Made("new", via, Zero, Unknown, method, arguments)
           st == [form |-> "new", declares |-> NextName("object"), receiver |-> Null,
                  arguments |-> texts, call |-> Len(calls) + 1]
<1>3. method \in Known /\ method \in Nat
  <2>1. method \in Known
    BY DEF Methods, OfKind
  <2> QED BY <1>0, <2>1, HandleType
<1>4. /\ \A n : Argument(frame, n) \in Int
      /\ arguments \in Seq(Int)
      /\ \A n \in DOMAIN arguments : arguments[n] \in Words
      /\ arguments # <<>> /\ via # "list" => Argument(frame, 1) = arguments[1]
  <2> DEFINE zero == Zero
             unknown == Unknown
  <2> HIDE DEF zero, unknown
  <2>1. LET fr == Frame(via, zero, unknown, method, arguments, leftover) IN
          /\ \A n : Argument(fr, n) \in Int
          /\ arguments \in Seq(Int)
          /\ \A n \in DOMAIN arguments : arguments[n] \in Words
          /\ arguments # <<>> /\ via # "list" => Argument(fr, 1) = arguments[1]
    BY Framed
  <2> QED BY <2>1 DEF zero, unknown
<1> HIDE DEF frame
<1>5. texts = [n \in 1..3 |-> Render(Argument(frame, n))]
  BY DEF ConstructorArguments
<1>6. /\ \A n \in 1..3 : Render(Argument(frame, n)) \in Expression
      /\ \A n \in 1..3 : Declared(statements, Render(Argument(frame, n)))
  BY <1>0, <1>4, RenderType, RenderDeclared
<1>7. /\ texts \in Seq(Expression) /\ DOMAIN texts = 1..3
      /\ texts[1] = Render(Argument(frame, 1))
      /\ \A n \in DOMAIN texts : Declared(statements, texts[n])
  BY <1>5, <1>6
<1> HIDE DEF texts
<1>8. NextName("object") \in Expression /\ Null \in Expression /\ Len(calls) + 1 \in Nat
  BY <1>0, NextNameType, ConstantTypes DEF TypeOK
<1>9. st \in Statement /\ call \in Invocation
  <2>1. st \in Statement
    BY <1>7, <1>8 DEF Statement, Forms
  <2>2. call \in Invocation
    BY <1>3, <1>4, ConstantTypes DEF Made, Invocation, Forms, Zero
  <2> QED BY <2>1, <2>2
<1>10. Says(st, call)
  <2>1. \A e \in Mentioned(st) : Declared(statements, e)
    <3>1. \A e \in Mentioned(st) : e = Null \/ \E n \in DOMAIN texts : e = texts[n]
      BY DEF Mentioned
    <3>2. Declared(statements, Null)
      BY DEF Declared, Null, Name
    <3> QED BY <1>7, <3>1, <3>2
  <2>2. arguments # <<>> /\ via # "list" /\ arguments[1] \in Known =>
          1 \in DOMAIN texts /\ texts[1] = TextOf(handles[arguments[1]])
    BY <1>4, <1>7 DEF Render
  <2>3. /\ call.form = "new" /\ call.via = via /\ via # "nonvirtual" /\ call.arguments = arguments
        /\ st.form = "new" /\ st.arguments = texts /\ st.call = Len(calls) + 1
    BY DEF Made
  <2> HIDE DEF st, call
  <2> QED BY <1>4, <2>1, <2>2, <2>3 DEF Says
<1>11. /\ calls' = Append(calls, call) /\ Len(calls) < MaxCalls /\ ended = "no"
       /\ statements' = Append(statements, st)
  BY <1>2 DEF Log, Emit, Made, frame, texts
<1>12. st.form # "return" /\ st.declares = NextName("object")
  OBVIOUS
<1> HIDE DEF st, call
<1> QED BY <1>1, <1>9, <1>10, <1>11, <1>12, Declares

\* Any other statement,
Line(form, declares, subject, texts) ==
  [form |-> form, declares |-> declares, receiver |-> subject, arguments |-> texts,
   call |-> Len(calls) + 1]

\* whose first argument, if the call passed one, is that of the call.
LEMMA PlainSays ==
  ASSUME Inv, NEW form \in Forms \ {"void", "object", "value"}, NEW declares \in Expression,
         NEW subject \in Expression, Declared(statements, subject),
         NEW words \in Seq(Words), NEW texts \in Seq(Expression),
         \A n \in DOMAIN texts : Declared(statements, texts[n]),
         words # <<>> => texts # <<>> /\ (words[1] \in Known => texts[1] = Render(words[1]))
  PROVE  LET call == Made(form, "none", Zero, Unknown, 0, words)
             st == Line(form, declares, subject, texts)
         IN st \in Statement /\ call \in Invocation /\ Says(st, call)
<1> DEFINE call == Made(form, "none", Zero, Unknown, 0, words)
           st == Line(form, declares, subject, texts)
<1>1. TypeOK /\ Len(calls) + 1 \in Nat
  BY DEF Inv, TypeOK
<1>2. words \in Seq(Int) /\ \A n \in DOMAIN words : words[n] \in Words
  BY <1>1, WordsInt
<1>3. call \in Invocation
  BY <1>2, ConstantTypes DEF Made, Invocation, Zero
<1>4. st \in Statement
  BY <1>1 DEF Line, Statement
<1>5. \A e \in Mentioned(st) : Declared(statements, e)
  <2>1. \A e \in Mentioned(st) : e = subject \/ \E n \in DOMAIN texts : e = texts[n]
    BY DEF Line, Mentioned
  <2> QED BY <2>1
<1>6. words # <<>> /\ words[1] \in Known =>
        1 \in DOMAIN texts /\ texts[1] = TextOf(handles[words[1]])
  BY DEF Render
<1>7. /\ call.form = form /\ call.arguments = words /\ call.via = "none"
      /\ st.form = form /\ st.arguments = texts /\ st.call = Len(calls) + 1
  BY DEF Made, Line
<1> HIDE DEF st, call
<1>8. Says(st, call)
  BY <1>2, <1>5, <1>6, <1>7 DEF Says
<1> QED BY <1>3, <1>4, <1>8 DEF st, call

LEMMA AllocObjectStep == ASSUME Inv, AllocObject, UNCHANGED ended PROVE Inv'
<1>1. /\ Log("alloc", "none", Zero, Unknown, 0, <<>>)
      /\ Emit("alloc", NextName("object"), Null, <<>>)
      /\ Declare("object") /\ MakeHandle(Plain("Object", NextName("object")))
      /\ AnswerHandle(NextName("object"))
  BY DEF AllocObject
<1> DEFINE call == Made("alloc", "none", Zero, Unknown, 0, <<>>)
           st == Line("alloc", NextName("object"), Null, <<>>)
<1>3. /\ NextName("object") \in Expression /\ Null \in Expression
      /\ Declared(statements, Null) /\ "alloc" \in Forms \ {"void", "object", "value"}
  BY NextNameType, ConstantTypes DEF Inv, Declared, Null, Name, Forms
<1>4. /\ <<>> \in Seq(Words) /\ <<>> \in Seq(Expression)
      /\ \A n \in DOMAIN <<>> : Declared(statements, <<>>[n])
  OBVIOUS
<1>5. st \in Statement /\ call \in Invocation /\ Says(st, call)
  BY <1>3, <1>4, PlainSays
<1>6. /\ calls' = Append(calls, call) /\ Len(calls) < MaxCalls /\ ended = "no"
      /\ statements' = Append(statements, st)
  BY <1>1 DEF Log, Emit, Made, Line
<1>7. st.form # "return" /\ st.declares = NextName("object")
  BY DEF Line
<1> HIDE DEF st, call
<1> QED BY <1>1, <1>5, <1>6, <1>7, Declares

LEMMA FieldOfType ==
  ASSUME Inv, NEW word, NEW field
  PROVE  FieldOf(word, field) \in Expression /\ Declared(statements, FieldOf(word, field))
<1>1. \A e \in {Owner, Bare, Display} : e \in Expression /\ Declared(statements, e)
  BY ConstantTypes DEF Declared, Owner, Bare, Display, Name
<1>2. word \in Known => /\ TextOf(handles[word]) \in Expression
                        /\ Declared(statements, TextOf(handles[word]))
  BY <1>1, HandleType DEF Inv, Nameable, TextOf
<1> QED BY <1>1, <1>2 DEF FieldOf

LEMMA SetFieldStep == ASSUME Inv, SetField, UNCHANGED ended PROVE Inv'
<1>1. PICK receiver \in Passable, field \in FieldWords, value \in Scalars :
        /\ Log("store", "none", Zero, Unknown, 0, <<value>>)
        /\ Emit("store", Null, FieldOf(receiver, field), <<Render(value)>>)
        /\ AnswerZero
        /\ UNCHANGED <<handles, counters>>
  BY DEF SetField
<1> DEFINE call == Made("store", "none", Zero, Unknown, 0, <<value>>)
           st == Line("store", Null, FieldOf(receiver, field), <<Render(value)>>)
<1>3. FieldOf(receiver, field) \in Expression /\ Declared(statements, FieldOf(receiver, field))
  BY FieldOfType
<1>4. /\ value \in Words /\ value \in Int
  BY RecoveryAssumption DEF Words
<1>5. Render(value) \in Expression /\ Declared(statements, Render(value))
  BY <1>4, RenderType, RenderDeclared DEF Inv
<1>6. /\ <<value>> \in Seq(Words) /\ <<Render(value)>> \in Seq(Expression)
      /\ \A n \in DOMAIN <<Render(value)>> : Declared(statements, <<Render(value)>>[n])
      /\ <<Render(value)>> # <<>> /\ <<Render(value)>>[1] = Render(<<value>>[1])
  BY <1>4, <1>5
<1>7. Null \in Expression /\ "store" \in Forms \ {"void", "object", "value"}
  BY ConstantTypes DEF Forms
<1>8. st \in Statement /\ call \in Invocation /\ Says(st, call)
  BY <1>3, <1>6, <1>7, PlainSays
<1>9. /\ calls' = Append(calls, call) /\ Len(calls) < MaxCalls /\ ended = "no"
      /\ statements' = Append(statements, st)
  BY <1>1 DEF Log, Emit, Made, Line
<1>10. st.form # "return" /\ st.declares = Null
  BY DEF Line
<1> HIDE DEF st, call
<1> QED BY <1>1, <1>8, <1>9, <1>10, Reports

LEMMA ThrowStep == ASSUME Inv, Throw, UNCHANGED ended PROVE Inv'
<1>1. PICK thrown \in OfKind({"Object"}) \union Scalars :
        /\ Log("throw", "none", Zero, Unknown, 0, <<thrown>>)
        /\ Emit("throw", Null, Null, <<IF thrown \in Known THEN Render(thrown) ELSE Bare>>)
        /\ AnswerZero
        /\ UNCHANGED <<handles, counters>>
  BY DEF Throw
<1> DEFINE text == IF thrown \in Known THEN Render(thrown) ELSE Bare
           call == Made("throw", "none", Zero, Unknown, 0, <<thrown>>)
           st == Line("throw", Null, Null, <<text>>)
<1>2. thrown \in Words /\ thrown \in Int
  BY WordsInt DEF OfKind, Inv, Words
<1>3. /\ text \in Expression /\ Declared(statements, text)
      /\ thrown \in Known => text = Render(thrown)
  BY <1>2, RenderType, RenderDeclared, ConstantTypes DEF Inv, Declared, Bare, Name
<1>1a. Emit("throw", Null, Null, <<text>>)
  BY <1>1
<1> HIDE DEF text
<1>4. /\ <<thrown>> \in Seq(Words) /\ <<text>> \in Seq(Expression)
      /\ \A n \in DOMAIN <<text>> : Declared(statements, <<text>>[n])
      /\ <<text>> # <<>> /\ (<<thrown>>[1] \in Known => <<text>>[1] = Render(<<thrown>>[1]))
  BY <1>2, <1>3
<1>5. Null \in Expression /\ Declared(statements, Null) /\ "throw" \in Forms \ {"void", "object", "value"}
  BY ConstantTypes DEF Declared, Null, Name, Forms
<1>6. st \in Statement /\ call \in Invocation /\ Says(st, call)
  BY <1>4, <1>5, PlainSays
<1>7. /\ calls' = Append(calls, call) /\ Len(calls) < MaxCalls /\ ended = "no"
      /\ statements' = Append(statements, st)
  BY <1>1, <1>1a DEF Log, Emit, Made, Line
<1>8. st.form # "return" /\ st.declares = Null
  BY DEF Line
<1> HIDE DEF st, call
<1> QED BY <1>1, <1>6, <1>7, <1>8, Reports

LEMMA ThrowNewStep == ASSUME Inv, ThrowNew, UNCHANGED ended PROVE Inv'
<1>0. TypeOK /\ Len(handles) + 1 \in Int
  BY DEF Inv, TypeOK
<1> DEFINE h == Plain("Object", Name("thrown", Len(handles) + 1))
<1>1. /\ Log("throwNew", "none", Zero, Unknown, 0, <<>>)
      /\ Emit("throwNew", Null, Null, <<>>)
      /\ MakeHandle(h) /\ AnswerHandle(Unknown) /\ UNCHANGED counters
  BY DEF ThrowNew
<1> DEFINE call == Made("throwNew", "none", Zero, Unknown, 0, <<>>)
           st == Line("throwNew", Null, Null, <<>>)
<1>3. /\ Null \in Expression /\ Declared(statements, Null) /\ Unknown \in Expression
      /\ "throwNew" \in Forms \ {"void", "object", "value"}
  BY ConstantTypes DEF Declared, Null, Name, Forms
<1>4. /\ <<>> \in Seq(Words) /\ <<>> \in Seq(Expression)
      /\ \A n \in DOMAIN <<>> : Declared(statements, <<>>[n])
  OBVIOUS
<1>5. st \in Statement /\ call \in Invocation /\ Says(st, call)
  BY <1>3, <1>4, PlainSays
<1>6. /\ calls' = Append(calls, call) /\ Len(calls) < MaxCalls /\ ended = "no"
      /\ statements' = Append(statements, st)
  BY <1>1 DEF Log, Emit, Made, Line
<1>7. st.form # "return" /\ st.declares = Null
  BY DEF Line
<1>8. /\ h \in Handle /\ h.text.sort = "thrown" /\ h.kind # "Method"
      /\ handles' = Append(handles, h)
  <2>1. /\ Name("thrown", Len(handles) + 1) \in Expression
        /\ Name("thrown", Len(handles) + 1).sort = "thrown"
    BY <1>0, ConstantTypes DEF Sorts
  <2> QED BY <1>1, <2>1, PlainType DEF MakeHandle
<1> HIDE DEF st, call, h
<1>9. Extends /\ Grows /\ Counts(st) /\ Declared(statements', h.text)
  BY <1>1, <1>5, <1>6, <1>7, <1>8 DEF Extends, Grows, Counts, Declared
<1>10. rax' \in RaxType /\ Nameable' /\ RaxSound'
  BY <1>1, <1>3, <1>8, <1>9, Handed
<1> QED BY <1>5, <1>6, <1>7, <1>9, <1>10, Told

-----------------------------------------------------------------------------
(* The return of the method.                                                *)

\* Give(e) of capture_return.
Gives(e) == /\ calls' = Append(calls, Made("return", "none", Zero, Unknown, 0, <<>>))
            /\ statements' = Append(statements, Line("return", Null, Null, <<e>>))

LEMMA Given ==
  ASSUME Inv, handles' = handles, counters' = counters, ended = "no",
         NEW e \in Expression, Declared(statements, e), Gives(e)
  PROVE  /\ Body' /\ Extends
         /\ calls' \in Seq(Invocation) /\ Len(calls') <= MaxCalls + 1
         /\ {i \in DOMAIN statements' : statements'[i].form = "return"} = {Len(statements')}
         /\ Len(statements') \in DOMAIN statements'
         /\ statements'[Len(statements')].arguments = <<e>>
<1> DEFINE st == Line("return", Null, Null, <<e>>)
           call == Made("return", "none", Zero, Unknown, 0, <<>>)
<1>0. /\ TypeOK /\ Body /\ calls \in Seq(Invocation) /\ statements \in Seq(Statement)
      /\ Len(calls) <= MaxCalls
  <2>1. TypeOK /\ Body
    BY DEF Inv
  <2> QED BY <2>1, RecoveryAssumption DEF TypeOK
<1>1. /\ <<>> \in Seq(Words) /\ <<e>> \in Seq(Expression)
      /\ \A n \in DOMAIN <<e>> : Declared(statements, <<e>>[n])
      /\ "return" \in Forms \ {"void", "object", "value"}
  BY DEF Forms
<1>2. Null \in Expression
  BY ConstantTypes
<1>4. Declared(statements, Null)
  BY DEF Declared, Null, Name
<1>5. st \in Statement /\ call \in Invocation /\ Says(st, call)
  BY <1>1, <1>2, <1>4, PlainSays
<1>6. st.form = "return" /\ st.declares = Null /\ st.arguments = <<e>>
  BY DEF Line
<1>7. calls' = Append(calls, call) /\ statements' = Append(statements, st)
  BY DEF Gives
<1> HIDE DEF st, call
<1>8. Extends /\ Grows /\ Counts(st)
  BY <1>5, <1>6, <1>7 DEF Extends, Grows, Counts
<1>9. Body'
  BY <1>0, <1>5, <1>7, <1>8, Added
<1>10. calls' \in Seq(Invocation) /\ Len(calls') <= MaxCalls + 1
  <2>1. Len(calls') = Len(calls) + 1 /\ Len(calls) \in Nat /\ calls' \in Seq(Invocation)
    BY <1>0, <1>5, <1>7
  <2> QED BY <1>0, <2>1, RecoveryAssumption
<1>11. /\ Len(statements') = Len(statements) + 1 /\ Len(statements') \in DOMAIN statements'
       /\ statements'[Len(statements')] = st
       /\ \A i \in DOMAIN statements' :
            \/ i = Len(statements')
            \/ i \in DOMAIN statements /\ statements'[i] = statements[i]
  BY <1>0, <1>5, <1>7
<1>12. {i \in DOMAIN statements' : statements'[i].form = "return"} = {Len(statements')}
  BY <1>6, <1>11 DEF Inv, Open
<1> QED BY <1>6, <1>8, <1>9, <1>10, <1>11, <1>12

\* What the return finds in RAX.
LEMMA Moved ==
  ASSUME Inv,
         \/ UNCHANGED rax
         \/ \E word \in Passable : \E text \in Held(word) :
              rax' = [word |-> word, text |-> text, means |-> Render(word),
                      stale |-> text \notin {Unknown, Render(word)}]
  PROVE  /\ rax' \in RaxType /\ Declared(statements, rax'.text)
         /\ rax'.text \notin {Unknown, NoException, Empty} /\ ~rax'.stale => rax'.text = rax'.means
         /\ rax'.word \in Known => TextOf(handles[rax'.word]) = rax'.means
         /\ rax'.stale => rax'.text # Unknown
<1>0. TypeOK /\ Nameable /\ RaxSound
  BY DEF Inv
<1>1. CASE UNCHANGED rax
  BY <1>0, <1>1 DEF TypeOK, RaxType, Nameable, RaxSound
<1>2. CASE \E word \in Passable : \E text \in Held(word) :
              rax' = [word |-> word, text |-> text, means |-> Render(word),
                      stale |-> text \notin {Unknown, Render(word)}]
  <2>1. PICK word \in Passable : \E text \in Held(word) :
              rax' = [word |-> word, text |-> text, means |-> Render(word),
                      stale |-> text \notin {Unknown, Render(word)}]
    BY <1>2
  <2>2. PICK text \in Held(word) :
              rax' = [word |-> word, text |-> text, means |-> Render(word),
                      stale |-> text \notin {Unknown, Render(word)}]
    BY <2>1
  <2>3. word \in Words /\ word \in Int
    BY <1>0, WordsInt DEF Passable, Things, OfKind, Words
  <2>4. /\ Render(word) \in Expression
        /\ text \in Expression /\ Declared(statements, text)
    BY <1>0, <2>3, RenderType, HeldType
  <2>5. word \in Known => Render(word) = TextOf(handles[word])
    BY DEF Render
  <2> QED BY <2>2, <2>3, <2>4, <2>5 DEF RaxType
<1> QED BY <1>1, <1>2

LEMMA ReturnStep == ASSUME Inv, Return PROVE Inv'
<1>0. TypeOK /\ Body /\ Open /\ Nameable
  BY DEF Inv
<1>1. /\ ended = "no" /\ handles' = handles /\ counters' = counters
      /\ \/ UNCHANGED rax
         \/ \E word \in Passable : \E text \in Held(word) :
              rax' = [word |-> word, text |-> text, means |-> Render(word),
                      stale |-> text \notin {Unknown, Render(word)}]
  BY DEF Return
<1>2. PICK result \in {"object", "other", "float"} : ended' = result /\ ReturnStatement(result)
  BY DEF Return
<1> DEFINE text == IF result = "float" THEN Unknown ELSE rax'.text
           returns == {i \in DOMAIN statements' : statements'[i].form = "return"}
<1>3. \/ text # Unknown /\ Gives(text)
      \/ text = Unknown /\ result = "object" /\ Gives(Null)
      \/ /\ text = Unknown /\ result # "object" /\ rax'.word \in Known
         /\ Gives(TextOf(handles[rax'.word]))
      \/ /\ text = Unknown /\ result # "object" /\ rax'.word \notin Known
         /\ UNCHANGED <<calls, statements>>
  BY <1>2 DEF ReturnStatement, Log, Emit, Gives, Made, Line
<1>4. /\ rax' \in RaxType /\ Declared(statements, rax'.text)
      /\ rax'.text \notin {Unknown, NoException, Empty} /\ ~rax'.stale => rax'.text = rax'.means
      /\ rax'.word \in Known => TextOf(handles[rax'.word]) = rax'.means
      /\ rax'.stale => rax'.text # Unknown
  BY <1>1, Moved
<1> DEFINE fits == {text, Null} \union {TextOf(handles[w]) : w \in {rax'.word} \cap Known}
<1>5. \A e \in fits : e \in Expression /\ Declared(statements, e)
  <2>1. /\ Unknown \in Expression /\ Declared(statements, Unknown)
        /\ Null \in Expression /\ Declared(statements, Null)
    BY ConstantTypes DEF Declared, Unknown, Null, Name
  <2>2. rax'.text \in Expression
    BY <1>4 DEF RaxType
  <2>3. \A w \in Known : /\ TextOf(handles[w]) \in Expression
                        /\ Declared(statements, TextOf(handles[w]))
    BY <1>0, HandleType, ConstantTypes DEF Nameable, TextOf, Declared, Display, Name
  <2> QED BY <1>4, <2>1, <2>2, <2>3
<1>6. /\ text \in fits /\ Null \in fits
      /\ rax'.word \in Known => TextOf(handles[rax'.word]) \in fits
      /\ result # "float" => text = rax'.text
  OBVIOUS
<1> HIDE DEF text, fits, returns
<1>7. ASSUME NEW e \in fits, Gives(e)
      PROVE  /\ Body' /\ Extends
             /\ calls' \in Seq(Invocation) /\ Len(calls') <= MaxCalls + 1
             /\ returns = {Len(statements')} /\ statements'[Len(statements')].arguments = <<e>>
  <2>1. e \in Expression /\ Declared(statements, e)
    BY <1>5
  <2> QED BY <1>1, <1>7, <2>1, Given DEF returns
<1>8. ASSUME UNCHANGED <<calls, statements>>
      PROVE  /\ Body' /\ Extends
             /\ calls' \in Seq(Invocation) /\ Len(calls') <= MaxCalls + 1
             /\ returns = {}
  <2>1. Extends /\ Grows
    BY <1>1, <1>8 DEF Extends, Grows
  <2>2. Body'
    BY <1>0, <1>1, <1>8, <2>1, Still
  <2>3. calls' \in Seq(Invocation) /\ Len(calls') <= MaxCalls + 1
    BY <1>0, <1>1, <1>8, RecoveryAssumption DEF TypeOK
  <2>4. returns = {}
    BY <1>0, <1>1, <1>8 DEF Open, returns
  <2> QED BY <2>1, <2>2, <2>3, <2>4
<1>9. Body' /\ Extends /\ calls' \in Seq(Invocation) /\ Len(calls') <= MaxCalls + 1
  BY <1>3, <1>6, <1>7, <1>8
<1>10. TypeOK'
  <2>1. statements' \in Seq(Statement)
    BY <1>0, <1>9, DeclaredStays
  <2>2. Handle' = Handle /\ Statement' = Statement /\ Invocation' = Invocation
        /\ Expression' = Expression
    BY DEF Handle, Statement, Invocation, Expression
  <2>3. ended' \in {"object", "other", "float"}
    BY <1>2
  <2> QED BY <1>0, <1>1, <1>4, <1>9, <2>1, <2>2, <2>3 DEF TypeOK, RaxType
<1>11. Nameable' /\ RaxSound' /\ Untitled'
  <2>1. /\ Known' = Known /\ Unknown' = Unknown /\ NoException' = NoException
        /\ Empty' = Empty /\ Display' = Display
    BY <1>1 DEF Known, Unknown, NoException, Empty, Display, Name
  <2>2. \A e : Declared(statements, e) => Declared(statements', e)
    BY <1>0, <1>9, DeclaredStays
  <2>3. Untitled'
    BY <1>1, <2>1 DEF Inv, Untitled
  <2> QED BY <1>0, <1>1, <1>4, <2>1, <2>2, <2>3 DEF Nameable, RaxSound, TextOf
<1>12. Open'
  BY <1>2 DEF Open
<1>13. ReturnFaithful'
  <2> SUFFICES ASSUME result # "float", rax'.text \notin {NoException, Empty}
               PROVE  /\ \A i \in returns :
                           /\ i = Len(statements')
                           /\ \/ ~rax'.stale /\ statements'[i].arguments = <<rax'.means>>
                              \/ rax'.stale /\ statements'[i].arguments = <<rax'.text>>
                              \/ /\ result = "object" /\ rax'.text = Unknown
                                 /\ statements'[i].arguments = <<Null>>
                      /\ returns = {} => rax'.text = Unknown /\ rax'.word \notin Known'
    <3>1. /\ Known' = Known /\ Unknown' = Unknown /\ NoException' = NoException
          /\ Null' = Null /\ Empty' = Empty
      BY <1>1 DEF Known, Unknown, NoException, Null, Empty, Name
    <3> QED BY <1>2, <3>1 DEF ReturnFaithful, returns
  <2>1. text = rax'.text
    BY <1>6
  <2>2. CASE text # Unknown /\ Gives(text)
    <3>1. text = rax'.text /\ (~rax'.stale => text = rax'.means)
      BY <1>4, <2>1, <2>2
    <3> QED BY <1>6, <1>7, <2>2, <3>1
  <2>3. CASE text = Unknown /\ result = "object" /\ Gives(Null)
    BY <1>6, <1>7, <2>1, <2>3
  <2>4. CASE /\ text = Unknown /\ result # "object" /\ rax'.word \in Known
             /\ Gives(TextOf(handles[rax'.word]))
    BY <1>4, <1>6, <1>7, <2>1, <2>4
  <2>5. CASE /\ text = Unknown /\ result # "object" /\ rax'.word \notin Known
             /\ UNCHANGED <<calls, statements>>
    <3>1. Known' = Known
      BY <1>1 DEF Known
    <3> QED BY <1>8, <2>1, <2>5, <3>1
  <2> QED BY <1>3, <2>2, <2>3, <2>4, <2>5
<1> QED BY <1>9, <1>10, <1>11, <1>12, <1>13 DEF Inv

-----------------------------------------------------------------------------
(* The theorems.                                                            *)

LEMMA InvNext == ASSUME Inv, [Next]_vars PROVE Inv'
<1>1. CASE UNCHANGED vars
  <2>1. UNCHANGED <<handles, counters, statements, calls, rax, ended>>
    BY <1>1 DEF vars
  <2>2. TypeOK'
    BY <2>1 DEF Inv, TypeOK, Handle, Statement, Invocation, Forms, Expression, Sorts
  <2>3. Body'
    BY <2>1, Still DEF Inv, Grows
  <2>4. Nameable' /\ RaxSound' /\ Open' /\ Untitled'
    BY <2>1 DEF Inv, Nameable, RaxSound, Open, Untitled, Known, Declared, Unknown, NoException,
                Empty, Display, TextOf, Name
  <2>5. ReturnFaithful'
    BY <2>1 DEF Inv, ReturnFaithful, Known, Unknown, NoException, Null, Empty, Name
  <2> QED BY <2>2, <2>3, <2>4, <2>5 DEF Inv
<1>2. CASE Lookup
  BY <1>2, LookupStep
<1>3. CASE GetField \/ ExceptionCheck \/ FatalError \/ Unlisted \/ CallUnknown \/ ReturnVoid
  BY <1>3, QuietStep
<1>4. CASE Effect /\ UNCHANGED ended
  BY <1>4, CallStep, CallValueStep, NewObjectStep, AllocObjectStep, SetFieldStep,
     ThrowNewStep, ThrowStep DEF Effect
<1>5. CASE Return
  BY <1>5, ReturnStep
<1> QED BY <1>1, <1>2, <1>3, <1>4, <1>5 DEF Next

THEOREM Invariant == Spec => []Inv
<1> QED BY InvInit, InvNext, PTL DEF Spec

\* Handles, names, statements and the history of calls keep their types.
THEOREM RecoveryTypeCorrect == Spec => []TypeOK
<1>1. Inv => TypeOK
  BY DEF Inv
<1> QED BY <1>1, Invariant, PTL

\* Every prefix of the recovered body is closed, and next_name gives no name twice.
THEOREM Closed == Spec => []DeclaredBeforeUse
<1>1. Inv => DeclaredBeforeUse
  BY DEF Inv, Body
<1> QED BY <1>1, Invariant, PTL

\* Statements keep the order of the calls, and no call with an effect is dropped but
\* value calls and bare constructors.
THEOREM NothingDropped == Spec => []EffectsKept
<1>1. Inv => EffectsKept
  BY DEF Inv, Body
<1> QED BY <1>1, Invariant, PTL

\* A call is rendered on the object it was made on, unless the shadow of RDX held some
\* other text, and with the object passed first, unless it is nonvirtual or from a list,
\* whatever handles were made since.
THEOREM RenderedOnReceiver == Spec => []ReceiverAndFirstArgument
<1>1. Inv => ReceiverAndFirstArgument
  BY DEF Inv, Body
<1> QED BY <1>1, Invariant, PTL

\* capture_return names what the word in RAX means, whichever stub left it there, or
\* shows the text that the target itself left with another word.
THEOREM ReturnNamed == Spec => []ReturnFaithful
<1>1. Inv => ReturnFaithful
  BY DEF Inv
<1> QED BY <1>1, Invariant, PTL
=============================================================================
