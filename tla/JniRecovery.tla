----------------------------- MODULE JniRecovery -----------------------------
(***************************************************************************)
(* The synthetic JNI environment of one emulation (handle_jni, handle_call, *)
(* handle_new_object and capture_return in src/src/dynamic.rs): calls of the *)
(* target are answered with handles and turned into Java statements.         *)
(*                                                                          *)
(* Handles are numbered in the order make_handle hands them out              *)
(* (SyntheticHeap shows that their addresses are distinct); a text is         *)
(* abstracted to what it names.  The target passes arguments as the Windows   *)
(* x64 convention says; the stubs read them where the code looks for them.   *)
(* Between two calls it moves words about, and the text that the shadow       *)
(* registers hold for a word need not be the word's (ShadowValues).  How one  *)
(* method is worded (append, out, currentTimeMillis) is left out.            *)
(***************************************************************************)
EXTENDS Integers, Sequences

CONSTANTS
  Scalars,     \* argument words that are no handle
  Signatures,  \* the methods the target looks up: parameters, and whether a constructor
  MaxHandles,  \* bound on handles
  MaxCalls     \* bound on calls that reach the body or name a result; the method ends
               \* after the last of them, with what it left in RAX

ASSUME RecoveryAssumption ==
  /\ MaxHandles \in Nat /\ MaxCalls \in Nat
  /\ Scalars \subseteq Int /\ Scalars \cap Nat = {} /\ -1 \in Scalars
  /\ Signatures \subseteq [parameters : Seq({"string", "other"}), constructor : BOOLEAN]

\* What a piece of text names: this, argument n, a declared variable, the string, class
\* or exception of handle n, the number n, null, the result of call n, the field of handle n
\* (the field alone: GetObjectField drops the object), the text of ExceptionCheck; or
\* it is a wording without a name ("ref"), empty, or no expression (Value::unknown).
Sorts == {"this", "arg", "result", "object", "text", "class", "thrown", "ref", "scalar",
          "null", "call", "field", "noException", "empty", "unknown"}
Expression == [sort : Sorts, n : Int]
Name(sort, n) == [sort |-> sort, n |-> n]
Null    == Name("null", 0)
This    == Name("this", 0)
Owner   == Name("ref", 0)     \* the class of a member
Display == Name("ref", 1)     \* "MethodRef", "objectRef": a handle without a text
Bare    == Name("ref", 2)     \* a member without its object or class; "throwable"
Empty   == Name("empty", 0)
Unknown == Name("unknown", 0)
NoException == Name("noException", 0)

VARIABLES
  handles,     \* handle -> kind and text; of a member whether its class has a name, of
               \* a method its parameters and whether it is a constructor
  counters,    \* next_name
  statements,  \* the recovered body; call is history: where a statement stems from
  calls,       \* history: the calls made, with what the properties ask of the words
               \* the target passed
  rax,         \* its word and its shadow; history: what the word means, and whether
               \* the target itself left another text with it
  ended        \* "no", "fatal", or the type the method returned with

vars == <<handles, counters, statements, calls, rax, ended>>

\* The word 0 is no handle.
Zero == -1

Member(kind, owned, parameters, constructor) ==
  [kind |-> kind, text |-> Empty, owned |-> owned,
   parameters |-> parameters, constructor |-> constructor]
Plain(kind, text) ==
  [kind |-> kind, text |-> text, owned |-> FALSE, parameters |-> <<>>, constructor |-> FALSE]

\* initialize_arguments: the receiver, whose handle has no class name, and one object
\* argument.  (The "ClassRef" of a static method reads "Type.class" in the shadow.)
Init == /\ \E isStatic \in BOOLEAN :
             handles = << Plain("Class", IF isStatic THEN Owner ELSE This),
                          Plain("Object", Name("arg", 0)) >>
        /\ counters = [result |-> 0, object |-> 0]
        /\ statements = <<>>
        /\ calls = <<>>
        /\ rax = [word |-> Zero, text |-> Unknown, means |-> Name("scalar", Zero), stale |-> FALSE]
        /\ ended = "no"

Known   == DOMAIN handles
OfKind(kinds) == {h \in Known : handles[h].kind \in kinds}
Methods == OfKind({"Method"})
Classes == OfKind({"Class"})
Fields  == OfKind({"Field"})
Things  == OfKind({"Class", "Object", "String"})

\* Arguments and receivers; what a stub without a branch answered is 0.
Passable == Things \union Scalars

\* Also a class or member may be such a 0 (GetObjectClass).
ClassWords == Classes \union Scalars
FieldWords == Fields \union Scalars

-----------------------------------------------------------------------------
(* The caller's side: Windows x64 calls (external).                         *)

\* A static call is made on a class, which the stubs do not look at, any other on an
\* object.
Receivers(via) ==
  IF via = "static" THEN {Zero}
  ELSE {h \in Things : handles[h].kind # "Class" \/ handles[h].text = This} \union Scalars

\* What the shadow register of a word that the target put there can hold: nothing, the
\* text the word came with (none did for a class FindClass looked up or a new
\* exception), or a text that an instruction left there (shadow_step keeps that of what
\* cmov, pop or xchg write), for which the last answer's stands.
Held(word) ==
  {Unknown, rax.text} \union
  {e \in {IF word \in Known THEN handles[word].text ELSE Name("scalar", word)} :
     e.sort \notin {"class", "thrown"}}

\* receiver, method and arguments of a JNI call in RDX, R8, R9 and on the stack.  A
\* nonvirtual call has the class in R8 and the method in R9; NewObjectV and NewObjectA
\* ("list") pass a pointer to the arguments.  home is what the three upper words of
\* the home space hold, which the caller need not write.
Frame(via, receiver, shadow, method, arguments, leftover) ==
  LET inRegister == IF via = "nonvirtual" THEN 0 ELSE 1
      count == Len(arguments)
  IN [rdx   |-> receiver,
      text  |-> shadow,
      r8    |-> IF via = "nonvirtual" THEN receiver ELSE method,
      r9    |-> IF via = "nonvirtual" THEN method
                ELSE IF count > 0 /\ via # "list" THEN arguments[1] ELSE leftover,
      home  |-> leftover,
      stack |-> SubSeq(arguments, inRegister + 1, count)]

-----------------------------------------------------------------------------
(* What the stubs make of it.                                               *)

MakeHandle(handle) == /\ Len(handles) < MaxHandles
                      /\ handles' = Append(handles, handle)

NextName(sort) == Name(sort, counters[sort] + 1)
Declare(sort) == counters' = [counters EXCEPT ![sort] = @ + 1]

\* handle_text
TextOf(handle) == IF handle.text = Empty THEN Display ELSE handle.text

\* render_scalar_or_handle, and the rule call_arguments has for String parameters.
Render(word) == IF word \in Known THEN TextOf(handles[word]) ELSE Name("scalar", word)

RenderAs(parameter, word) ==
  IF parameter = "string" /\ word \notin Known THEN Null ELSE Render(word)

\* Mutant of Argument: all arguments are taken from the stack.
ArgumentOnStack(frame, n) == frame.home

\* R9, then stack_value(1), (2), (3): the words at RSP + 0x10, which are home space.
Argument(frame, n) == IF n = 1 THEN frame.r9 ELSE frame.home

CallArguments(frame, parameters) ==
  [n \in DOMAIN parameters |-> RenderAs(parameters[n], Argument(frame, n))]

\* Three of them, whatever the constructor takes.
ConstructorArguments(frame) == [n \in 1..3 |-> Render(Argument(frame, n))]

\* The method handle is looked up in R9 for nonvirtual calls.
MethodRegister(frame, via) == IF via = "nonvirtual" THEN frame.r9 ELSE frame.r8

\* The shadow of RDX comes first, then the handle in it; without either ("receiver")
\* the class of the method, or this.
Receiver(frame) == IF frame.text # Unknown THEN frame.text
                   ELSE IF frame.rdx \in Known THEN TextOf(handles[frame.rdx]) ELSE Empty

Target(frame, via) ==
  IF via # "static" /\ Receiver(frame) # Empty THEN Receiver(frame)
  ELSE IF handles[MethodRegister(frame, via)].owned THEN Owner ELSE This

Emit(form, declares, receiver, arguments) ==
  statements' = Append(statements,
    [form |-> form, declares |-> declares, receiver |-> receiver,
     arguments |-> arguments, call |-> Len(calls) + 1])

More == ended = "no" /\ Len(calls) < MaxCalls

Log(form, via, receiver, shadow, method, arguments) ==
  /\ ended = "no"
  /\ form # "return" => Len(calls) < MaxCalls
  /\ calls' = Append(calls, [form |-> form, via |-> via, receiver |-> receiver,
                             shadow |-> shadow, method |-> method, arguments |-> arguments])

\* The word and the shadow of RAX change together.
Answer(word, text, means) ==
  rax' = [word |-> word, text |-> text, means |-> means, stale |-> FALSE]

\* set_result with the handle made in this step, and set_integer_result.
AnswerHandle(text) == Answer(Len(handles) + 1, text, TextOf(handles'[Len(handles) + 1]))
AnswerNumber(text, means) == Answer(Zero, text, means)
AnswerZero == AnswerNumber(Unknown, Name("scalar", Zero))

-----------------------------------------------------------------------------
\* FindClass, the member lookups, the strings and the object fields answer with a new
\* handle and add nothing to the body; only the last two leave its text in the shadow
\* of RAX.  A member knows its class by the name FindClass was given.
Lookup ==
  /\ More
  /\ \/ /\ MakeHandle(Plain("Class", Name("class", Len(handles) + 1)))
        /\ AnswerHandle(Unknown)
     \/ /\ MakeHandle(Plain("String", Name("text", Len(handles) + 1)))
        /\ AnswerHandle(Name("text", Len(handles) + 1))
     \/ \E field \in FieldWords :
          LET text == IF field \in Known THEN Name("field", field) ELSE Empty IN
            MakeHandle(Plain("Object", text)) /\ AnswerHandle(text)
     \/ \E class \in ClassWords :
          LET owned == class \in Known /\ handles[class].text.sort = "class" IN
            /\ \/ MakeHandle(Member("Field", owned, <<>>, FALSE))
               \/ \E s \in Signatures :
                    MakeHandle(Member("Method", owned, s.parameters, s.constructor))
            /\ AnswerHandle(Unknown)
  /\ UNCHANGED <<counters, statements, calls, ended>>

\* Int and long fields answer with the number stored last, or 0, under their name; of
\* whom they are (FieldOf) is left out of it.
GetField == /\ More
            /\ \E field \in FieldWords :
                 LET text == IF field \in Known THEN Name("field", field) ELSE Bare IN
                   AnswerNumber(text, text)
            /\ UNCHANGED <<handles, counters, statements, calls, ended>>

\* The answer is always 0, no exception; the text left with it is true then.
ExceptionCheck == /\ More
                  /\ AnswerNumber(NoException, Name("scalar", Zero))
                  /\ UNCHANGED <<handles, counters, statements, calls, ended>>

\* The run stops with a reason of its own.
FatalError == /\ More
              /\ ended' = "fatal"
              /\ UNCHANGED <<handles, counters, statements, calls, rax>>

\* A slot without a branch of its own, whatever it does in Java: SetObjectField, the
\* arrays, the calls that take a list, the short and byte calls.
Unlisted == /\ More
            /\ AnswerZero
            /\ UNCHANGED <<handles, counters, statements, calls, ended>>

\* Nor does a call of a method that no handle stands for do anything.
CallUnknown == \E method \in Scalars : /\ More
                                      /\ method \notin Known
                                      /\ AnswerZero
                                      /\ UNCHANGED <<handles, counters, statements, calls, ended>>

\* Mutant of CallVoid: no constructor call is kept.
CallVoidBare(frame, via) ==
  LET method == handles[MethodRegister(frame, via)]
      arguments == CallArguments(frame, method.parameters)
  IN /\ IF method.constructor
        THEN UNCHANGED statements
        ELSE Emit("void", Null, Target(frame, via), arguments)
     /\ AnswerZero
     /\ UNCHANGED <<handles, counters>>

\* Mutant of CallVoid: the shadow of RAX stays.
CallVoidStale(frame, via) ==
  LET method == handles[MethodRegister(frame, via)]
      arguments == CallArguments(frame, method.parameters)
  IN /\ IF method.constructor /\ arguments = <<>>
        THEN UNCHANGED statements
        ELSE Emit("void", Null, Target(frame, via), arguments)
     /\ AnswerNumber(rax.text, Name("scalar", Zero))
     /\ UNCHANGED <<handles, counters>>

\* Void calls become a statement, except a constructor without arguments.
CallVoid(frame, via) ==
  LET method == handles[MethodRegister(frame, via)]
      arguments == CallArguments(frame, method.parameters)
  IN /\ IF method.constructor /\ arguments = <<>>
        THEN UNCHANGED statements
        ELSE Emit("void", Null, Target(frame, via), arguments)
     /\ AnswerZero
     /\ UNCHANGED <<handles, counters>>

\* Mutant of CallObject: the result is named, its declaration forgotten.
CallObjectSilent(frame, via) ==
  /\ Declare("result")
  /\ MakeHandle(Plain("Object", NextName("result")))
  /\ AnswerHandle(NextName("result"))
  /\ UNCHANGED statements

\* Object, float and double calls declare a variable that holds the result.
CallObject(frame, via) ==
  /\ Emit("object", NextName("result"), Target(frame, via),
          CallArguments(frame, handles[MethodRegister(frame, via)].parameters))
  /\ Declare("result")
  /\ MakeHandle(Plain("Object", NextName("result")))
  /\ AnswerHandle(NextName("result"))

\* Boolean, int and long calls leave the invocation in the shadow of RAX and nothing in
\* the body.
CallValue == /\ Methods # {} /\ Log("value", "none", Zero, Unknown, 0, <<>>)
             /\ AnswerNumber(Name("call", Len(calls) + 1), Name("call", Len(calls) + 1))
             /\ UNCHANGED <<handles, counters, statements>>

Call ==
  /\ More
  /\ \E via \in {"virtual", "static", "nonvirtual"}, method \in Methods, leftover \in Scalars :
       \E receiver \in Receivers(via) : \E shadow \in Held(receiver),
          arguments \in [DOMAIN handles[method].parameters -> Passable] :
         LET frame == Frame(via, receiver, shadow, method, arguments, leftover) IN
           \/ Log("void", via, receiver, shadow, method, arguments) /\ CallVoid(frame, via)
           \/ Log("object", via, receiver, shadow, method, arguments) /\ CallObject(frame, via)

\* Which class an object or exception is of is wording, and left out.
NewObject == \E via \in {"virtual", "list"}, method \in Methods, leftover \in Scalars :
               /\ handles[method].constructor
               /\ \E arguments \in [DOMAIN handles[method].parameters -> Passable] :
                    /\ Log("new", via, Zero, Unknown, method, arguments)
                    /\ Emit("new", NextName("object"), Null,
                            ConstructorArguments(Frame(via, Zero, Unknown, method,
                                                       arguments, leftover)))
               /\ Declare("object")
               /\ MakeHandle(Plain("Object", NextName("object")))
               /\ AnswerHandle(NextName("object"))

AllocObject == /\ Log("alloc", "none", Zero, Unknown, 0, <<>>)
               /\ Emit("alloc", NextName("object"), Null, <<>>)
               /\ Declare("object")
               /\ MakeHandle(Plain("Object", NextName("object")))
               /\ AnswerHandle(NextName("object"))

\* field_expression: the bare name of a field without a class, else the field of an
\* object, else of the class.
FieldOf(word, field) ==
  IF field \notin Known THEN Bare
  ELSE IF ~handles[field].owned THEN Bare
  ELSE IF word \notin Known THEN Owner
  ELSE IF handles[word].kind = "Object" \/ handles[word].text = This
    THEN TextOf(handles[word]) ELSE Owner

SetField == \E receiver \in Passable, field \in FieldWords, value \in Scalars :
              /\ Log("store", "none", Zero, Unknown, 0, <<value>>)
              /\ Emit("store", Null, FieldOf(receiver, field), <<Render(value)>>)
              /\ AnswerZero
              /\ UNCHANGED <<handles, counters>>

\* ThrowNew answers with a handle of the exception; Throw does not.
ThrowNew == /\ Log("throwNew", "none", Zero, Unknown, 0, <<>>)
            /\ Emit("throwNew", Null, Null, <<>>)
            /\ MakeHandle(Plain("Object", Name("thrown", Len(handles) + 1)))
            /\ AnswerHandle(Unknown)
            /\ UNCHANGED counters

Throw == \E thrown \in OfKind({"Object"}) \union Scalars :
           /\ Log("throw", "none", Zero, Unknown, 0, <<thrown>>)
           /\ Emit("throw", Null, Null, <<IF thrown \in Known THEN Render(thrown) ELSE Bare>>)
           /\ AnswerZero
           /\ UNCHANGED <<handles, counters>>

\* capture_return for a value of the given type: the shadow of RAX, which a floating
\* result does not look at; null for an Object; the handle in RAX; or nothing.
ReturnStatement(result) ==
  LET text == IF result = "float" THEN Unknown ELSE rax'.text
      Give(e) == Log("return", "none", Zero, Unknown, 0, <<>>) /\ Emit("return", Null, Null, <<e>>)
  IN IF text # Unknown THEN Give(text)
     ELSE IF result = "object" THEN Give(Null)
     ELSE IF rax'.word \in Known THEN Give(TextOf(handles[rax'.word]))
     ELSE UNCHANGED <<calls, statements>>

\* The target returns what a call left in RAX, or puts a word there itself, with no
\* text, the word's own, or one that does not belong to it.
Return == /\ ended = "no"
          /\ \/ UNCHANGED rax
             \/ More /\ \E word \in Passable : \E text \in Held(word) :
                    rax' = [word |-> word, text |-> text, means |-> Render(word),
                            stale |-> text \notin {Unknown, Render(word)}]
          /\ \E result \in {"object", "other", "float"} :
               ended' = result /\ ReturnStatement(result)
          /\ UNCHANGED <<handles, counters>>

ReturnVoid == /\ ended = "no"
              /\ ended' = "void"
              /\ UNCHANGED <<handles, counters, statements, calls, rax>>

Effect == Call \/ CallValue \/ NewObject \/ AllocObject \/ SetField \/ ThrowNew \/ Throw

Next == \/ Lookup \/ GetField \/ ExceptionCheck \/ FatalError \/ Unlisted \/ CallUnknown
        \/ Effect /\ UNCHANGED ended
        \/ Return \/ ReturnVoid

Spec == Init /\ [][Next]_vars

-----------------------------------------------------------------------------
Handle == [kind : {"Class", "Method", "Field", "String", "Object"}, text : Expression,
           owned : BOOLEAN, parameters : Seq({"string", "other"}), constructor : BOOLEAN]

Forms == {"void", "object", "value", "new", "alloc", "store", "throwNew", "throw", "return"}

Invocation == [form : Forms, via : {"virtual", "static", "nonvirtual", "list", "none"},
               receiver : Int, shadow : Expression, method : Int, arguments : Seq(Int)]

Statement == [form : Forms \ {"value"},
              declares : Expression, receiver : Expression,
              arguments : Seq(Expression), call : Nat]

\* The return of the method is not bounded by MaxCalls.
TypeOK == /\ handles \in Seq(Handle)
          /\ counters \in [{"result", "object"} -> Nat]
          /\ statements \in Seq(Statement)
          /\ calls \in Seq(Invocation)
          /\ Len(calls) <= MaxCalls + (IF ended = "no" THEN 0 ELSE 1)
          /\ rax \in [word : Int, text : Expression, means : Expression, stale : BOOLEAN]
          /\ ended \in {"no", "fatal", "void", "object", "other", "float"}

Mentioned(statement) ==
  {statement.receiver} \union {statement.arguments[n] : n \in DOMAIN statement.arguments}

\* A statement mentions only variables that an earlier statement declares, so that
\* every prefix of the body (max_statements_per_method) is closed, and no variable is
\* declared twice, whatever mix of calls creates objects.
DeclaredBeforeUse ==
  /\ \A i \in DOMAIN statements : \A e \in Mentioned(statements[i]) :
       e.sort \in {"result", "object"} => \E j \in 1..(i - 1) : statements[j].declares = e
  /\ \A i, j \in DOMAIN statements :
       statements[i].declares = statements[j].declares /\ statements[i].declares # Null => i = j

\* Statements keep the order of the calls they stem from; of the calls that reach a
\* branch of handle_jni, only value calls and bare constructors have none.
EffectsKept ==
  /\ \A i, j \in DOMAIN statements : i < j => statements[i].call < statements[j].call
  /\ \A k \in DOMAIN calls :
       \/ \E i \in DOMAIN statements : statements[i].call = k
       \/ calls[k].form = "value"
       \/ /\ calls[k].form = "void" /\ calls[k].arguments = <<>>
          /\ handles[calls[k].method].constructor

\* Statement i names the n-th word that its call passed, if that is a handle.
Names(i, n) ==
  LET word == calls[statements[i].call].arguments[n] IN
    word \in Known =>
      n \in DOMAIN statements[i].arguments
      /\ statements[i].arguments[n] = TextOf(handles[word])

\* A call is rendered on the object it was made on, if the shadow of RDX has that
\* object's text or none, also when handles were made since.  Its first argument is
\* named, but for two kinds of calls: a nonvirtual one has the method ID in its place,
\* and a construction from a list passes only where its arguments are.
ReceiverAndFirstArgument ==
  \A i \in DOMAIN statements :
    LET call == calls[statements[i].call] IN
      /\ /\ statements[i].form \in {"void", "object"} /\ call.via # "static"
         /\ call.receiver \in Known
         /\ call.shadow \in {Unknown, TextOf(handles[call.receiver])}
         => statements[i].receiver = TextOf(handles[call.receiver])
      /\ call.arguments # <<>> =>
           IF call.via = "nonvirtual" THEN statements[i].arguments[1] = Display
           ELSE call.via # "list" => Names(i, 1)

\* The recovered return names what the word in RAX means, whichever stub left it there
\* and whatever the shadow held before; or, if the target moved a word there itself,
\* unless that left another word's text with it, which is then returned.  Without an
\* expression in the shadow an Object becomes null and a word that is no handle has no
\* statement; the 0 of ExceptionCheck keeps its text, a field that no handle stands
\* for has none, and a floating result is looked for in the wrong register.
ReturnFaithful ==
  ended \in {"object", "other"} /\ rax.text \notin {NoException, Empty} =>
    LET returns == {i \in DOMAIN statements : statements[i].form = "return"} IN
      /\ \A i \in returns :
           /\ i = Len(statements)
           /\ \/ ~rax.stale /\ statements[i].arguments = <<rax.means>>
              \/ rax.stale /\ statements[i].arguments = <<rax.text>>
              \/ ended = "object" /\ rax.text = Unknown /\ statements[i].arguments = <<Null>>
      /\ returns = {} => rax.text = Unknown /\ rax.word \notin Known

\* A rendered call names the objects it passes, each in its place.
ArgumentsNamed ==
  \A i \in DOMAIN statements :
    \A n \in DOMAIN calls[statements[i].call].arguments : Names(i, n)
=============================================================================
