----------------------- MODULE CallingConventionsProofs -----------------------
(***************************************************************************)
(* Proofs about torch-adjust-calling-conventions: for modules of any size, *)
(* signatures, calls and returns agree when the pass is done.              *)
(***************************************************************************)
EXTENDS CallingConventions, SequenceTheorems, TLAPS

LEMMA FlattenedType ==
  ASSUME NEW types \in Seq(Type)
  PROVE  Flattened(types) \in Seq(Type)
<1>1. CASE types = <<"none">>
  BY <1>1 DEF Flattened
<1>2. CASE types = <<"pair">>
  <2>1. Flattened(types) = <<"tensor", "tensor">>
    BY <1>2 DEF Flattened
  <2> QED
    BY <2>1 DEF Type
<1>3. CASE types # <<"none">> /\ types # <<"pair">>
  BY <1>3 DEF Flattened
<1> QED
  BY <1>1, <1>2, <1>3

LEMMA ConvertedFuncType ==
  ASSUME NEW f \in FuncIR
  PROVE  /\ ConvertedFunc(f) \in FuncIR
         /\ ConvertedFunc(f).calls = f.calls
         /\ ConvertedFunc(f).returned = f.returned
         /\ \A i \in DOMAIN ConvertedFunc(f).args : ConvertedFunc(f).args[i].bound = "none"
<1>1. CASE IsLegalFunc(f)
  BY <1>1 DEF ConvertedFunc, IsLegalFunc
<1>2. CASE ~ IsLegalFunc(f)
  <2> DEFINE D == {i \in DOMAIN f.args : f.args[i].type # "none"}
             args == [i \in D |-> ConvertedArg(f.args[i])]
  <2>1. PICK E \in SUBSET (1 .. MaxArity) : f.args \in [E -> ArgIR]
    BY DEF FuncIR, Positions
  <2>2. \A i \in D : ConvertedArg(f.args[i]) \in ArgIR /\ ConvertedArg(f.args[i]).bound = "none"
    BY <2>1 DEF ConvertedArg, ArgIR, Type, Bound
  <2>3. args \in [D -> ArgIR] /\ D \in SUBSET (1 .. MaxArity)
    BY <2>1, <2>2
  <2>4. args \in Positions(ArgIR)
    BY <2>3 DEF Positions
  <2>5. Flattened(f.results) \in Seq(Type)
    BY FlattenedType DEF FuncIR
  <2>6. ConvertedFunc(f) = [f EXCEPT !.args = args, !.results = Flattened(f.results)]
    BY <1>2 DEF ConvertedFunc
  <2> HIDE DEF args, D
  <2>7. ConvertedFunc(f) \in FuncIR /\ ConvertedFunc(f).args = args
    BY <2>4, <2>5, <2>6 DEF FuncIR
  <2>8. ConvertedFunc(f).calls = f.calls /\ ConvertedFunc(f).returned = f.returned
    BY <2>6 DEF FuncIR
  <2>9. \A i \in DOMAIN args : args[i].bound = "none"
    BY <2>2, <2>3 DEF args
  <2> QED
    BY <2>7, <2>8, <2>9
<1> QED
  BY <1>1, <1>2

LEMMA ConvertedCallType ==
  ASSUME NEW bounds, NEW call \in CallIR
  PROVE  ConvertedCall(bounds, call) \in CallIR
<1> DEFINE operands == [i \in DOMAIN call.operands |->
                          IF BoundOf(bounds, call.callee, i) = "vtensor"
                          THEN "bounded" ELSE call.operands[i]]
<1>1. PICK E \in SUBSET (1 .. MaxArity) : call.operands \in [E -> Type]
  BY DEF CallIR, Positions
<1>2. operands \in [E -> Type]
  BY <1>1 DEF Type
<1>3. operands \in Positions(Type)
  BY <1>2 DEF Positions
<1>4. Flattened(call.results) \in Seq(Type)
  BY FlattenedType DEF CallIR
<1>5. ConvertedCall(bounds, call) = [call EXCEPT !.operands = operands, !.results = Flattened(call.results)]
  BY DEF ConvertedCall
<1> HIDE DEF operands
<1> QED
  BY <1>3, <1>4, <1>5 DEF CallIR

LEMMA ConvertedType ==
  ASSUME NEW bounds, NEW f \in FuncIR
  PROVE  /\ Converted(bounds, f) \in FuncIR
         /\ \A i \in DOMAIN Converted(bounds, f).args : Converted(bounds, f).args[i].bound = "none"
<1> DEFINE g == ConvertedFunc(f)
           calls == [c \in DOMAIN g.calls |-> ConvertedCall(bounds, g.calls[c])]
<1>1. /\ g \in FuncIR /\ g.calls = f.calls /\ g.returned = f.returned
      /\ \A i \in DOMAIN g.args : g.args[i].bound = "none"
  BY ConvertedFuncType
<1> HIDE DEF g
<1>2. g.calls \in Seq(CallIR) /\ g.returned \in Seq(Type)
  BY <1>1 DEF FuncIR
<1>3. \A c \in DOMAIN g.calls : ConvertedCall(bounds, g.calls[c]) \in CallIR
  BY <1>2, ConvertedCallType
<1>4. calls \in Seq(CallIR)
  BY <1>2, <1>3
<1>5. Flattened(g.returned) \in Seq(Type)
  BY <1>2, FlattenedType
<1>6. Converted(bounds, f) = [g EXCEPT !.calls = calls, !.returned = Flattened(g.returned)]
  BY DEF Converted, g
<1> HIDE DEF calls
<1>7. Converted(bounds, f) \in FuncIR /\ Converted(bounds, f).args = g.args
  BY <1>1, <1>4, <1>5, <1>6 DEF FuncIR
<1> QED
  BY <1>1, <1>7

-----------------------------------------------------------------------------
LEMMA InitTypeOK == Init => TypeOK
  BY ModulesAssumption DEF Init, TypeOK

LEMMA NextTypeOK == TypeOK /\ [Next]_vars => TypeOK'
<1> SUFFICES ASSUME TypeOK, [Next]_vars PROVE TypeOK'
  OBVIOUS
<1>1. CASE CollectBounds
  <2>1. TypeBounds(module) \subseteq Func \X (1 .. MaxArity) \X Bound
    <3>1. ASSUME NEW k \in Func, NEW i \in BoundArgs(module[k])
          PROVE  <<k, i, module[k].args[i].bound>> \in Func \X (1 .. MaxArity) \X Bound
      <4>1. module[k] \in FuncIR
        BY DEF TypeOK
      <4>2. PICK D \in SUBSET (1 .. MaxArity) : module[k].args \in [D -> ArgIR]
        BY <4>1 DEF FuncIR, Positions
      <4>3. i \in D /\ module[k].args[i] \in ArgIR
        BY <3>1, <4>2 DEF BoundArgs
      <4> QED
        BY <4>2, <4>3 DEF ArgIR
    <3> QED
      BY <3>1 DEF TypeBounds
  <2> QED
    BY <1>1, <2>1 DEF CollectBounds, TypeOK
<1>2. ASSUME NEW k \in Func, AdjustFunction(k)
      PROVE  TypeOK'
  <2>1. module[k] \in FuncIR
    BY DEF TypeOK
  <2>2. /\ Converted(typeBoundMap, module[k]) \in FuncIR
        /\ \A i \in DOMAIN Converted(typeBoundMap, module[k]).args : Converted(typeBoundMap, module[k]).args[i].bound = "none"
    BY <2>1, ConvertedType
  <2>3. /\ next = k /\ next' = k + 1
        /\ module' = [module EXCEPT ![k] = Converted(typeBoundMap, module[k])]
        /\ UNCHANGED <<source, typeBoundMap, status>>
    BY <1>2 DEF AdjustFunction
  <2> DEFINE new == Converted(typeBoundMap, module[k])
  <2> HIDE DEF new
  <2>4. module' \in [Func -> FuncIR]
    BY <2>2, <2>3 DEF TypeOK, new
  <2>5. ASSUME NEW l \in 1 .. next' - 1
        PROVE  \A i \in DOMAIN module'[l].args : module'[l].args[i].bound = "none"
    <3>1. CASE l = k
      <4>1. module'[l] = Converted(typeBoundMap, module[k])
        BY <2>3, <3>1 DEF TypeOK
      <4> QED
        BY <2>2, <4>1
    <3>2. CASE l # k
      <4>1. l \in 1 .. next - 1 /\ l \in Func
        BY <2>3, <2>5, <3>2, ModulesAssumption DEF Func
      <4>2. module'[l] = module[l]
        BY <2>3, <3>2, <4>1 DEF TypeOK
      <4> QED
        BY <4>1, <4>2 DEF TypeOK
    <3> QED
      BY <3>1, <3>2
  <2>6. next' \in 1 .. NumFuncs + 1
    BY <2>3, ModulesAssumption DEF Func
  <2> QED
    BY <2>3, <2>4, <2>5, <2>6 DEF TypeOK
<1>3. ASSUME NEW k \in Func, RefuseFunc(k)
      PROVE  TypeOK'
  BY <1>3 DEF RefuseFunc, TypeOK
<1>4. ASSUME NEW k \in Func, RefuseCall(k)
      PROVE  TypeOK'
  BY <1>4 DEF RefuseCall, TypeOK
<1>5. CASE Finish
  BY <1>5 DEF Finish, TypeOK
<1>6. CASE UNCHANGED vars
  BY <1>6 DEF vars, TypeOK
<1> QED
  BY <1>1, <1>2, <1>3, <1>4, <1>5, <1>6 DEF Next

\* Every variable has its type, and no adjusted function has a bound left, in
\* modules of any number of functions and arguments.
THEOREM TypeCorrect == Spec => []TypeOK
<1> QED
  BY InitTypeOK, NextTypeOK, PTL DEF Spec

-----------------------------------------------------------------------------
(***************************************************************************)
(* Functions before the next one are those of the source, converted; the   *)
(* others are those of the source.                                         *)
(***************************************************************************)
AdjustInv ==
  /\ source \in Modules
  /\ status = "collecting" => module = source /\ next = 1
  /\ status # "collecting" => typeBoundMap = TypeBounds(source)
  /\ \A k \in Func :
       IF k < next THEN module[k] = Converted(typeBoundMap, source[k]) /\ CanConvertFunc(source[k])
       ELSE module[k] = source[k]
  /\ status = "done" => next = NumFuncs + 1

LEMMA InitAdjustInv == Init => AdjustInv
  BY DEF Init, AdjustInv, Func

LEMMA NextAdjustInv == TypeOK /\ AdjustInv /\ [Next]_vars => AdjustInv'
<1> SUFFICES ASSUME TypeOK, AdjustInv, [Next]_vars PROVE AdjustInv'
  OBVIOUS
<1>1. CASE CollectBounds
  <2>1. /\ module = source /\ next = 1 /\ status' = "adjusting"
        /\ typeBoundMap' = TypeBounds(source) /\ UNCHANGED <<source, module, next>>
    BY <1>1 DEF CollectBounds, AdjustInv
  <2>2. typeBoundMap' = TypeBounds(source')
    BY <2>1
  <2> QED
    BY <2>1, <2>2 DEF AdjustInv, Func, TypeBounds, BoundArgs
<1>2. ASSUME NEW k \in Func, AdjustFunction(k)
      PROVE  AdjustInv'
  <2>1. /\ next = k /\ next' = k + 1 /\ status = "adjusting" /\ CanConvertFunc(module[k])
        /\ module' = [module EXCEPT ![k] = Converted(typeBoundMap, module[k])]
        /\ UNCHANGED <<source, typeBoundMap, status>>
    BY <1>2 DEF AdjustFunction
  <2>2. module[k] = source[k]
    BY <2>1 DEF AdjustInv, Func
  <2>3. ASSUME NEW l \in Func
        PROVE  IF l < next' THEN module'[l] = Converted(typeBoundMap, source[l]) /\ CanConvertFunc(source[l])
               ELSE module'[l] = source[l]
    <3>1. CASE l = k
      BY <2>1, <2>2, <3>1 DEF TypeOK, Func
    <3>2. CASE l # k
      <4>1. module'[l] = module[l] /\ (l < next' <=> l < next)
        BY <2>1, <3>2 DEF TypeOK, Func
      <4> QED
        BY <4>1 DEF AdjustInv
    <3> QED
      BY <3>1, <3>2
  <2> QED
    BY <2>1, <2>3 DEF AdjustInv
<1>3. ASSUME NEW k \in Func, RefuseFunc(k)
      PROVE  AdjustInv'
  BY <1>3 DEF RefuseFunc, AdjustInv
<1>4. ASSUME NEW k \in Func, RefuseCall(k)
      PROVE  AdjustInv'
  BY <1>4 DEF RefuseCall, AdjustInv
<1>5. CASE Finish
  BY <1>5 DEF Finish, AdjustInv
<1>6. CASE UNCHANGED vars
  BY <1>6 DEF vars, AdjustInv
<1> QED
  BY <1>1, <1>2, <1>3, <1>4, <1>5, <1>6 DEF Next

-----------------------------------------------------------------------------
LEMMA BoundIsFound ==
  ASSUME NEW m \in [Func -> FuncIR], NEW k \in Func, NEW i \in DOMAIN m[k].args
  PROVE  BoundOf(TypeBounds(m), k, i) = m[k].args[i].bound
<1> DEFINE bounds == TypeBounds(m)
<1>1. \A b \in bounds : b[1] = k /\ b[2] = i => b[3] = m[k].args[i].bound
  BY DEF TypeBounds
<1>2. CASE m[k].args[i].bound = "none"
  <2>1. ~ \E b \in bounds : b[1] = k /\ b[2] = i
    BY <1>2 DEF TypeBounds, BoundArgs
  <2> QED
    BY <1>2, <2>1 DEF BoundOf
<1>3. CASE m[k].args[i].bound # "none"
  <2>1. <<k, i, m[k].args[i].bound>> \in bounds
    BY <1>3 DEF TypeBounds, BoundArgs
  <2>2. \E b \in bounds : b[1] = k /\ b[2] = i
    BY <2>1
  <2> HIDE DEF bounds
  <2> DEFINE b == CHOOSE b \in bounds : b[1] = k /\ b[2] = i
  <2>3. b \in bounds /\ b[1] = k /\ b[2] = i
    BY <2>2
  <2>4. BoundOf(bounds, k, i) = b[3]
    BY <2>2 DEF BoundOf
  <2> QED
    BY <1>1, <2>3, <2>4 DEF bounds
<1> QED
  BY <1>2, <1>3

\* What a converted function is made of.
LEMMA ConvertedFields ==
  ASSUME NEW bounds, NEW f \in FuncIR
  PROVE  LET g == Converted(bounds, f)
         IN  /\ g.args = ConvertedFunc(f).args
             /\ g.results = ConvertedFunc(f).results
             /\ g.returned = Flattened(f.returned)
             /\ DOMAIN g.calls = DOMAIN f.calls
             /\ \A c \in DOMAIN f.calls : g.calls[c] = ConvertedCall(bounds, f.calls[c])
<1> DEFINE h == ConvertedFunc(f)
           calls == [c \in DOMAIN h.calls |-> ConvertedCall(bounds, h.calls[c])]
<1>1. h \in FuncIR /\ h.calls = f.calls /\ h.returned = f.returned
  BY ConvertedFuncType
<1>2. Converted(bounds, f) = [h EXCEPT !.calls = calls, !.returned = Flattened(h.returned)]
  BY DEF Converted
<1> HIDE DEF h
<1>3. DOMAIN calls = DOMAIN f.calls
  BY <1>1
<1>4. \A c \in DOMAIN f.calls : calls[c] = ConvertedCall(bounds, f.calls[c])
  BY <1>1
<1> HIDE DEF calls
<1>5. LET g == Converted(bounds, f)
      IN  g.args = h.args /\ g.results = h.results /\ g.calls = calls
            /\ g.returned = Flattened(h.returned)
  BY <1>1, <1>2 DEF FuncIR
<1> QED
  BY <1>1, <1>3, <1>4, <1>5 DEF h

LEMMA ResultsAreFlattened ==
  ASSUME NEW f \in FuncIR, Len(f.results) <= 1, IsAdjustable(f)
  PROVE  /\ ConvertedFunc(f).results = Flattened(f.results)
         /\ \A i \in DOMAIN Flattened(f.results) : Flattened(f.results)[i] \notin {"none", "pair"}
<1>1. f.results \in Seq(Type)
  BY DEF FuncIR
<1>2. f.results = <<>> \/ f.results = <<f.results[1]>>
  <2>1. Len(f.results) \in Nat
    BY <1>1, LenProperties
  <2>2. Len(f.results) = 0 \/ Len(f.results) = 1
    <3> DEFINE n == Len(f.results)
    <3>1. n \in Nat /\ n <= 1
      BY <2>1
    <3> HIDE DEF n
    <3>2. n = 0 \/ n = 1
      BY <3>1
    <3> QED
      BY <3>2 DEF n
  <2>3. CASE Len(f.results) = 0
    BY <1>1, <2>3
  <2>4. CASE Len(f.results) = 1
    BY <1>1, <2>4
  <2> QED
    BY <2>2, <2>3, <2>4
<1>3. \A i \in DOMAIN Flattened(f.results) : Flattened(f.results)[i] \notin {"none", "pair"}
  <2>1. CASE f.results = <<"none">>
    BY <2>1 DEF Flattened
  <2>2. CASE f.results = <<"pair">>
    <3>1. Flattened(f.results) = <<"tensor", "tensor">>
      BY <2>2 DEF Flattened
    <3> QED
      BY <3>1
  <2>3. CASE f.results # <<"none">> /\ f.results # <<"pair">>
    <3>1. Flattened(f.results) = f.results
      BY <2>3 DEF Flattened
    <3>2. ASSUME NEW i \in DOMAIN f.results
          PROVE  f.results[i] \notin {"none", "pair"}
      <4>1. i = 1 /\ f.results = <<f.results[1]>>
        BY <1>1, <1>2, <3>2
      <4> QED
        BY <2>3, <4>1
    <3> QED
      BY <3>1, <3>2
  <2> QED
    BY <2>1, <2>2, <2>3
<1>4. CASE IsLegalFunc(f)
  <2>1. f.results # <<"pair">>
    BY <1>4 DEF IsAdjustable
  <2>2. f.results # <<"none">>
    BY <1>4 DEF IsLegalFunc
  <2> QED
    BY <1>3, <1>4, <2>1, <2>2 DEF ConvertedFunc, Flattened
<1>5. CASE ~ IsLegalFunc(f)
  <2> DEFINE args == [i \in {i \in DOMAIN f.args : f.args[i].type # "none"}
                        |-> ConvertedArg(f.args[i])]
  <2>1. ConvertedFunc(f) = [f EXCEPT !.args = args, !.results = Flattened(f.results)]
    BY <1>5 DEF ConvertedFunc
  <2> HIDE DEF args
  <2>2. ConvertedFunc(f).results = Flattened(f.results)
    BY <2>1 DEF FuncIR
  <2> QED
    BY <1>3, <2>2
<1> QED
  BY <1>4, <1>5

\* Operands are converted to what the signature of the callee is converted to.
LEMMA OperandsFollowSignature ==
  ASSUME NEW m \in [Func -> FuncIR], NEW call \in CallIR, call.callee \in Func,
         call.operands = SignatureTypes(m[call.callee]),
         \A i \in DOMAIN call.operands : call.operands[i] \in {"tensor", "vtensor"},
         IsAdjustable(m[call.callee]), CanConvertFunc(m[call.callee])
  PROVE  ConvertedCall(TypeBounds(m), call).operands
           = SignatureTypes(ConvertedFunc(m[call.callee]))
<1> DEFINE f == m[call.callee]
           g == ConvertedFunc(f)
           bounds == TypeBounds(m)
           operands == [i \in DOMAIN call.operands |->
                          IF BoundOf(bounds, call.callee, i) = "vtensor"
                          THEN "bounded" ELSE call.operands[i]]
<1>1. ConvertedCall(bounds, call) = [call EXCEPT !.operands = operands, !.results = Flattened(call.results)]
  BY DEF ConvertedCall
<1> HIDE DEF operands
<1>2. ConvertedCall(bounds, call).operands = operands
  BY <1>1 DEF CallIR
<1>3. DOMAIN call.operands = DOMAIN f.args
  BY DEF SignatureTypes
<1>4. \A i \in DOMAIN f.args : call.operands[i] = f.args[i].type
  BY DEF SignatureTypes
<1>5. \A i \in DOMAIN f.args : BoundOf(bounds, call.callee, i) = f.args[i].bound
  BY BoundIsFound
<1> HIDE DEF bounds
<1>6. operands = [i \in DOMAIN f.args |->
                    IF f.args[i].bound = "vtensor" THEN "bounded" ELSE f.args[i].type]
  BY <1>3, <1>4, <1>5 DEF operands
<1>7. CASE IsLegalFunc(f)
  <2>1. \A i \in DOMAIN f.args : f.args[i].bound = "none"
    BY <1>7 DEF IsLegalFunc
  <2>2. operands = SignatureTypes(f)
    BY <1>6, <2>1 DEF SignatureTypes
  <2> QED
    BY <1>2, <1>7, <2>2 DEF ConvertedFunc, bounds
<1>8. CASE ~ IsLegalFunc(f)
  <2> DEFINE D == {i \in DOMAIN f.args : f.args[i].type # "none"}
             args == [i \in D |-> ConvertedArg(f.args[i])]
  <2>1. D = DOMAIN f.args
    BY <1>3, <1>4
  <2>2. \A i \in DOMAIN f.args : f.args[i].bound = "vtensor" <=> f.args[i].type = "tensor"
    <3>1. \A i \in DOMAIN f.args : f.args[i].type = "tensor" => f.args[i].bound = "vtensor"
      BY <1>8 DEF CanConvertFunc, Refused
    <3>2. \A i \in DOMAIN f.args : f.args[i].bound # "none" => f.args[i].type = "tensor"
      BY DEF IsAdjustable
    <3> QED
      BY <3>1, <3>2
  <2>3. g = [f EXCEPT !.args = args, !.results = Flattened(f.results)]
    BY <1>8 DEF ConvertedFunc
  <2> HIDE DEF args, g
  <2>4. g.args = args
    BY <2>3 DEF FuncIR
  <2>5. \A i \in D : args[i].type = IF f.args[i].type = "tensor" THEN "bounded" ELSE f.args[i].type
    BY DEF args, ConvertedArg
  <2>6. SignatureTypes(g) = [i \in DOMAIN f.args |->
                               IF f.args[i].type = "tensor" THEN "bounded" ELSE f.args[i].type]
    <3>1. DOMAIN args = DOMAIN f.args
      BY <2>1 DEF args
    <3> QED
      BY <2>1, <2>4, <2>5, <3>1 DEF SignatureTypes
  <2>7. operands = SignatureTypes(g)
    BY <1>6, <2>2, <2>6
  <2> QED
    BY <1>2, <2>7 DEF bounds, g
<1> QED
  BY <1>7, <1>8

LEMMA DoneAgrees == TypeOK /\ AdjustInv => SignaturesAgree
<1> SUFFICES ASSUME TypeOK, AdjustInv, status = "done",
                    \A k \in Func : IsAdjustable(source[k])
             PROVE  /\ Agrees(module)
                    /\ \A k \in Func : \A i \in DOMAIN module[k].results :
                         module[k].results[i] \notin {"none", "pair"}
  BY DEF SignaturesAgree
<1> DEFINE bounds == TypeBounds(source)
<1>1. source \in Modules /\ source \in [Func -> FuncIR] /\ typeBoundMap = bounds
  BY DEF AdjustInv, TypeOK
<1>2. \A k \in Func : module[k] = Converted(bounds, source[k]) /\ CanConvertFunc(source[k])
  BY <1>1, ModulesAssumption DEF AdjustInv, Func
<1>3. Agrees(source) /\ \A k \in Func : Len(source[k].results) <= 1
  BY <1>1, ModulesAssumption
<1> HIDE DEF bounds
<1>4. ASSUME NEW k \in Func
      PROVE  /\ module[k].results = Flattened(source[k].results)
             /\ \A i \in DOMAIN module[k].results : module[k].results[i] \notin {"none", "pair"}
  <2>1. source[k] \in FuncIR /\ Len(source[k].results) <= 1 /\ IsAdjustable(source[k])
    BY <1>1, <1>3, <1>4
  <2>2. module[k].results = ConvertedFunc(source[k]).results
    BY <1>2, <1>4, <2>1, ConvertedFields
  <2> QED
    BY <2>1, <2>2, ResultsAreFlattened
<1>5. ASSUME NEW k \in Func
      PROVE  module[k].returned = module[k].results
  <2>1. module[k].returned = Flattened(source[k].returned)
    BY <1>1, <1>2, ConvertedFields
  <2>2. source[k].returned = source[k].results
    BY <1>3 DEF Agrees
  <2> QED
    BY <1>4, <2>1, <2>2
<1>6. ASSUME NEW k \in Func, NEW c \in DOMAIN module[k].calls, module[k].calls[c].callee # 0
      PROVE  /\ module[k].calls[c].operands = SignatureTypes(module[module[k].calls[c].callee])
             /\ module[k].calls[c].results = module[module[k].calls[c].callee].results
  <2> DEFINE call == source[k].calls[c]
             new == module[k].calls[c]
  <2>1. c \in DOMAIN source[k].calls /\ new = ConvertedCall(bounds, call)
    BY <1>1, <1>2, <1>6, ConvertedFields
  <2>2. source[k].calls \in Seq(CallIR)
    BY <1>1 DEF FuncIR
  <2>3. call \in CallIR
    BY <2>1, <2>2
  <2>4. /\ new.callee = call.callee
        /\ new.results = Flattened(call.results)
    <3> DEFINE operands == [i \in DOMAIN call.operands |->
                              IF BoundOf(bounds, call.callee, i) = "vtensor"
                              THEN "bounded" ELSE call.operands[i]]
    <3>1. new = [call EXCEPT !.operands = operands, !.results = Flattened(call.results)]
      BY <2>1 DEF ConvertedCall
    <3> HIDE DEF operands, new, call
    <3> QED
      BY <2>3, <3>1 DEF CallIR
  <2>5. call.callee \in Func
    BY <1>6, <2>3, <2>4 DEF CallIR
  <2>6. /\ call.operands = SignatureTypes(source[call.callee])
        /\ call.results = source[call.callee].results
    BY <1>3, <2>1, <2>5, ModulesAssumption DEF Agrees, Func
  <2>7. \A i \in DOMAIN call.operands : call.operands[i] \in {"tensor", "vtensor"}
    BY <1>1, <2>1, ModulesAssumption
  <2>8. new.operands = SignatureTypes(ConvertedFunc(source[call.callee]))
    BY <1>1, <1>2, <2>1, <2>3, <2>5, <2>6, <2>7, OperandsFollowSignature DEF bounds
  <2>9. SignatureTypes(ConvertedFunc(source[call.callee])) = SignatureTypes(module[call.callee])
    BY <1>1, <1>2, <2>5, ConvertedFields DEF SignatureTypes
  <2> QED
    BY <1>4, <2>4, <2>5, <2>6, <2>8, <2>9
<1> QED
  BY <1>4, <1>5, <1>6 DEF Agrees

\* For modules of any size, whatever calls whatever in whichever order: when the
\* pass is done, the signatures, calls and returns of the module agree, and no
\* None and no tuple is returned.
THEOREM Agreement == Spec => []SignaturesAgree
<1>1. Init => TypeOK /\ AdjustInv
  BY InitTypeOK, InitAdjustInv
<1>2. TypeOK /\ AdjustInv /\ [Next]_vars => TypeOK' /\ AdjustInv'
  BY NextTypeOK, NextAdjustInv
<1> QED
  BY <1>1, <1>2, DoneAgrees, PTL DEF Spec
=============================================================================
