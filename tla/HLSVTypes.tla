----------------------------- MODULE HLSVTypes -----------------------------
(***************************************************************************)
(* The HLSV type system: the codes of HLSVType::PrimType, the queries the  *)
(* compiler derives from their numeric order, and the sizes TypeHelper     *)
(* computes.  Results keep the width of the C++ type they are returned in. *)
(***************************************************************************)
EXTENDS Integers, Sequences, SequencesExt

uint8  == 0 .. 255
uint16 == 0 .. 65535
Uint8(n)  == n % 256
Uint16(n) == n % 65536

Void  == 0
Bool  == 1
SInt  == 5
UInt  == 9
Float == 13
Mat2  == 150
Mat3  == 151
Mat4  == 152
Tex1D == 200
Tex2DArray == 205
Image1D == 206
Image2DArray == 210
SubpassInput == 211
Error == 255

ScalarOrVector == Bool .. 16
Matrices       == Mat2 .. Mat4
Handles        == Tex1D .. SubpassInput
ValueTypes     == ScalarOrVector \cup Matrices
PrimTypes      == {Void, Error} \cup ValueTypes \cup Handles

IsScalarType(t)  == t \in ScalarOrVector /\ t % 4 = 1
IsVectorType(t)  == t \in ScalarOrVector /\ t % 4 # 1
IsMatrixType(t)  == t \in Matrices
IsValueType(t)   == t \in ValueTypes
IsHandleType(t)  == t \in Handles
IsTextureType(t) == t \in Tex1D .. Tex2DArray
IsImageType(t)   == t \in Image1D .. Image2DArray

\* (t - 1) % 4 + 1 for the types below Mat2; C's remainder makes it 0 for Void.
GetComponentCount(t) ==
  CASE IsHandleType(t) -> 1
    [] IsMatrixType(t) -> (t - Mat2 + 2) * (t - Mat2 + 2)
    [] t = Void        -> 0
    [] OTHER           -> ((t - 1) % 4) + 1

GetComponentType(t) ==
  CASE t \in {Void, Error} \cup Handles -> t
    [] IsMatrixType(t)                  -> Float
    [] OTHER                            -> ((t - 1) \div 4) * 4 + 1

IsIntegerType(t) == IsValueType(t) /\ GetComponentType(t) \notin {Float, Bool}

(***************************************************************************)
(* HLSVType.  extra is the union of the subpass index and image format.    *)
(***************************************************************************)
PlainType(t)    == [type |-> t, is_array |-> FALSE, count |-> 1, extra |-> 0]
ArrayType(t, n) == [type |-> t, is_array |-> TRUE, count |-> n, extra |-> 0]

HLSVType == [type : PrimTypes, is_array : BOOLEAN, count : uint8, extra : uint8]

GetPrimitiveSlotCount(t) == IF t \in Handles \cup ScalarOrVector THEN 1
                            ELSE CASE t = Mat2 -> 2
                                   [] t = Mat3 -> 3
                                   [] OTHER    -> 4

\* The number of binding slots a variable of type vt really occupies.
TrueSlots(vt) == GetPrimitiveSlotCount(vt.type) * vt.count

\* What the compiler takes it to be: the product is returned as a uint8.
GetTypeSlotSize(vt) == Uint8(TrueSlots(vt))

GetValueTypeSize(t) == IF IsValueType(t) THEN Uint8(4 * GetComponentCount(t)) ELSE 0

ScalarAlign == 4
ScalarLayoutSize(vt) ==
  Uint16(GetValueTypeSize(vt.type) * (IF vt.is_array THEN vt.count ELSE 1))

CanPromoteTo(src, dst) ==
  \/ src = dst
  \/ /\ {src, dst} \cap ({Void} \cup Handles \cup Matrices) = {}
     /\ GetComponentCount(src) = GetComponentCount(dst)
     /\ Bool \notin {GetComponentType(src), GetComponentType(dst)}
     /\ GetComponentType(src) <= GetComponentType(dst)

(***************************************************************************)
(* FunctionRegistry::CheckConstructor: which argument types build a value  *)
(* of type t (initialiser lists of vectors and matrices, casts).           *)
(***************************************************************************)
TotalComponents(args) ==
  FoldLeft(LAMBDA acc, a : acc + GetComponentCount(a.type), 0, args)

\* "Mixture of types": promotable scalars and vectors with the exact total.
MixtureOK(t, args) ==
  /\ \A i \in DOMAIN args :
       /\ ~ IsMatrixType(args[i].type)
       /\ CanPromoteTo(GetComponentType(args[i].type), GetComponentType(t))
  /\ TotalComponents(args) = GetComponentCount(t)

PromotableScalar(a, t) ==
  IsScalarType(a.type) /\ CanPromoteTo(a.type, GetComponentType(t))

CheckConstructor(t, args) ==
  /\ IsValueType(t)
  /\ \A i \in DOMAIN args : ~ args[i].is_array /\ IsValueType(args[i].type)
  /\ \/ /\ IsScalarType(t)
        /\ Len(args) = 1
        /\ IsScalarType(args[1].type)
     \/ /\ IsVectorType(t)
        /\ CASE Len(args) = 1 -> \/ PromotableScalar(args[1], t)
                                 \/ /\ IsVectorType(args[1].type)
                                    /\ CanPromoteTo(args[1].type, t)
             [] Len(args) = GetComponentCount(t) ->
                  \A i \in DOMAIN args : PromotableScalar(args[i], t)
             [] OTHER -> MixtureOK(t, args)
     \/ /\ IsMatrixType(t)
        /\ IF Len(args) = 1
           THEN IsMatrixType(args[1].type) \/ PromotableScalar(args[1], t)
           ELSE MixtureOK(t, args)
=============================================================================
