-------------------------- MODULE FunctionRegistry --------------------------
(***************************************************************************)
(* The built-in functions and FunctionRegistry::CheckFunction, which picks *)
(* the overload of a call: the first entry whose parameters match.         *)
(***************************************************************************)
EXTENDS Operators

(* FunctionParam: a scalar or image type is generic unless told otherwise. *)
Param(vt, generic, exact) ==
  [type |-> vt, gen_type |-> generic /\ (IsScalarType(vt.type) \/ IsImageType(vt.type)),
   exact |-> exact]
Gen(t)   == Param(PlainType(t), TRUE, FALSE)
Just(t)  == Param(PlainType(t), FALSE, FALSE)
Exact(t) == Param(PlainType(t), FALSE, TRUE)

\* FunctionEntry: the result is of type `returns`, or follows from argument
\* gen_idx.
\* (The code counts arguments from 0 and has UINT32_MAX for "no such one".)
NoIdx == 0
Entry(gen_idx, params, returns) ==
  [gen_idx |-> gen_idx, params |-> params, returns |-> returns]
Like(gen_idx, params) == Entry(gen_idx, params, Error)
Fixed(returns, params) == Entry(NoIdx, params, returns)

Texture(dims) == CASE dims = "1D" -> 200 [] dims = "2D" -> 201 [] dims = "3D" -> 202
                   [] dims = "Cube" -> 203 [] dims = "1DArray" -> 204 [] dims = "2DArray" -> 205
Image(dims)   == CASE dims = "1D" -> 206 [] dims = "2D" -> 207 [] dims = "3D" -> 208
                   [] dims = "1DArray" -> 209 [] dims = "2DArray" -> 210
TextureDims == <<"1D", "2D", "3D", "Cube", "1DArray", "2DArray">>
ImageDims   == <<"1D", "2D", "3D", "1DArray", "2DArray">>
FetchDims   == <<"1D", "2D", "3D", "1DArray", "2DArray">>

\* Components of a coordinate, and of the size, of a texture or image.
CoordinateSize(dims) == CASE dims = "1D" -> 1 [] dims \in {"2D", "1DArray"} -> 2 [] OTHER -> 3
ExtentSize(dims)     == CASE dims = "1D" -> 1 [] dims \in {"3D", "2DArray"} -> 3 [] OTHER -> 2
Coordinate(ct, dims) == Just(MakeVectorType(ct, CoordinateSize(dims)))

Each(s, Op(_)) == [i \in DOMAIN s |-> Op(s[i])]
-----------------------------------------------------------------------------
(* FunctionRegistry::Populate *)
UnaryFloat == {"d2r", "r2d", "sin", "cos", "tan", "asin", "acos", "atan", "sinh", "cosh", "tanh",
               "asinh", "acosh", "atanh", "exp", "log", "exp2", "log2", "sqrt", "isqrt",
               "floor", "trunc", "round", "roundEven", "ceil", "fract", "norm"}
BinaryFloat == {"atan2", "pow", "reflect"}
SignFunctions == {"abs", "sign"}
MinMax == {"min", "max"}
Ordered(ct)      == <<Like(1, <<Gen(ct), Just(ct)>>), Like(1, <<Gen(ct), Gen(ct)>>)>>
ClampEntries(ct) == <<Like(1, <<Gen(ct), Gen(ct), Gen(ct)>>), Like(1, <<Gen(ct), Just(ct), Just(ct)>>)>>
\* Faulty variant for the mutation runs: the float overloads come first.
MinMaxFloatFirst == Ordered(Float) \o Ordered(UInt) \o Ordered(SInt)
MinMaxEntries == Ordered(SInt) \o Ordered(UInt) \o Ordered(Float)

CommonEntries(name) ==
  CASE name \in SignFunctions -> <<Like(1, <<Gen(SInt)>>), Like(1, <<Gen(Float)>>)>>
    [] name = "mod"    -> Ordered(Float)
    [] name \in MinMax -> MinMaxEntries
    [] name = "clamp"  -> ClampEntries(SInt) \o ClampEntries(UInt) \o ClampEntries(Float)
    [] name = "mix"    -> <<Like(1, <<Gen(Float), Gen(Float), Gen(Float)>>),
                            Like(1, <<Gen(Float), Gen(Float), Just(Float)>>)>>
    [] name = "select" -> Each(<<SInt, UInt, Float, Bool>>,
                               LAMBDA ct : Like(1, <<Gen(ct), Gen(ct), Gen(Bool)>>))
    [] name = "step"   -> <<Like(1, <<Gen(Float), Gen(Float)>>), Like(2, <<Just(Float), Gen(Float)>>)>>
    [] name = "sstep"  -> <<Like(1, <<Gen(Float), Gen(Float), Gen(Float)>>),
                            Like(3, <<Just(Float), Just(Float), Gen(Float)>>)>>
    [] name \in {"isnan", "isinf"} ->
         [n \in 1 .. 4 |-> Fixed(MakeVectorType(Bool, n), <<Exact(MakeVectorType(Float, n))>>)]
    [] name = "ldexp"  -> <<Like(1, <<Gen(Float), Param(PlainType(SInt), TRUE, TRUE)>>)>>

CommonFunctions == SignFunctions \cup MinMax \cup
  {"mod", "clamp", "mix", "select", "step", "sstep", "isnan", "isinf", "ldexp"}

GeometricEntries(name) ==
  CASE name = "len"              -> <<Fixed(Float, <<Gen(Float)>>)>>
    [] name \in {"dist", "dot"}  -> <<Fixed(Float, <<Gen(Float), Gen(Float)>>)>>
    [] name = "cross"            -> <<Fixed(15, <<Gen(15), Gen(15)>>)>>
    [] name = "forward"          -> <<Like(1, <<Gen(Float), Gen(Float), Gen(Float)>>)>>
    [] name = "refract"          -> <<Like(1, <<Gen(Float), Gen(Float), Just(Float)>>)>>
GeometricFunctions == {"len", "dist", "dot", "cross", "forward", "refract"}

MatrixEntries(name) ==
  Each(<<2, 3, 4>>, LAMBDA n :
    LET mat == Mat2 + n - 2
        vec == MakeVectorType(Float, n)
    IN CASE name = "matCompMul"         -> Fixed(mat, <<Gen(mat), Gen(mat)>>)
         [] name = "outerProd"          -> Fixed(mat, <<Gen(vec), Gen(vec)>>)
         [] name \in {"trans", "inv"}   -> Fixed(mat, <<Gen(mat)>>)
         [] name = "det"                -> Fixed(Float, <<Gen(mat)>>))
MatrixFunctions == {"matCompMul", "outerProd", "trans", "inv", "det"}

Orderings  == {"vecLT", "vecLE", "vecGT", "vecGE"}
Equalities == {"vecEQ", "vecNE"}
RelationalEntries(name) ==
  CASE name \in Orderings \cup Equalities ->
         Each(IF name \in Orderings THEN <<SInt, UInt, Float>> ELSE <<SInt, UInt, Float, Bool>>,
              LAMBDA ct : Entry(1, <<Gen(ct), Gen(ct)>>, Bool))
    [] name \in {"vecAny", "vecAll"} -> <<Fixed(Bool, <<Gen(Bool)>>)>>
    [] name = "vecNot"               -> <<Like(1, <<Gen(Bool)>>)>>
RelationalFunctions == Orderings \cup Equalities \cup {"vecAny", "vecAll", "vecNot"}

Sampled(dims, more) == Fixed(16, <<Gen(Texture(dims)), Coordinate(Float, dims)>> \o more)
Texels == <<SInt, SInt + 1, SInt + 3, UInt, UInt + 1, UInt + 3, Float, Float + 1, Float + 3>>
StoreEntries(dims) ==
  Each(Texels, LAMBDA t : Fixed(Void, <<Param([PlainType(Image(dims)) EXCEPT !.extra = t], TRUE, FALSE),
                                        Coordinate(SInt, dims), Just(t)>>))
TextureEntries(name) ==
  CASE name = "sizeof" ->
         Each(TextureDims, LAMBDA d : Fixed(MakeVectorType(SInt, ExtentSize(d)),
                                            <<Gen(Texture(d)), Just(SInt)>>)) \o
         Each(ImageDims, LAMBDA d : Fixed(MakeVectorType(SInt, ExtentSize(d)), <<Gen(Image(d))>>))
    [] name = "levelsof" -> Each(TextureDims, LAMBDA d : Fixed(SInt, <<Gen(Texture(d))>>))
    [] name = "load" ->
         Each(TextureDims, LAMBDA d : Sampled(d, <<>>)) \o
         Each(TextureDims, LAMBDA d : Sampled(d, <<Just(Float)>>)) \o
         Each(ImageDims, LAMBDA d : Like(1, <<Gen(Image(d)), Coordinate(SInt, d)>>)) \o
         <<Fixed(16, <<Gen(SubpassInput)>>)>>
    [] name = "loadLod" -> Each(TextureDims, LAMBDA d : Sampled(d, <<Just(Float)>>))
    [] name = "fetch" ->
         Each(FetchDims, LAMBDA d : Fixed(16, <<Gen(Texture(d)), Coordinate(SInt, d), Just(SInt)>>))
    [] name = "store" ->
         StoreEntries("1D") \o StoreEntries("2D") \o StoreEntries("3D") \o
         StoreEntries("1DArray") \o StoreEntries("2DArray")
TextureFunctions == {"sizeof", "levelsof", "load", "loadLod", "fetch", "store"}

FunctionNames == UnaryFloat \cup BinaryFloat \cup CommonFunctions \cup GeometricFunctions
             \cup MatrixFunctions \cup RelationalFunctions \cup TextureFunctions

\* FunctionRegistry::Functions_
Functions == [name \in FunctionNames |->
  CASE name \in UnaryFloat          -> <<Like(1, <<Gen(Float)>>)>>
    [] name \in BinaryFloat         -> <<Like(1, <<Gen(Float), Gen(Float)>>)>>
    [] name \in CommonFunctions     -> CommonEntries(name)
    [] name \in GeometricFunctions  -> GeometricEntries(name)
    [] name \in MatrixFunctions     -> MatrixEntries(name)
    [] name \in RelationalFunctions -> RelationalEntries(name)
    [] OTHER                        -> TextureEntries(name)]
-----------------------------------------------------------------------------
(* FunctionParam::matches *)
GenericMatches(p, typ) ==
  LET scalar == IsScalarType(p.type.type) IN
  CASE p.exact /\ scalar     -> GetComponentType(typ.type) = p.type.type
    [] p.exact /\ ~ scalar   -> typ = p.type
    [] ~ p.exact /\ scalar   ->
         CanPromoteTo(typ.type, MakeVectorType(p.type.type, GetComponentCount(typ.type)))
    [] ~ p.exact /\ ~ scalar -> typ.type = p.type.type

ParamMatches(p, typ) ==
  /\ p.type.is_array = typ.is_array /\ p.type.count = typ.count
  /\ p.type.is_array => p.type.type = typ.type
  /\ IF p.gen_type THEN GenericMatches(p, typ)
     ELSE IF p.exact \/ IsImageType(p.type.type) THEN typ = p.type
     ELSE CanPromoteTo(typ.type, p.type.type)

\* FunctionEntry::matches: generic arguments have one component count.  The
\* loop takes the first count that is not 0 for it (void counts 0).
GenericsAgree(entry, args) ==
  LET generic == {i \in DOMAIN args : entry.params[i].gen_type}
      count(i) == GetComponentCount(args[i].type)
  IN \A i, j \in generic : i < j => count(i) \in {0, count(j)}

EntryMatches(entry, args) ==
  /\ Len(args) = Len(entry.params)
  /\ \A i \in DOMAIN args : ParamMatches(entry.params[i], args[i])
  /\ GenericsAgree(entry, args)

\* FunctionParam::as_return_type
AsReturnType(p, rtype, atype) ==
  IF IsScalarType(p.type.type)
  THEN MakeVectorType(GetComponentType(IF rtype = Error THEN p.type.type ELSE rtype),
                      GetComponentCount(atype.type))
  ELSE atype.extra

\* Only the type code of the argument is handed on, and what is made of it has
\* no extra: the texel format of an image is lost on the way.
ReturnType(entry, args) ==
  PlainType(IF entry.gen_idx = NoIdx THEN entry.returns
            ELSE AsReturnType(entry.params[entry.gen_idx], entry.returns,
                              PlainType(args[entry.gen_idx].type)))

\* FunctionRegistry::CheckFunction: the entry chosen, and whether there is one.
Matching(name, args) == {k \in DOMAIN Functions[name] : EntryMatches(Functions[name][k], args)}
CheckFunction(name, args) == name \in FunctionNames /\ Matching(name, args) # {}
Chosen(name, args) ==
  Functions[name][CHOOSE k \in Matching(name, args) : \A j \in Matching(name, args) : k <= j]
=============================================================================
