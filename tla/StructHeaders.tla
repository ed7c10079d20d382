--------------------------- MODULE StructHeaders ---------------------------
(***************************************************************************)
(* The struct declarations of the headers under types/, and the layouts    *)
(* that the instances in the Structs.hs files there have.  Types are those *)
(* of the 64-bit ABI; in Haskell they are CInt, CLong, Ptr and so on, as   *)
(* large as in C.  (Only cudaStream_t is not: an empty placeholder in the  *)
(* header, a Ptr in Torch.Types.THC.Internal.)                             *)
(***************************************************************************)
EXTENDS Naturals, TLC

Scalar(n) == [size |-> n, align |-> n, array |-> FALSE, hs |-> n]

char    == Scalar(1)
int     == Scalar(4)
long    == Scalar(8)
double  == Scalar(8)
pointer == Scalar(8)

cudaStream_t == [size |-> 0, align |-> 1, array |-> FALSE, hs |-> 8]

Array(n, type) == [type EXCEPT !.size = n * type.size, !.array = TRUE]

Struct(name, members) == [name |-> name, members |-> members]

-----------------------------------------------------------------------------
\* th_structs.h
THDescBuff ==
  Struct("THDescBuff",
         <<Array(64, char)>>)

THAllocator ==
  Struct("THAllocator",
         <<pointer, pointer, pointer>>)

THGenerator ==
  Struct("THGenerator",
         <<long, int, int, long, Array(624, long), double, double, double, int>>)

\* Per element type, a storage and a tensor with members of the same sizes.
\* Seeded fault: the storages get the member device that those of THC have.
THStorageMembersDevice ==
  <<pointer, long, int, char, pointer, pointer, pointer, int>>

THStorageMembers ==
  <<pointer, long, int, char, pointer, pointer, pointer>>
THTensorMembers ==
  <<pointer, pointer, int, pointer, long, int, char>>

THFloatStorage == Struct("THFloatStorage", THStorageMembers)
THFloatTensor == Struct("THFloatTensor", THTensorMembers)
THDoubleStorage == Struct("THDoubleStorage", THStorageMembers)
THDoubleTensor == Struct("THDoubleTensor", THTensorMembers)
THIntStorage == Struct("THIntStorage", THStorageMembers)
THIntTensor == Struct("THIntTensor", THTensorMembers)
THCharStorage == Struct("THCharStorage", THStorageMembers)
THCharTensor == Struct("THCharTensor", THTensorMembers)
THByteStorage == Struct("THByteStorage", THStorageMembers)
THByteTensor == Struct("THByteTensor", THTensorMembers)
THLongStorage == Struct("THLongStorage", THStorageMembers)
THLongTensor == Struct("THLongTensor", THTensorMembers)
THShortStorage == Struct("THShortStorage", THStorageMembers)
THShortTensor == Struct("THShortTensor", THTensorMembers)

th_structs ==
  <<THDescBuff, THAllocator, THGenerator, THFloatStorage, THFloatTensor, THDoubleStorage,
    THDoubleTensor, THIntStorage, THIntTensor, THCharStorage, THCharTensor, THByteStorage,
    THByteTensor, THLongStorage, THLongTensor, THShortStorage, THShortTensor>>

-----------------------------------------------------------------------------
\* thc_structs.h
THCStream ==
  Struct("THCStream",
         <<cudaStream_t, int, int>>)

Generator ==
  Struct("_Generator",
         <<pointer, pointer, int, long>>)

THCRNGState ==
  Struct("THCRNGState",
         <<pointer, int>>)

THCDescBuff ==
  Struct("THCDescBuff",
         <<Array(64, char)>>)

THCDeviceAllocator ==
  Struct("_THCDeviceAllocator",
         <<pointer, pointer, pointer, pointer, pointer, pointer>>)

THCCudaResourcesPerDevice ==
  Struct("_THCCudaResourcesPerDevice",
         <<pointer, int, int, pointer, pointer, long, pointer>>)

THCState ==
  Struct("THCState",
         <<pointer, pointer, pointer, int, int, int, int, pointer, pointer, pointer,
           pointer, int, pointer, pointer, long, long>>)

THCStorageMembers ==
  <<pointer, long, int, char, pointer, pointer, pointer, int>>
THCTensorMembers ==
  <<pointer, pointer, int, pointer, long, int, char>>

THCByteStorage == Struct("THCByteStorage", THCStorageMembers)
THCCharStorage == Struct("THCCharStorage", THCStorageMembers)
THCDoubleStorage == Struct("THCDoubleStorage", THCStorageMembers)
THCFloatStorage == Struct("THCFloatStorage", THCStorageMembers)
THCIntStorage == Struct("THCIntStorage", THCStorageMembers)
THCShortStorage == Struct("THCShortStorage", THCStorageMembers)
THCLongStorage == Struct("THCLongStorage", THCStorageMembers)
THCudaByteTensor == Struct("THCudaByteTensor", THCTensorMembers)
THCudaCharTensor == Struct("THCudaCharTensor", THCTensorMembers)
THCudaDoubleTensor == Struct("THCudaDoubleTensor", THCTensorMembers)
THCudaFloatTensor == Struct("THCudaFloatTensor", THCTensorMembers)
THCudaIntTensor == Struct("THCudaIntTensor", THCTensorMembers)
THCudaShortTensor == Struct("THCudaShortTensor", THCTensorMembers)
THCudaLongTensor == Struct("THCudaLongTensor", THCTensorMembers)

thc_structs ==
  <<THCStream, Generator, THCRNGState, THCDescBuff, THCDeviceAllocator,
    THCCudaResourcesPerDevice, THCState, THCByteStorage, THCCharStorage, THCDoubleStorage,
    THCFloatStorage, THCIntStorage, THCShortStorage, THCLongStorage, THCudaByteTensor,
    THCudaCharTensor, THCudaDoubleTensor, THCudaFloatTensor, THCudaIntTensor,
    THCudaShortTensor, THCudaLongTensor>>

-----------------------------------------------------------------------------
\* thc_curand_types.h and thc_cuda_runtime_types.h
mtgp32_params_fast ==
  Struct("mtgp32_params_fast",
         <<int, int, int, int, Array(16, int), Array(16, int), Array(16, int), int,
           Array(21, char)>>)

mtgp32_kernel_params ==
  Struct("mtgp32_kernel_params",
         <<Array(200, int), Array(3200, int), Array(3200, int), Array(3200, int),
           Array(200, int), Array(200, int), Array(1, int)>>)

curandStateMtgp32 ==
  Struct("curandStateMtgp32",
         <<Array(1024, int), int, int, pointer, int>>)

cudaDeviceProp ==
  Struct("cudaDeviceProp",
         <<Array(256, char), long, long, int, int, long, int, Array(3, int), Array(3, int),
           int, long, int, int, long, long, int, int, int, int, int, int, int, int, int,
           Array(2, int), Array(2, int), Array(3, int), Array(2, int), Array(3, int),
           Array(3, int), int, Array(2, int), Array(3, int), Array(2, int), int, Array(2, int),
           Array(3, int), Array(2, int), Array(3, int), int, Array(2, int), long, int, int,
           int, int, int, int, int, int, int, int, int, int, int, int, int, long, int,
           int, int, int, int, int, int, int, int, int, int>>)

thc_curand_types == <<mtgp32_params_fast, mtgp32_kernel_params, curandStateMtgp32>>

thc_cuda_runtime_types == <<cudaDeviceProp>>

-----------------------------------------------------------------------------
(***************************************************************************)
(* The instances in Structs.hs: offsets, sizeOf and alignment.             *)
(***************************************************************************)
Layout(offsets, sizeOf, alignment) ==
  [offsets |-> offsets, sizeOf |-> sizeOf, alignment |-> alignment]

Instance_THDescBuff ==
  Layout(<<0>>, 64, 1)
Instance_THAllocator ==
  Layout(<<0, 8, 16>>, 24, 8)
Instance_THGenerator ==
  Layout(<<0, 8, 12, 16, 24, 5016, 5024, 5032, 5040>>, 5048, 8)
Instance_THStorages ==
  Layout(<<0, 8, 16, 20, 24, 32, 40>>, 48, 8)
Instance_THTensors ==
  Layout(<<0, 8, 16, 24, 32, 40, 44>>, 48, 8)
Instance_THCStream ==
  Layout(<<0, 0, 4>>, 8, 4)
Instance_Generator ==
  Layout(<<0, 8, 16, 24>>, 32, 8)
Instance_THCRNGState ==
  Layout(<<0, 8>>, 16, 8)
Instance_THCDescBuff ==
  Layout(<<0>>, 64, 1)
Instance_THCDeviceAllocator ==
  Layout(<<0, 8, 16, 24, 32, 40>>, 48, 8)
Instance_THCCudaResourcesPerDevice ==
  Layout(<<0, 8, 12, 16, 24, 32, 40>>, 48, 8)
Instance_THCState ==
  Layout(<<0, 8, 16, 24, 28, 32, 36, 40, 48, 56, 64, 72, 80, 88, 96, 104>>, 112, 8)
Instance_THCStorages ==
  Layout(<<0, 8, 16, 20, 24, 32, 40, 48>>, 56, 8)
Instance_THCTensors ==
  Layout(<<0, 8, 16, 24, 32, 40, 44>>, 48, 8)
Instance_mtgp32_params_fast ==
  Layout(<<0, 4, 8, 12, 16, 80, 144, 208, 212>>, 236, 4)
Instance_mtgp32_kernel_params ==
  Layout(<<0, 800, 13600, 26400, 39200, 40000, 40800>>, 40804, 4)
Instance_curandStateMtgp32 ==
  Layout(<<0, 4096, 4100, 4104, 4112>>, 4120, 8)
Instance_cudaDeviceProp ==
  Layout(<<0, 256, 264, 272, 276, 280, 288, 292, 304, 316, 320, 328, 332, 336, 344, 352,
           356, 360, 364, 368, 372, 376, 380, 384, 388, 396, 404, 416, 424, 436, 448, 452,
           460, 472, 480, 484, 492, 504, 512, 524, 528, 536, 544, 548, 552, 556, 560, 564,
           568, 572, 576, 580, 584, 588, 592, 596, 600, 608, 616, 620, 624, 628, 632, 636,
           640, 644, 648, 652, 656>>, 664, 8)

\* Every instance, by the name of its struct.
Structs ==
  LET For(names, is) == [name \in names |-> is]
  IN  For({"THDescBuff"}, Instance_THDescBuff)
        @@ For({"THAllocator"}, Instance_THAllocator)
        @@ For({"THGenerator"}, Instance_THGenerator)
        @@ For({"THFloatStorage", "THDoubleStorage", "THIntStorage", "THCharStorage",
             "THByteStorage", "THLongStorage", "THShortStorage"}, Instance_THStorages)
        @@ For({"THFloatTensor", "THDoubleTensor", "THIntTensor", "THCharTensor",
             "THByteTensor", "THLongTensor", "THShortTensor"}, Instance_THTensors)
        @@ For({"THCStream"}, Instance_THCStream)
        @@ For({"_Generator"}, Instance_Generator)
        @@ For({"THCRNGState"}, Instance_THCRNGState)
        @@ For({"THCDescBuff"}, Instance_THCDescBuff)
        @@ For({"_THCDeviceAllocator"}, Instance_THCDeviceAllocator)
        @@ For({"_THCCudaResourcesPerDevice"}, Instance_THCCudaResourcesPerDevice)
        @@ For({"THCState"}, Instance_THCState)
        @@ For({"THCByteStorage", "THCCharStorage", "THCDoubleStorage", "THCFloatStorage",
             "THCIntStorage", "THCShortStorage", "THCLongStorage"}, Instance_THCStorages)
        @@ For({"THCudaByteTensor", "THCudaCharTensor", "THCudaDoubleTensor",
             "THCudaFloatTensor", "THCudaIntTensor", "THCudaShortTensor",
             "THCudaLongTensor"}, Instance_THCTensors)
        @@ For({"mtgp32_params_fast"}, Instance_mtgp32_params_fast)
        @@ For({"mtgp32_kernel_params"}, Instance_mtgp32_kernel_params)
        @@ For({"curandStateMtgp32"}, Instance_curandStateMtgp32)
        @@ For({"cudaDeviceProp"}, Instance_cudaDeviceProp)
=============================================================================
