----------------------------- MODULE MatrixEngines -----------------------------
(***************************************************************************)
(* The matrix algorithms of mini-ai-accelerator (sparse_accel.c, mma.c,    *)
(* tensor_core.c) and of mini-gpu-arch (tensor_core.c): sparse formats,    *)
(* pruning, tiled products, convolutions.                                  *)
(*                                                                         *)
(* A matrix is a function of its row to a function of its column, both     *)
(* from 0; its entries are integers, so rounding is left out, except the   *)
(* clamp of the integer precisions.  Sums do not depend on their order.    *)
(***************************************************************************)
EXTENDS Integers, Sequences, FiniteSets, FiniteSetsExt, SequencesExt

CONSTANTS
    MAX_SPARSE_ENTRIES,  \* 65536
    BCSR_BLOCK_SIZE,     \* 4
    ELL_WIDTH,           \* max_nnz_per_row
    SparseMatrices,      \* matrices of one shape that the sparse formats convert
    Vectors,             \* vectors these multiply
    Weights,             \* groups of four weights to prune, functions of 0 .. 3
    Fills,               \* functions of row and column: what the matrices are filled with
    Shapes,              \* M, N, K of the products
    Tile,                \* the edge of a tile, 8 and 16
    TileRange,           \* tile edges mma_optimal_tile_size tries, 8, 16 .. 256
    IntMax               \* INT4: 7, and down to -8

VARIABLES
    csr,   \* rows, row_ptr, col_idx, values of a SparseMatrix, and held, history: the matrix it answers for
    ell,   \* col_idx and values of an ELLMatrix, and dense, history: the matrix last
           \* converted, and used, history: the slots of each row ever filled
    job    \* the last computation: op, its inputs and its result

matrix_vars == <<csr, ell, job>>
--------------------------------------------------------------------------------
Rows(A) == Cardinality(DOMAIN A)
Cols(A) == Cardinality(DOMAIN A[0])
Magnitude(v) == IF v < 0 THEN -v ELSE v

Filled(f, m, n) == [i \in 0 .. m - 1 |-> [j \in 0 .. n - 1 |-> f[i, j]]]

(* References. *)
Times(A, x) == [i \in DOMAIN A |-> MapThenSumSet(LAMBDA j : A[i][j] * x[j], DOMAIN x)]

Product(A, B, C) ==
    [i \in DOMAIN C |-> [j \in DOMAIN C[0] |->
        C[i][j] + MapThenSumSet(LAMBDA k : A[i][k] * B[k][j], DOMAIN B)]]
--------------------------------------------------------------------------------
(* Compressed sparse rows. *)
NonZeroCols(A, i) == SelectSeq([n \in 1 .. Cols(A) |-> n - 1], LAMBDA j : A[i][j] # 0)

Entries(A) == MapThenSumSet(LAMBDA i : Len(NonZeroCols(A, i)), DOMAIN A)

\* Mutant of RowStart: the entries of the row itself are counted in.
RowEnd(A, i) == MapThenSumSet(LAMBDA r : Len(NonZeroCols(A, r)), {r \in DOMAIN A : r <= i})

RowStart(A, i) == MapThenSumSet(LAMBDA r : Len(NonZeroCols(A, r)), {r \in DOMAIN A : r < i})

NoCsr(A) == [rows |-> Rows(A), row_ptr |-> [i \in 0 .. Rows(A) |-> 0], col_idx |-> <<>>, values |-> <<>>]

\* Too many entries: the shape is taken over and the arrays stay as they were.
sparse_csr_from_dense(old, A) ==
    IF Entries(A) > MAX_SPARSE_ENTRIES THEN [old EXCEPT !.rows = Rows(A)]
    ELSE [rows |-> Rows(A), row_ptr |-> [i \in 0 .. Rows(A) |-> RowStart(A, i)],
          col_idx |-> FlattenSeq([r \in 1 .. Rows(A) |-> NonZeroCols(A, r - 1)]),
          values |-> FlattenSeq([r \in 1 .. Rows(A) |->
                       [n \in 1 .. Len(NonZeroCols(A, r - 1)) |-> A[r - 1][NonZeroCols(A, r - 1)[n]]]])]

sparse_spmm(m, x) ==
    [i \in 0 .. m.rows - 1 |->
        MapThenSumSet(LAMBDA n : m.values[n + 1] * x[m.col_idx[n + 1]],
                      m.row_ptr[i] .. m.row_ptr[i + 1] - 1)]

Converted(old, A, before) ==
    /\ csr' = [matrix |-> sparse_csr_from_dense(old, A),
               held |-> IF Entries(A) > MAX_SPARSE_ENTRIES THEN before ELSE A]
    /\ UNCHANGED <<ell, job>>

sparse_csr_convert(A) == Converted(csr.matrix, A, csr.held)

\* A fresh structure: a matrix that does not fit is answered as the zero matrix.
sparse_accel_load_weights(A) ==
    Converted(NoCsr(A), A, [i \in DOMAIN A |-> [j \in DOMAIN A[0] |-> 0]])

(* Compressed rows of blocks. *)
Tiles(n, t) == (n + t - 1) \div t

Block(A, bi, bj) ==
    [r \in 0 .. BCSR_BLOCK_SIZE - 1 |-> [c \in 0 .. BCSR_BLOCK_SIZE - 1 |->
        LET i == bi * BCSR_BLOCK_SIZE + r  j == bj * BCSR_BLOCK_SIZE + c
        IN  IF i < Rows(A) /\ j < Cols(A) THEN A[i][j] ELSE 0]]

NonZeroBlocks(A, bi) ==
    SelectSeq([n \in 1 .. Tiles(Cols(A), BCSR_BLOCK_SIZE) |-> n - 1],
              LAMBDA bj : \E r, c \in 0 .. BCSR_BLOCK_SIZE - 1 : Block(A, bi, bj)[r][c] # 0)

bcsr_from_dense(A) ==
    LET blocks == Tiles(Rows(A), BCSR_BLOCK_SIZE)
        cols   == [n \in 1 .. blocks |-> NonZeroBlocks(A, n - 1)]
    IN  [rows |-> Rows(A), cols |-> Cols(A), block_rows |-> blocks,
         row_ptr |-> [bi \in 0 .. blocks |-> MapThenSumSet(LAMBDA n : Len(cols[n]), 1 .. bi)],
         col_idx |-> FlattenSeq(cols),
         values |-> FlattenSeq([n \in 1 .. blocks |->
                      [k \in 1 .. Len(cols[n]) |-> Block(A, n - 1, cols[n][k])]])]

bcsr_spmm(m, x) ==
    [i \in 0 .. m.rows - 1 |->
        LET bi == i \div BCSR_BLOCK_SIZE
            BlockTimes(n) ==
                LET first == m.col_idx[n + 1] * BCSR_BLOCK_SIZE
                IN  MapThenSumSet(
                      LAMBDA c : m.values[n + 1][i % BCSR_BLOCK_SIZE][c] * x[first + c],
                      {c \in 0 .. BCSR_BLOCK_SIZE - 1 : first + c < m.cols})
        IN  MapThenSumSet(BlockTimes, m.row_ptr[bi] .. m.row_ptr[bi + 1] - 1)]

(* Rows of fixed width.  A conversion writes the entries it has and leaves the rest. *)
Slots == 0 .. ELL_WIDTH - 1

ell_from_dense(A) ==
    /\ ell' = [i \in DOMAIN A |->
                LET cols == NonZeroCols(A, i)
                IN  [col_idx |-> [k \in Slots |-> IF k < Len(cols) THEN cols[k + 1] ELSE ell[i].col_idx[k]],
                     values  |-> [k \in Slots |-> IF k < Len(cols) THEN A[i][cols[k + 1]] ELSE ell[i].values[k]],
                     dense   |-> A[i],
                     used    |-> Max({ell[i].used, Min({Len(cols), ELL_WIDTH})})]]
    /\ UNCHANGED <<csr, job>>

ell_spmv(x) ==
    [i \in DOMAIN ell |->
        LET row == ell[i]
            stop == Min({k \in Slots : row.col_idx[k] < 0} \cup {ELL_WIDTH})
        IN  MapThenSumSet(LAMBDA k : row.values[k] * x[row.col_idx[k]], 0 .. stop - 1)]

CsrNext == \E A \in SparseMatrices : sparse_csr_convert(A) \/ sparse_accel_load_weights(A)
EllNext == \E A \in SparseMatrices : ell_from_dense(A)
--------------------------------------------------------------------------------
(* Pruning a group of four weights. *)
Exchanges == <<<<0, 1>>, <<0, 2>>, <<0, 3>>, <<1, 2>>, <<1, 3>>, <<2, 3>>>>

\* The positions in the order the exchanges leave them in; the first two are kept.
sparse_2of4_prune(w) ==
    LET Exchange(order, p) ==
            IF Magnitude(w[order[p[1]]]) < Magnitude(w[order[p[2]]])
            THEN [k \in 0 .. 3 |-> CASE k = p[1] -> order[p[2]] [] k = p[2] -> order[p[1]] [] OTHER -> order[k]]
            ELSE order
        order == FoldLeft(Exchange, [k \in 0 .. 3 |-> k], Exchanges)
    IN  [k \in 0 .. 3 |-> IF k \in {order[0], order[1]} THEN w[k] ELSE 0]

Zeroes(w) == Cardinality({k \in DOMAIN w : w[k] = 0})

\* The magnitude with n smaller or equal ones before it in ascending order.
Ranked(w, n) ==
    CHOOSE v \in {Magnitude(w[k]) : k \in DOMAIN w} :
        /\ Cardinality({k \in DOMAIN w : Magnitude(w[k]) < v}) <= n
        /\ Cardinality({k \in DOMAIN w : Magnitude(w[k]) <= v}) > n

\* Sparsity aimed at after a pass, times the number of weights and of passes.
Aim(w, target, iterations, pass) == Zeroes(w) * iterations + pass * (target - Zeroes(w))

\* target counts weights; a pass keeps at least one and drops below a threshold.
sparse_iterative_prune(w, target, iterations) ==
    LET total == Cardinality(DOMAIN w)
        Pass(v, n) ==
            LET wanted == total - (Aim(w, target, iterations, n) \div iterations)
                keep   == Max({1, Min({wanted, total - 1})})
                least  == Ranked(v, total - keep)
            IN  IF n > 1 /\ Aim(w, target, iterations, n - 1) >= target * iterations THEN v
                ELSE [k \in DOMAIN w |-> IF Magnitude(v[k]) < least THEN 0 ELSE v[k]]
    IN  FoldLeft(Pass, w, [n \in 1 .. iterations |-> n])

PruneNext ==
    \E w \in Weights :
       \/ job' = [op |-> "2of4", w |-> w, result |-> sparse_2of4_prune(w)]
       \/ \E target \in 0 .. 4, iterations \in 1 .. 2 :
             job' = [op |-> "prune", w |-> w, target |-> target,
                     result |-> sparse_iterative_prune(w, target, iterations)]
--------------------------------------------------------------------------------
(* Tiled products. *)
precision_round_input(v) == Max({-IntMax - 1, Min({v, IntMax})})
Rounded(A) == [i \in DOMAIN A |-> [j \in DOMAIN A[0] |-> precision_round_input(A[i][j])]]

\* Mutant of TileProduct: the tiles of the last, partly filled column of tiles are left out.
TileProductFloor(A, B, i, j, tk) ==
    LET Part(ki) == MapThenSumSet(LAMBDA k : A[i][k] * B[k][j],
                                  {k \in DOMAIN B : k \div tk = ki})
    IN  MapThenSumSet(Part, 0 .. (Rows(B) \div tk) - 1)

\* The sum over the tiles of the reduction; what a tile lacks is zero.
TileProduct(A, B, i, j, tk) ==
    LET Part(ki) == MapThenSumSet(LAMBDA k : A[i][k] * B[k][j],
                                  {k \in DOMAIN B : k \div tk = ki})
    IN  MapThenSumSet(Part, 0 .. Tiles(Rows(B), tk) - 1)

Tiled(A, B, C, tm, tn, tk) ==
    [i \in DOMAIN C |-> [j \in DOMAIN C[0] |->
        C[i][j] + IF i \div tm < Tiles(Rows(C), tm) /\ j \div tn < Tiles(Cols(C), tn)
                  THEN TileProduct(A, B, i, j, tk) ELSE 0]]

mma_large_matmul(A, B, C) == Tiled(A, B, C, Tile, Tile, Tile)

tensor_core_large_matmul(A, B, C) == Tiled(Rounded(A), Rounded(B), C, Tile, Tile, Tile)

\* Blocks of full size but for the last, which has the remainder unless that is zero.
BlockCells(n, t) ==
    UNION {LET size == IF b = Tiles(n, t) - 1 /\ n % t > 0 THEN n % t ELSE t
           IN  b * t .. b * t + size - 1 : b \in 0 .. Tiles(n, t) - 1}

gemm_tiled_execute(A, B, C) ==
    [i \in BlockCells(Rows(C), Tile) |-> [j \in BlockCells(Cols(C), Tile) |->
        C[i][j] + MapThenSumSet(LAMBDA k : A[i][k] * B[k][j], BlockCells(Rows(B), Tile \div 2))]]

\* One tile, and one step of the reduction: what lies outside is not computed.
tc_mma_compute(A, B, C, d) ==
    [i \in DOMAIN C |-> [j \in DOMAIN C[0] |->
        IF i < Tile /\ j < Tile
        THEN C[i][j] + MapThenSumSet(LAMBDA k : A[i][k] * B[k][j], {k \in DOMAIN B : k < Tile \div 2})
        ELSE d[i][j]]]

\* A block of the result outside the mask stays zero.
block_sparse_matmul(mask, bs, A, B) ==
    [i \in DOMAIN A |-> [j \in DOMAIN B[0] |->
        IF <<i \div bs, j \div bs>> \in mask THEN TileProduct(A, B, i, j, bs) ELSE 0]]

\* B holds two rows per group of four; patterns[g] are the positions kept in a group.
tensor_core_mma_sparse(A, packed, patterns, C) ==
    LET Kept(k)  == k % 4 \in patterns[k \div 4]
        Index(k) == Cardinality({q \in 0 .. k - 1 : Kept(q)})
    IN  [i \in DOMAIN C |-> [j \in DOMAIN C[0] |->
            C[i][j] + MapThenSumSet(LAMBDA k : A[i][k] * packed[Index(k)][j],
                         {k \in DOMAIN A[0] : Kept(k) /\ Index(k) \in DOMAIN packed})]]

\* A holds two columns per group of four; selected[g] are their positions, for every row.
tc_sparse_mma(packed, selected, B, C) ==
    [i \in DOMAIN C |-> [j \in DOMAIN C[0] |->
        C[i][j] + MapThenSumSet(LAMBDA n : packed[i][n] * B[4 * (n \div 2) + selected[n \div 2][n % 2]][j],
                                DOMAIN packed[0])]]

\* Sizes of the same fewest tiles: the smallest; 8 too when none fits.
mma_optimal_tile_size(M, N, K, sram_bytes) ==
    LET fits     == {t \in TileRange : 3 * t * t * 4 <= sram_bytes}
        Count(t) == Tiles(M, t) * Tiles(N, t) * Tiles(K, t)
        best     == {t \in fits : \A u \in fits : Count(t) <= Count(u)}
    IN  IF fits = {} THEN Min(TileRange) ELSE Min(best)

Patterns == {p \in SUBSET (0 .. 3) : Cardinality(p) = 2}

ProductNext ==
    \E shape \in Shapes, f, g \in Fills :
       LET M == shape[1]  N == shape[2]  K == shape[3]
           A == Filled(f, M, K)  B == Filled(g, K, N)  C == Filled(f, M, N)
           Job(op, result) == [op |-> op, A |-> A, B |-> B, C |-> C, result |-> result]
       IN  \/ job' = Job("mma", mma_large_matmul(A, B, C))
           \/ job' = Job("tensor", tensor_core_large_matmul(A, B, C))
           \/ job' = Job("gemm", gemm_tiled_execute(A, B, C))
           \/ job' = Job("tile", tc_mma_compute(A, B, C, C))
           \/ \E mask \in SUBSET ((0 .. 1) \X (0 .. 1)) :
                 job' = Job("blocks", [mask |-> mask, cells |-> block_sparse_matmul(mask, Tile, A, B)])
           \/ /\ K % 4 = 0
              /\ \E patterns \in [0 .. (K \div 4) - 1 -> Patterns] :
                    LET packed == Filled(g, K \div 2, N)
                    IN  job' = [Job("packedB", tensor_core_mma_sparse(A, packed, patterns, C))
                                  EXCEPT !.B = [packed |-> packed, patterns |-> patterns]]
           \/ /\ K % 4 = 0
              /\ \E selected \in [0 .. (K \div 4) - 1 -> {<<0, 1>>, <<0, 3>>, <<2, 1>>}] :
                    LET packed == Filled(f, M, K \div 2)
                        places == [q \in DOMAIN selected |-> [h \in 0 .. 1 |-> selected[q][h + 1]]]
                    IN  job' = [Job("packedA", tc_sparse_mma(packed, places, B, C))
                                  EXCEPT !.A = [packed |-> packed, selected |-> places]]
           \/ \E bytes \in {100, 4 * 3 * 64, 4 * 3 * 400, 4 * 3 * 4096} :
                 job' = [op |-> "size", dims |-> <<5 * M, 7 * N, 9 * K>>, bytes |-> bytes,
                         result |-> mma_optimal_tile_size(5 * M, 7 * N, 9 * K, bytes)]
--------------------------------------------------------------------------------
(* Convolutions of a plane per channel; the output shrinks by the kernel less one. *)
OutRows(plane, kernel) == 0 .. Rows(plane) - Rows(kernel)
OutCols(plane, kernel) == 0 .. Cols(plane) - Cols(kernel)

ConvAt(plane, kernel, oh, ow) ==
    MapThenSumSet(LAMBDA p : plane[oh + p[1]][ow + p[2]] * kernel[p[1]][p[2]],
                  (DOMAIN kernel) \X (DOMAIN kernel[0]))

\* Patches unrolled into the rows of a matrix; a row runs over channel, row and column.
mma_conv2d_to_matmul(planes, kernels) ==
    LET R == Rows(kernels[0])  S == Cols(kernels[0])
        out_w == Cols(planes[0]) - S + 1
        patches == (Rows(planes[0]) - R + 1) * out_w
        width == Cardinality(DOMAIN planes) * R * S
        im2col == [p \in 0 .. patches - 1 |-> [n \in 0 .. width - 1 |->
                     planes[n \div (R * S)][(p \div out_w) + ((n \div S) % R)][(p % out_w) + (n % S)]]]
        flat   == [n \in 0 .. width - 1 |-> kernels[n \div (R * S)][(n \div S) % R][n % S]]
    IN  [oh \in OutRows(planes[0], kernels[0]) |-> [ow \in OutCols(planes[0], kernels[0]) |->
            MapThenSumSet(LAMBDA n : im2col[oh * out_w + ow][n] * flat[n], 0 .. width - 1)]]

mma_depthwise_conv2d(planes, kernels) ==
    [c \in DOMAIN planes |->
        [oh \in OutRows(planes[c], kernels[c]) |-> [ow \in OutCols(planes[c], kernels[c]) |->
            ConvAt(planes[c], kernels[c], oh, ow)]]]

(* Winograd F(2,3).  The filter transform has halves: it is taken twice over, and so
   the results are four times the convolution. *)
MatrixOf(rows) == [i \in 0 .. Len(rows) - 1 |-> [j \in 0 .. Len(rows[1]) - 1 |-> rows[i + 1][j + 1]]]
TwiceG == MatrixOf(<<<<2, 0, 0>>, <<1, 1, 1>>, <<1, -1, 1>>, <<0, 0, 2>>>>)
BT     == MatrixOf(<<<<1, 0, -1, 0>>, <<0, 1, 1, 0>>, <<0, -1, 1, 0>>, <<0, 1, 0, -1>>>>)
AT     == MatrixOf(<<<<1, 1, 1, 0>>, <<0, 1, -1, -1>>>>)

\* T x T^t
Sandwich(T, x) ==
    LET tmp == [i \in DOMAIN T |-> [j \in DOMAIN x[0] |->
                   MapThenSumSet(LAMBDA k : T[i][k] * x[k][j], DOMAIN x)]]
    IN  [i \in DOMAIN T |-> [j \in DOMAIN T |->
            MapThenSumSet(LAMBDA k : tmp[i][k] * T[j][k], DOMAIN x[0])]]

winograd_filter_transform_f23(g) == Sandwich(TwiceG, g)
winograd_input_transform_f23(d)  == Sandwich(BT, d)
winograd_output_transform_f23(m) == Sandwich(AT, m)

\* All channels read the same plane.  An odd last row or column of the output is not
\* written: it keeps what the caller's buffer had.
mma_winograd_conv2d_f23(plane, kernels, before) ==
    LET U == [c \in DOMAIN kernels |-> winograd_filter_transform_f23(kernels[c])]
        tiles_h == (Rows(plane) - 2) \div 2
        tiles_w == (Cols(plane) - 2) \div 2
        Y == [th \in 0 .. tiles_h - 1 |-> [tw \in 0 .. tiles_w - 1 |->
                LET V == winograd_input_transform_f23(
                            [i \in 0 .. 3 |-> [j \in 0 .. 3 |-> plane[2 * th + i][2 * tw + j]]])
                IN  winograd_output_transform_f23([i \in 0 .. 3 |-> [j \in 0 .. 3 |->
                        MapThenSumSet(LAMBDA c : U[c][i][j] * V[i][j], DOMAIN kernels)]])]]
    IN  [oh \in 0 .. Rows(plane) - 3 |-> [ow \in 0 .. Cols(plane) - 3 |->
            IF oh \div 2 < tiles_h /\ ow \div 2 < tiles_w
            THEN Y[oh \div 2][ow \div 2][oh % 2][ow % 2] ELSE before]]

ConvNext ==
    \E f, g \in Fills, h, w \in 4 .. 5 :
       LET planes  == [c \in 0 .. 1 |-> Filled(IF c = 0 THEN f ELSE g, h, w)]
           kernels == [c \in 0 .. 1 |-> Filled(IF c = 0 THEN g ELSE f, 3, 3)]
           Job(op, result) == [op |-> op, planes |-> planes, kernels |-> kernels, result |-> result]
       IN  \/ job' = Job("im2col", mma_conv2d_to_matmul(planes, kernels))
           \/ job' = Job("winograd", mma_winograd_conv2d_f23(planes[0], kernels, 0))
--------------------------------------------------------------------------------
MatrixInit ==
    /\ LET A == CHOOSE A \in SparseMatrices : TRUE
       IN /\ csr = [matrix |-> NoCsr(A), held |-> [i \in DOMAIN A |-> [j \in DOMAIN A[0] |-> 0]]]
          /\ ell = [i \in DOMAIN A |->
                      [col_idx |-> [k \in Slots |-> -1], values |-> [k \in Slots |-> 0],
                       dense |-> [j \in DOMAIN A[0] |-> 0], used |-> 0]]
    /\ job = [op |-> "none"]

\* Computations keep nothing: one is the first and the last thing a behaviour does.
JobNext ==
    /\ job.op = "none" /\ UNCHANGED <<csr, ell>>
    /\ PruneNext \/ ProductNext \/ ConvNext
--------------------------------------------------------------------------------
\* A sparse matrix multiplies like the dense one it was last converted from; in rows of
\* fixed width that holds of a row that fits and fills the slots filled before.
FormatsMultiply ==
    \A x \in Vectors :
       /\ sparse_spmm(csr.matrix, x) = Times(csr.held, x)
       /\ bcsr_spmm(bcsr_from_dense(csr.held), x) = Times(csr.held, x)
       /\ LET dense == [i \in DOMAIN ell |-> ell[i].dense]
          IN  \A i \in DOMAIN ell :
                 ell[i].used = Len(NonZeroCols(dense, i)) => ell_spmv(x)[i] = Times(dense, x)[i]

\* Pruning changes nothing but to zero, and never drops a weight for a smaller one.
PruningKeepsLargest ==
    job.op \in {"2of4", "prune"} =>
        LET dropped == {k \in DOMAIN job.w : job.result[k] # job.w[k]}
        IN  /\ \A k \in dropped : job.result[k] = 0
            /\ \A k \in dropped, n \in DOMAIN job.w \ dropped :
                  Magnitude(job.w[k]) <= Magnitude(job.w[n]) \/ job.w[n] = 0
            /\ job.op = "2of4" => Zeroes(job.result) >= 2
            /\ job.op = "prune" => Zeroes(job.result) <= Max({1, job.target, Zeroes(job.w)})

\* B with its packed rows put back where the pattern says, zero elsewhere.
UnpackedB(packed, patterns, K) ==
    [k \in 0 .. K - 1 |-> [j \in DOMAIN packed[0] |->
        IF k % 4 \in patterns[k \div 4]
        THEN packed[2 * (k \div 4) + Cardinality({q \in patterns[k \div 4] : q < k % 4})][j] ELSE 0]]

UnpackedA(packed, selected, K) ==
    [i \in DOMAIN packed |-> [k \in 0 .. K - 1 |->
        MapThenSumSet(LAMBDA h : IF selected[k \div 4][h] = k % 4 THEN packed[i][2 * (k \div 4) + h] ELSE 0, 0 .. 1)]]

Clamped(A) == [i \in DOMAIN A |-> [j \in DOMAIN A[0] |-> precision_round_input(A[i][j])]]

\* Tiled and packed products are the product, whatever the shape; a single tile's is
\* when the matrices fit it.
ProductsExact ==
    /\ job.op \in {"mma", "gemm"} => job.result = Product(job.A, job.B, job.C)
    /\ job.op = "tensor" => job.result = Product(Clamped(job.A), Clamped(job.B), job.C)
    /\ job.op = "tile" /\ Rows(job.B) <= Tile \div 2 =>
          \A i \in DOMAIN job.C, j \in DOMAIN job.C[0] :
             i < Tile /\ j < Tile => job.result[i][j] = Product(job.A, job.B, job.C)[i][j]
    /\ job.op = "blocks" =>
          \A i \in DOMAIN job.C, j \in DOMAIN job.C[0] :
             job.result.cells[i][j] =
                IF <<i \div Tile, j \div Tile>> \in job.result.mask
                THEN Product(job.A, job.B, job.C)[i][j] - job.C[i][j] ELSE 0
    /\ job.op = "packedB" =>
          job.result = Product(job.A, UnpackedB(job.B.packed, job.B.patterns, Cols(job.A)), job.C)
    /\ job.op = "packedA" =>
          job.result = Product(UnpackedA(job.A.packed, job.A.selected, Rows(job.B)), job.B, job.C)
    /\ job.op = "size" =>
          LET Count(t) == Tiles(job.dims[1], t) * Tiles(job.dims[2], t) * Tiles(job.dims[3], t)
          IN  \A t \in TileRange : 12 * t * t <= job.bytes => Count(job.result) <= Count(t)

\* Unrolled, the convolution is the sum of those of the channels; in the Winograd domain,
\* where every channel reads the first plane, that of this plane with every kernel.
ConvolutionsExact ==
    /\ job.op = "im2col" =>
          \A oh \in DOMAIN job.result, ow \in DOMAIN job.result[0] :
             job.result[oh][ow] =
                MapThenSumSet(LAMBDA c : mma_depthwise_conv2d(job.planes, job.kernels)[c][oh][ow], DOMAIN job.planes)
    /\ job.op = "winograd" =>
          \A oh \in 0 .. 2 * ((Rows(job.planes[0]) - 2) \div 2) - 1,
             ow \in 0 .. 2 * ((Cols(job.planes[0]) - 2) \div 2) - 1 :
             job.result[oh][ow] =
                4 * MapThenSumSet(LAMBDA c : ConvAt(job.planes[0], job.kernels[c], oh, ow), DOMAIN job.kernels)

\* The matrix algorithms of the accelerators compute what their textbook definitions say,
\* over shapes that do not fill the tiles and structures that are used again.
MatrixSound == FormatsMultiply /\ PruningKeepsLargest /\ ProductsExact /\ ConvolutionsExact
================================================================================
