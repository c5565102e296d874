---------------------------- MODULE InstanceHost -----------------------------
(***************************************************************************)
(* What runs on the host of an Instance: LMCache, with the buffer of its   *)
(* memory objects, its pages and the token database that names what is     *)
(* stored, and the campaigns that measure TTFT and TPOT, with the file of  *)
(* the coefficients.  They share no state; each has its constants and      *)
(* variables under its prefix, and Storage checks them beside the other    *)
(* modules.                                                                *)
(***************************************************************************)
CONSTANTS
  ma_Obj, ma_Size, ma_Align, ma_Raw, ma_MaxBatch, ma_MaxRef, ma_MaxPin,
  pa_Thread, pa_Page, pa_MaxBatch, pa_MaxRef, pa_MaxPin,
  td_Token, td_Sep, td_ChunkSize, td_MaxTokens,
  tp_Configs, tp_Repeats, tp_MaxRetries, tp_MaxReports,
  tb_Longest, tb_Offset, tb_Tokens, tb_Overlaps, tb_PrefillLoad,
  tb_MaxFaults, tb_MaxCollections,
  cf_BatchSizes, cf_Asked, cf_MaxSamples, cf_MaxFits, cf_MaxTokens, cf_Align

VARIABLES
  ma_free, ma_obj, ma_total, ma_active, ma_stray,
  pa_freeBlocks, pa_ref, pa_pin, pa_cut, pa_wants, pa_full, pa_taken,
  pa_holds, pa_known, pa_overdrawn,
  td_kind, td_tokens, td_falses, td_unfull, td_matches, td_cut, td_at,
  td_prefix, td_yielded, td_result,
  tp_at, tp_config, tp_repeat, tp_mark, tp_retries, tp_data, tp_scaler,
  tp_model, tp_reports,
  tb_phase, tb_job, tb_todo, tb_start, tb_measured, tb_exact, tb_load,
  tb_prefills, tb_disturbed, tb_model, tb_curve, tb_collections, tb_faults,
  cf_samples, cf_lines, cf_fits, cf_writing, cf_file, cf_answer

ma_vars == <<ma_free, ma_obj, ma_total, ma_active, ma_stray>>
pa_vars == <<pa_freeBlocks, pa_ref, pa_pin, pa_cut, pa_wants, pa_full,
              pa_taken, pa_holds, pa_known, pa_overdrawn>>
td_vars == <<td_kind, td_tokens, td_falses, td_unfull, td_matches, td_cut,
              td_at, td_prefix, td_yielded, td_result>>
tp_vars == <<tp_at, tp_config, tp_repeat, tp_mark, tp_retries, tp_data,
              tp_scaler, tp_model, tp_reports>>
tb_vars == <<tb_phase, tb_job, tb_todo, tb_start, tb_measured, tb_exact,
              tb_load, tb_prefills, tb_disturbed, tb_model, tb_curve,
              tb_collections, tb_faults>>
cf_vars == <<cf_samples, cf_lines, cf_fits, cf_writing, cf_file, cf_answer>>

MA == INSTANCE MemoryAllocator WITH
  free <- ma_free, obj <- ma_obj, total <- ma_total, active <- ma_active,
  stray <- ma_stray,
  Obj <- ma_Obj, Size <- ma_Size, Align <- ma_Align, Raw <- ma_Raw,
  MaxBatch <- ma_MaxBatch, MaxRef <- ma_MaxRef, MaxPin <- ma_MaxPin

PA == INSTANCE PagedAllocator WITH
  freeBlocks <- pa_freeBlocks, ref <- pa_ref, pin <- pa_pin, cut <- pa_cut,
  wants <- pa_wants, full <- pa_full, taken <- pa_taken, holds <- pa_holds,
  known <- pa_known, overdrawn <- pa_overdrawn,
  Thread <- pa_Thread, Page <- pa_Page, MaxBatch <- pa_MaxBatch,
  MaxRef <- pa_MaxRef, MaxPin <- pa_MaxPin

TD == INSTANCE TokenDatabase WITH
  kind <- td_kind, tokens <- td_tokens, falses <- td_falses,
  unfull <- td_unfull, matches <- td_matches, cut <- td_cut, at <- td_at,
  prefix <- td_prefix, yielded <- td_yielded, result <- td_result,
  Token <- td_Token, Sep <- td_Sep, ChunkSize <- td_ChunkSize,
  MaxTokens <- td_MaxTokens

TP == INSTANCE TtftPredictor WITH
  at <- tp_at, config <- tp_config, repeat <- tp_repeat, mark <- tp_mark,
  retries <- tp_retries, data <- tp_data, scaler <- tp_scaler,
  model <- tp_model,
  reports <- tp_reports, Configs <- tp_Configs, Repeats <- tp_Repeats,
  MaxRetries <- tp_MaxRetries, MaxReports <- tp_MaxReports

TB == INSTANCE TpotBenchmark WITH
  phase <- tb_phase, job <- tb_job, todo <- tb_todo, start <- tb_start,
  measured <- tb_measured, exact <- tb_exact, load <- tb_load,
  prefills <- tb_prefills, disturbed <- tb_disturbed, model <- tb_model,
  curve <- tb_curve, collections <- tb_collections, faults <- tb_faults,
  Longest <- tb_Longest, Offset <- tb_Offset, Tokens <- tb_Tokens,
  Overlaps <- tb_Overlaps, PrefillLoad <- tb_PrefillLoad,
  MaxFaults <- tb_MaxFaults, MaxCollections <- tb_MaxCollections

CF == INSTANCE CoefficientFile WITH
  samples <- cf_samples, lines <- cf_lines, fits <- cf_fits,
  writing <- cf_writing, file <- cf_file, answer <- cf_answer,
  BatchSizes <- cf_BatchSizes, Asked <- cf_Asked,
  MaxSamples <- cf_MaxSamples, MaxFits <- cf_MaxFits,
  MaxTokens <- cf_MaxTokens, Align <- cf_Align
=============================================================================
