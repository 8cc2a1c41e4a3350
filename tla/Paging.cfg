SPECIFICATION Spec
CONSTANTS
  PageSize = 2
  NR_PTE = 2
  NR_PDE = 12
  KTables = 5
  KOFFSET = 7
  NR_PT = 1
  NR_UPT = 5
  FirstFrame = 4
  STACK_PAGES = 1
  Programs <- SmallPrograms
  TlbSize = 2
  Breaks <- SmallBreaks
INVARIANT TypeOK
INVARIANT TranslationRight
INVARIANT ImageInPlace
INVARIANT HeapMapped
INVARIANT FramesFollow
PROPERTY MappingsStay
