CONSTANT Modules <- MCModules
CONSTANT Private = {}
CONSTANT ImportFiles <- MCImportFiles
CONSTANT TextFiles <- MCTextFiles
CONSTANT TreeFiles <- MCTreeFiles
CONSTANT Documents <- MCDocuments
CONSTANT RewrittenTexts <- MCRewrittenTexts
CONSTANT Insertions <- MCInsertions
CONSTANT Bytes <- MCBytes
CONSTANT Units <- MCUnits
CONSTANT PatternSources <- MCPatternSources
CONSTANT StructureSources <- MCStructureSources
CONSTANT Place <- Here
CONSTANT Options <- MCOptions
CONSTANT ImportOptions <- MCImportOptions
CONSTANT MaxEdits = 1
CONSTANT MaxFixes = 2
SPECIFICATION Spec
INVARIANT FixKeepsMeaning
INVARIANT OfferedFixWorks
INVARIANT QuickFixStays
INVARIANT ReplayedAsFresh
INVARIANT ToolsForetell
INVARIANT EditorInSync
CHECK_DEADLOCK FALSE
