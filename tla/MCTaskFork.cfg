SPECIFICATION Spec
CONSTANT MaxTasks = 2
PROPERTY ForkedChildRuns
