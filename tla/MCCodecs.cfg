SPECIFICATION Spec
 
PROPERTY WritingBackChangesNothing
